--------------------------- MODULE RegistryProofs ---------------------------
(***************************************************************************)
(* What the task registry and its admin socket guarantee for any number of *)
(* tasks, operators, budgets, restarts and connections, and any cap and    *)
(* lease: no slot leaks, no millisecond is charged twice, a task's first   *)
(* outcome and its usage stand.  What a session read back from the log of  *)
(* such a task shows, however the log fared in between.  And what it       *)
(* remembers and retrieves, for every file, vector, hit and bound.         *)
(***************************************************************************)
EXTENDS Admin, Session, Recall, TaskRegistryProofs, SequenceTheorems

\* The inductive invariant.
RInv ==
  /\ now \in Nat /\ restarts \in Nat
  /\ IsRegistry(reg, now)
  /\ restarts = 0 => FirstLife(reg) /\ toAdopt = {}
  /\ dump = None \/ IsDump(dump)
  /\ IsDump(toAdopt)
  /\ \A snap \in toAdopt : snap.id \notin DOMAIN reg.slots

-----------------------------------------------------------------------------
(* The admin socket.                                                       *)

\* One connection touches at most the one task it names, and only when it says
\* so (serve_admin_connection, dispatch_admin).
LEMMA ServedActs ==
  ASSUME NEW operator, NEW nonce, NEW line, NEW after, after = Served(operator, nonce, line)
  PROVE  \/ after.reply # "Acted" /\ after.reg = reg
         \/ /\ after.reply = "Acted" /\ nonce = "right" /\ Owns(reg, line.id, operator)
            /\ \/ after.reg = RequestCancel(reg, line.id, operator)
               \/ after.reg = RequestKill(reg, line.id, operator)
<1>1. ASSUME NEW sent
      PROVE  ReadFrame(sent) \in {"eof", "error", "frame"}
  BY DEF ReadFrame
<1>2. CASE ReadFrame(nonce) # "frame"
  BY <1>1, <1>2 DEF Served
<1>3. CASE ReadFrame(nonce) = "frame" /\ ~ Authenticate(nonce)
  BY <1>3 DEF Served
<1>4. CASE ReadFrame(nonce) = "frame" /\ Authenticate(nonce)
  <2>1. after = IF ReadFrame(line.verb) # "frame" THEN [reply |-> ReadFrame(line.verb), reg |-> reg]
                ELSE IF ParseAdmin(line) = << >> THEN [reply |-> "BadRequest", reg |-> reg]
                ELSE DispatchAdmin(ParseAdmin(line)[1], operator)
    BY <1>4 DEF Served
  <2>2. nonce = "right"
    BY <1>4 DEF Authenticate
  <2>3. CASE ReadFrame(line.verb) # "frame"
    BY <1>1, <2>1, <2>3
  <2>4. CASE ReadFrame(line.verb) = "frame" /\ ParseAdmin(line) = << >>
    BY <2>1, <2>4
  <2>5. CASE ReadFrame(line.verb) = "frame" /\ ParseAdmin(line) # << >>
    <3>1. ParseAdmin(line)[1] = line
      BY <2>5 DEF ParseAdmin
    <3>2. after = DispatchAdmin(line, operator)
      BY <2>1, <2>5, <3>1
    <3> QED
      BY <2>2, <3>2 DEF DispatchAdmin
  <2> QED
    BY <2>3, <2>4, <2>5
<1> QED
  BY <1>2, <1>3, <1>4

\* A cancel or a kill of a task that the operator owns ends it there and then.
LEMMA RequestEnds ==
  ASSUME NEW r, NEW t \in Nat, NEW id, NEW chat, IsRegistry(r, t), Owns(r, id, chat), NEW q,
         q \in {RequestCancel(r, id, chat), RequestKill(r, id, chat)}
  PROVE  q.slots[id].phase \in {"Cancelling", "Killed"} /\ q.running = r.running
<1> DEFINE slot(phase) == [r.slots[id] EXCEPT !.phase = phase]
<1>1. PICK phase \in {"Cancelling", "Killed"} : q = WithSlot(r, id, slot(phase))
  BY DEF RequestCancel, RequestKill
<1>2. slot(phase).phase = phase
  BY DEF IsRegistry, Owns, Live, Metered, Slot
<1> HIDE DEF slot
<1>3. q.slots[id] = slot(phase) /\ q.running = r.running
  BY <1>1, WithSlotWrites
<1> QED
  BY <1>2, <1>3

-----------------------------------------------------------------------------
(* The inductive invariant.                                                *)

\* Initially.
LEMMA RInvInitially == Init => RInv
<1> SUFFICES ASSUME Init PROVE RInv
  OBVIOUS
<1>1. IsRegistry(NewRegistry, 0) /\ FirstLife(NewRegistry) /\ DOMAIN NewRegistry.slots = {}
  BY NewRegistryIsOne
<1> QED
  BY <1>1 DEF Init, RInv, IsDump

\* A call that leaves a registry in which every ended task stands.
LEMMA CallKeeps ==
  ASSUME RInv, NEW r, Call(r), IsRegistry(r, now), FirstLife(reg) => FirstLife(r),
         \A id \in DOMAIN reg.slots :
           reg.slots[id].phase \in Terminal =>
             id \in DOMAIN r.slots /\ r.slots[id] = reg.slots[id]
  PROVE  RInv' /\ FirstOutcomeWins /\ UsageSurvivesRestart
BY DEF RInv, Call, FirstOutcomeWins, UsageSurvivesRestart, IsDump

LEMMA TouchKeeps ==
  ASSUME RInv, NEW r, Call(r), Touched(reg, r, now)
  PROVE  RInv' /\ FirstOutcomeWins /\ UsageSurvivesRestart
<1>1. now \in Nat /\ IsRegistry(reg, now)
  BY DEF RInv
<1>2. /\ IsRegistry(r, now) /\ DOMAIN r.slots = DOMAIN reg.slots
      /\ FirstLife(reg) => FirstLife(r)
      /\ \A id \in DOMAIN reg.slots :
           reg.slots[id].phase \in Terminal => r.slots[id] = reg.slots[id]
  BY <1>1, TouchedKeeps
<1> QED
  BY <1>2, CallKeeps

\* Every step keeps the invariant, the first outcome of every task, and what
\* a snapshot's task had used.
LEMMA StepKeeps ==
  ASSUME RInv, AdminNext
  PROVE  RInv' /\ FirstOutcomeWins /\ UsageSurvivesRestart
<1> USE DEF RInv
<1>0. now \in Nat /\ IsRegistry(reg, now)
  OBVIOUS
<1>1. ASSUME NEW chat \in ChatId, NEW budget \in Budgets, DoAdmit(chat, budget)
      PROVE  RInv' /\ FirstOutcomeWins /\ UsageSurvivesRestart
  <2> DEFINE r == Admit(reg, chat, budget, now)
  <2>1. budget \in Budget /\ HasCapacity(reg) /\ Call(r)
    BY <1>1, RegistryAssumption DEF DoAdmit, Budget
  <2> HIDE DEF RInv
  <2>2. /\ IsRegistry(r, now) /\ (FirstLife(reg) => FirstLife(r))
        /\ \A id \in DOMAIN reg.slots : id \in DOMAIN r.slots /\ r.slots[id] = reg.slots[id]
    BY <1>0, <2>1, AdmitKeeps
  <2> HIDE DEF r
  <2> QED
    BY <2>1, <2>2, CallKeeps
<1>2. ASSUME NEW id \in DOMAIN reg.slots,
             \/ DoMarkRunning(id) \/ DoHeartbeat(id) \/ DoFinished(id)
             \/ \E output \in Outputs : DoProgress(id, output)
             \/ \E chat \in ChatId : DoCancel(id, chat) \/ DoKill(id, chat)
      PROVE  RInv' /\ FirstOutcomeWins /\ UsageSurvivesRestart
  <2> HIDE DEF RInv
  <2>1. \E r : Call(r) /\ Touched(reg, r, now)
    BY <1>0, <1>2, CallsTouch, OutputAssumption
       DEF DoMarkRunning, DoHeartbeat, DoFinished, DoProgress, DoCancel, DoKill
  <2> QED
    BY <2>1, TouchKeeps
<1>3. ASSUME DoTick
      PROVE  RInv' /\ FirstOutcomeWins /\ UsageSurvivesRestart
  <2>1. /\ IsRegistry(reg', now)
        /\ FirstLife(reg) => FirstLife(reg')
        /\ \A id \in DOMAIN reg.slots :
             reg.slots[id].phase \in Terminal =>
               /\ id \notin DOMAIN reg'.slots
               /\ id \in DOMAIN Tick(reg, now).ended
               /\ Tick(reg, now).ended[id] = reg.slots[id].phase
    BY <1>0, <1>3, TickKeeps DEF DoTick
  <2>2. /\ toAdopt = {} /\ UNCHANGED <<now, dump, toAdopt, restarts>>
        /\ \A id \in DOMAIN Tick(reg, now).ended : retired'[id] = Tick(reg, now).ended[id]
    BY <1>3 DEF DoTick
  <2>3. RInv'
    BY <2>1, <2>2 DEF IsDump
  <2> QED
    BY <2>1, <2>2, <2>3 DEF FirstOutcomeWins, UsageSurvivesRestart
<1>4. ASSUME Advance
      PROVE  RInv' /\ FirstOutcomeWins /\ UsageSurvivesRestart
  <2>1. now' \in Nat /\ now' >= now /\ UNCHANGED <<reg, dump, toAdopt, restarts, retired>>
    BY <1>4 DEF Advance
  <2>2. IsRegistry(reg, now')
    BY <1>0, <2>1 DEF IsRegistry, Metered, Slot
  <2>3. RInv'
    BY <2>1, <2>2 DEF IsDump
  <2> QED
    BY <2>1, <2>3 DEF FirstOutcomeWins, UsageSurvivesRestart
<1>5. ASSUME Restart
      PROVE  RInv' /\ FirstOutcomeWins /\ UsageSurvivesRestart
  <2>1. /\ restarts' = restarts + 1 /\ reg' = NewRegistry /\ now' = now
        /\ dump' \in {SnapshotAll(reg), None, dump}
        /\ toAdopt' = IF dump' = None THEN {} ELSE dump'
    BY <1>5 DEF Restart
  <2>2. dump' = None \/ IsDump(dump')
    BY <1>0, <2>1, DumpIsSound
  <2>3. IsDump(toAdopt')
    BY <2>1, <2>2 DEF IsDump
  <2>4. IsRegistry(reg', now) /\ DOMAIN reg'.slots = {}
    BY <1>0, <2>1, NewRegistryIsOne
  <2>5. RInv'
    BY <2>1, <2>2, <2>3, <2>4 DEF IsDump
  <2> QED
    BY <2>1, <2>4, <2>5 DEF FirstOutcomeWins, UsageSurvivesRestart
<1>6. ASSUME NEW snap \in toAdopt, Adopt(snap)
      PROVE  RInv' /\ FirstOutcomeWins /\ UsageSurvivesRestart
  <2>1. PICK present \in BOOLEAN : reg' = AdoptFromSnapshot(reg, snap, present, now)
    BY <1>6 DEF Adopt
  <2>2. toAdopt' = toAdopt \ {snap} /\ UNCHANGED <<now, dump, restarts, retired>>
    BY <1>6 DEF Adopt
  <2>3. /\ snap \in Snapshot /\ Within(snap.usage, snap.budget) /\ snap.id \notin DOMAIN reg.slots
        /\ \A other \in toAdopt : other.id = snap.id => other = snap
    BY <1>6 DEF IsDump
  <2>4. /\ IsRegistry(reg', now)
        /\ DOMAIN reg'.slots \subseteq DOMAIN reg.slots \union {snap.id}
        /\ snap.id \in DOMAIN reg'.slots => reg'.slots[snap.id].usage = snap.usage
        /\ \A id \in DOMAIN reg.slots : id \in DOMAIN reg'.slots /\ reg'.slots[id] = reg.slots[id]
    BY <1>0, <2>1, <2>3, AdoptKeeps
  <2>5. restarts # 0
    BY <1>6
  <2>6. IsDump(toAdopt') /\ (dump' = None \/ IsDump(dump'))
    BY <2>2 DEF IsDump
  <2>7. \A other \in toAdopt' : other.id \notin DOMAIN reg'.slots
    BY <2>2, <2>3, <2>4
  <2>8. RInv'
    BY <2>2, <2>4, <2>5, <2>6, <2>7
  <2>9. FirstOutcomeWins
    BY <2>4 DEF FirstOutcomeWins
  <2>10. UsageSurvivesRestart
    BY <2>3, <2>4 DEF UsageSurvivesRestart, Snapshot, Usage
  <2> QED
    BY <2>8, <2>9, <2>10
<1>7. ASSUME NEW c \in Connections, ServeAdmin(c.operator, c.nonce, c.line)
      PROVE  RInv' /\ FirstOutcomeWins /\ UsageSurvivesRestart
  <2> DEFINE r == Served(c.operator, c.nonce, c.line).reg
  <2>1. Call(r)
    BY <1>7 DEF ServeAdmin
  <2>2. \/ r = reg
        \/ r = RequestCancel(reg, c.line.id, c.operator)
        \/ r = RequestKill(reg, c.line.id, c.operator)
    BY ServedActs
  <2> HIDE DEF RInv, r
  <2>3. Touched(reg, r, now)
    BY <1>0, <2>2, CallsTouch DEF Touched
  <2> QED
    BY <2>1, <2>3, TouchKeeps
<1> QED
  BY <1>1, <1>2, <1>3, <1>4, <1>5, <1>6, <1>7 DEF AdminNext, Next

\* The invariant holds in every reachable state.
THEOREM RegistryInvariant == AdminSpec => []RInv
<1>1. RInv /\ UNCHANGED vars => RInv'
  BY DEF RInv, vars, IsDump
<1>2. RInv /\ [AdminNext]_vars => RInv'
  BY <1>1, StepKeeps
<1> QED
  BY <1>2, RInvInitially, PTL DEF AdminSpec

-----------------------------------------------------------------------------
(* What it is for.                                                         *)

LEMMA RInvGuards == RInv => RegistryIsGuarded
<1> SUFFICES ASSUME RInv PROVE RegistryIsGuarded
  OBVIOUS
<1>0. now \in Nat /\ IsRegistry(reg, now)
  BY DEF RInv
<1>1. SchedulerCountsSlots
  BY DEF RInv, IsRegistry, FirstLife, SchedulerCountsSlots
<1>2. MetersAreExact
  BY DEF RInv, IsRegistry, FirstLife, MetersAreExact, Metered, Within, Timed
<1>3. AdminActsForItsOperator
  <2> SUFFICES ASSUME NEW c \in Connections, NEW after,
                      after = Served(c.operator, c.nonce, c.line)
               PROVE  /\ after.reply # "Acted" => after.reg = reg
                      /\ after.reply = "Acted" =>
                           /\ c.nonce = "right"
                           /\ c.line.id \in Live(reg) /\ reg.slots[c.line.id].chat = c.operator
                           /\ after.reg.slots[c.line.id].phase \in {"Cancelling", "Killed"}
                           /\ after.reg.running = reg.running
    BY DEF AdminActsForItsOperator
  <2>1. CASE after.reply # "Acted"
    BY <2>1, ServedActs
  <2>2. CASE after.reply = "Acted"
    <3>1. /\ c.nonce = "right" /\ Owns(reg, c.line.id, c.operator)
          /\ \/ after.reg = RequestCancel(reg, c.line.id, c.operator)
             \/ after.reg = RequestKill(reg, c.line.id, c.operator)
      BY <2>2, ServedActs
    <3>2. /\ after.reg.slots[c.line.id].phase \in {"Cancelling", "Killed"}
          /\ after.reg.running = reg.running
      <4> DEFINE q == after.reg
      <4>1. q \in {RequestCancel(reg, c.line.id, c.operator), RequestKill(reg, c.line.id, c.operator)}
        BY <3>1
      <4> HIDE DEF q
      <4>2. q.slots[c.line.id].phase \in {"Cancelling", "Killed"} /\ q.running = reg.running
        BY <1>0, <3>1, <4>1, RequestEnds
      <4> QED
        BY <4>2 DEF q
    <3> QED
      BY <2>2, <3>1, <3>2 DEF Owns
  <2> QED
    BY <2>1, <2>2
<1> QED
  BY <1>1, <1>2, <1>3 DEF RegistryIsGuarded

\* However many tasks, operators and restarts: until the first restart the
\* scheduler's count is the number of occupied slots, and it never passes the
\* cap; no task is metered past its budget nor charged a millisecond twice; a
\* connection to the admin socket changes only a live task of its operator, and
\* says so (admit, observe_progress, tick, dispatch_admin).
THEOREM RegistryGuarded == AdminSpec => []RegistryIsGuarded
BY RegistryInvariant, RInvGuards, PTL

\* The first outcome of a task is the one reported, and what a task has used
\* outlives a restart, whatever calls, ticks and adoptions follow
\* (observe_finished, request_kill, tick, adopt_from_snapshot).
THEOREM RecordsOutlive == AdminSpec => RecordsStand
<1>1. RInv /\ UNCHANGED vars => FirstOutcomeWins /\ UsageSurvivesRestart
  BY DEF RInv, vars, FirstOutcomeWins, UsageSurvivesRestart
<1>2. RInv /\ [AdminNext]_vars => [FirstOutcomeWins /\ UsageSurvivesRestart]_vars
  BY StepKeeps
<1> QED
  BY <1>2, RegistryInvariant, PTL DEF AdminSpec, RecordsStand

(***************************************************************************)
(* Sessions.  The frames kept of a log, one step at a time.                *)
(***************************************************************************)
IsKeeping(f, S, log, at) ==
  /\ log \in Seq(S) /\ f \in [0 .. Len(log) -> Seq(S)] /\ f[0] = <<>>
  /\ \A n \in 1 .. Len(log) : f[n] = IF n \in at THEN Append(f[n - 1], log[n]) ELSE f[n - 1]

\* KeptTo is the recursive function its definition reads as.
LEMMA KeptToIs ==
  ASSUME NEW R, NEW log \in Seq(R), NEW at
  PROVE  IsKeeping(KeptTo(log, at), R, log, at)
<1> DEFINE N == Len(log)
           S == Seq(R)
           Succ(i, x) == IF i \in at THEN Append(x, log[i]) ELSE x
           g == [i \in 1 .. N |-> [x \in S |-> Succ(i, x)]]
           Eq(h) == h = [i \in 0 .. N |-> IF i = 0 THEN <<>> ELSE Succ(i, h[i - 1])]
           f == CHOOSE h : Eq(h)
<1>1. N \in Nat /\ <<>> \in S
  OBVIOUS
<1>2. \A i \in 1 .. N, x \in S : Succ(i, x) \in S
  <2>1. \A i \in 1 .. N : log[i] \in R
    OBVIOUS
  <2>2. \A x \in S, e \in R : Append(x, e) \in S
    OBVIOUS
  <2> QED BY <2>1, <2>2
<1>3. KeptTo(log, at) = f
  BY DEF KeptTo
<1> HIDE DEF N, Succ, S
<1>4. IsStep(g, N, S)
  BY <1>2 DEF IsStep
<1> HIDE DEF g
<1>5. PICK h : Iterates(h, N, S, <<>>, g)
  <2> HIDE DEF f, Eq
  <2> QED BY <1>1, <1>4, Recursion
<1>6. \A i \in 1 .. N : i - 1 \in 0 .. N /\ i # 0 /\ i \in 0 .. N
  BY <1>1
<1>7. Eq(h)
  <2>1. \A i \in 1 .. N : h[i] = Succ(i, h[i - 1])
    BY <1>5, <1>6 DEF g, Iterates
  <2>2. \A i \in 0 .. N : i # 0 => i \in 1 .. N
    BY <1>1
  <2>3. \A i \in 0 .. N : h[i] = IF i = 0 THEN <<>> ELSE Succ(i, h[i - 1])
    BY <1>5, <2>1, <2>2 DEF Iterates
  <2> QED BY <1>5, <2>3 DEF Iterates
<1>8. Eq(f)
  <2> HIDE DEF Eq
  <2> QED BY <1>7
<1> HIDE DEF f
<1>9. f[0] = <<>> /\ \A i \in 1 .. N : f[i] = Succ(i, f[i - 1])
  <2>1. 0 \in 0 .. N
    BY <1>1
  <2>2. \A i \in 0 .. N : f[i] = IF i = 0 THEN <<>> ELSE Succ(i, f[i - 1])
    BY <1>8
  <2> HIDE DEF Eq
  <2> QED BY <1>6, <2>1, <2>2
<1>10. \A i \in 0 .. N : f[i] \in S
  <2> DEFINE T == {i \in 0 .. N : f[i] \in S}
  <2>1. 0 \in T
    BY <1>1, <1>9
  <2>2. ASSUME NEW i \in 1 .. N, i - 1 \in T PROVE i \in T
    BY <1>2, <1>6, <1>9, <2>2
  <2> HIDE DEF T
  <2>3. \A i \in 0 .. N : i \in T
    BY <1>1, <2>1, <2>2, UpTo
  <2> QED BY <2>3 DEF T
<1>11. f \in [0 .. N -> S]
  BY <1>8, <1>10
<1> QED BY <1>3, <1>9, <1>11 DEF N, Succ, S, IsKeeping

\* The values of a keeping are sequences.
LEMMA KeepingType ==
  ASSUME NEW f, NEW S, NEW log, NEW at, IsKeeping(f, S, log, at)
  PROVE  /\ log \in Seq(S) /\ Len(log) \in Nat /\ f[0] = <<>> /\ Len(f[0]) = 0
         /\ \A n \in 0 .. Len(log) : f[n] \in Seq(S) /\ Len(f[n]) \in Nat
BY DEF IsKeeping

\* One more frame of the log is kept at the end, or is not.
LEMMA KeepingStep ==
  ASSUME NEW f, NEW S, NEW log, NEW at, IsKeeping(f, S, log, at), NEW n \in 1 .. Len(log)
  PROVE  /\ n \in Nat /\ n - 1 \in 0 .. Len(log) /\ n \in 0 .. Len(log) /\ log[n] \in S
         /\ n \notin at => f[n] = f[n - 1]
         /\ n \in at => /\ Len(f[n]) = Len(f[n - 1]) + 1 /\ f[n][Len(f[n - 1]) + 1] = log[n]
                        /\ \A k \in 1 .. Len(f[n - 1]) : f[n][k] = f[n - 1][k]
<1>1. log \in Seq(S) /\ Len(log) \in Nat
  BY KeepingType
<1>2. n \in Nat /\ n - 1 \in 0 .. Len(log) /\ n \in 0 .. Len(log) /\ log[n] \in S
  BY <1>1
<1>3. f[n - 1] \in Seq(S)
  BY <1>2, KeepingType
<1>4. f[n] = IF n \in at THEN Append(f[n - 1], log[n]) ELSE f[n - 1]
  BY DEF IsKeeping
<1> DEFINE x == f[n - 1]
           e == log[n]
<1> HIDE DEF x, e
<1>5. /\ Len(Append(x, e)) = Len(x) + 1 /\ Append(x, e)[Len(x) + 1] = e
      /\ \A k \in 1 .. Len(x) : Append(x, e)[k] = x[k]
  BY <1>2, <1>3, AppendProperties DEF x, e
<1> QED BY <1>2, <1>4, <1>5 DEF x, e

\* What is kept comes from the log, and what is to be kept is.
LEMMA KeepingHolds ==
  ASSUME NEW f, NEW S, NEW log, NEW at, IsKeeping(f, S, log, at), NEW n \in 0 .. Len(log)
  PROVE  /\ \A k \in 1 .. Len(f[n]) : \E i \in 1 .. n : i \in at /\ f[n][k] = log[i]
         /\ \A i \in 1 .. n : i \in at => \E k \in 1 .. Len(f[n]) : f[n][k] = log[i]
<1> DEFINE From(m) == \A k \in 1 .. Len(f[m]) : \E i \in 1 .. m : i \in at /\ f[m][k] = log[i]
           Into(m) == \A i \in 1 .. m : i \in at => \E k \in 1 .. Len(f[m]) : f[m][k] = log[i]
           T == {m \in 0 .. Len(log) : From(m) /\ Into(m)}
<1>1. Len(log) \in Nat
  BY KeepingType
<1>2. 0 \in T
  <2>1. Len(f[0]) = 0 /\ 0 \in 0 .. Len(log)
    BY <1>1, KeepingType
  <2>2. \A k \in 1 .. 0 : FALSE
    OBVIOUS
  <2> QED BY <2>1, <2>2
<1>3. ASSUME NEW m \in 1 .. Len(log), m - 1 \in T PROVE m \in T
  <2> DEFINE a == f[m - 1]
             b == f[m]
  <2>1. /\ m \in Nat /\ m - 1 \in 0 .. Len(log) /\ m \in 0 .. Len(log)
        /\ m \notin at => b = a
        /\ m \in at => /\ Len(b) = Len(a) + 1 /\ b[Len(a) + 1] = log[m]
                       /\ \A k \in 1 .. Len(a) : b[k] = a[k]
    <3> HIDE DEF T
    <3> QED BY KeepingStep
  <2>2. Len(a) \in Nat /\ Len(b) \in Nat
    <3> HIDE DEF T
    <3> QED BY <2>1, KeepingType
  <2>3. From(m - 1) /\ Into(m - 1)
    BY <1>3
  <2>4. \A k \in 1 .. Len(a) : \E i \in 1 .. m - 1 : i \in at /\ a[k] = log[i]
    BY <2>3
  <2>5. \A i \in 1 .. m - 1 : i \in at => \E k \in 1 .. Len(a) : a[k] = log[i]
    BY <2>3
  <2>6. \A i \in 1 .. m : i = m \/ i \in 1 .. m - 1
    BY <2>1
  <2>7. (\A i \in 1 .. m - 1 : i \in 1 .. m) /\ m \in 1 .. m
    BY <2>1
  <2> HIDE DEF a, b, T
  <2>8. CASE m \notin at
    <3>1. \A k \in 1 .. Len(b) : \E i \in 1 .. m : i \in at /\ b[k] = log[i]
      BY Zenon, <2>1, <2>4, <2>7, <2>8
    <3>2. \A i \in 1 .. m : i \in at => \E k \in 1 .. Len(b) : b[k] = log[i]
      BY Zenon, <2>1, <2>5, <2>6, <2>8
    <3> QED BY Zenon, <2>1, <3>1, <3>2 DEF b, T
  <2>9. CASE m \in at
    <3>1. \A k \in 1 .. Len(b) : k \in 1 .. Len(a) \/ k = Len(a) + 1
      BY <2>1, <2>2, <2>9
    <3>2. Len(a) + 1 \in 1 .. Len(b) /\ \A k \in 1 .. Len(a) : k \in 1 .. Len(b)
      BY <2>1, <2>2, <2>9
    <3>3. \A k \in 1 .. Len(b) : \E i \in 1 .. m : i \in at /\ b[k] = log[i]
      <4> TAKE k \in 1 .. Len(b)
      <4>1. CASE k \in 1 .. Len(a)
        <5>1. PICK i \in 1 .. m - 1 : i \in at /\ a[k] = log[i]
          BY <2>4, <4>1
        <5>2. b[k] = a[k]
          BY <2>1, <2>9, <4>1
        <5> QED BY Zenon, <2>7, <5>1, <5>2
      <4>2. CASE k = Len(a) + 1
        BY Zenon, <2>1, <2>7, <2>9, <4>2
      <4> QED BY Zenon, <3>1, <4>1, <4>2
    <3>4. \A i \in 1 .. m : i \in at => \E k \in 1 .. Len(b) : b[k] = log[i]
      <4> TAKE i \in 1 .. m
      <4>1. CASE i \in 1 .. m - 1 /\ i \in at
        <5>1. PICK k \in 1 .. Len(a) : a[k] = log[i]
          BY <2>5, <4>1
        <5>2. b[k] = a[k]
          BY <2>1, <2>9
        <5> QED BY Zenon, <3>2, <5>1, <5>2
      <4>2. CASE i = m
        BY Zenon, <2>1, <2>9, <3>2, <4>2
      <4> QED BY Zenon, <2>6, <4>1, <4>2
    <3> QED BY Zenon, <2>1, <3>3, <3>4 DEF b, T
  <2> QED BY <2>8, <2>9
<1> HIDE DEF T
<1>4. \A m \in 0 .. Len(log) : m \in T
  BY <1>1, <1>2, <1>3, UpTo
<1> QED BY <1>4 DEF T

\* What was kept stays where it is.
LEMMA KeepingGrows ==
  ASSUME NEW f, NEW S, NEW log, NEW at, IsKeeping(f, S, log, at), NEW m \in 0 .. Len(log)
  PROVE  \A n \in 0 .. Len(log) :
           n >= m => Len(f[m]) <= Len(f[n]) /\ \A k \in 1 .. Len(f[m]) : f[n][k] = f[m][k]
<1> DEFINE c == f[m]
           P(n) == n >= m => Len(c) <= Len(f[n]) /\ \A k \in 1 .. Len(c) : f[n][k] = c[k]
           T == {n \in 0 .. Len(log) : P(n)}
<1>1. Len(log) \in Nat /\ m \in Nat /\ Len(c) \in Nat /\ \A n \in 0 .. Len(log) : Len(f[n]) \in Nat
  BY KeepingType
<1> HIDE DEF c
<1>2. 0 \in T
  <2>1. 0 >= m => m = 0
    BY <1>1
  <2>2. 0 \in 0 .. Len(log)
    BY <1>1
  <2>3. ASSUME m = 0 PROVE Len(c) <= Len(f[0]) /\ \A k \in 1 .. Len(c) : f[0][k] = c[k]
    <3>1. c = f[0]
      BY <2>3 DEF c
    <3> QED BY <1>1, <3>1
  <2> QED BY <2>1, <2>2, <2>3
<1>3. ASSUME NEW n \in 1 .. Len(log), n - 1 \in T PROVE n \in T
  <2> DEFINE a == f[n - 1]
             b == f[n]
  <2>1. /\ n \in Nat /\ n - 1 \in 0 .. Len(log) /\ n \in 0 .. Len(log)
        /\ n \notin at => b = a
        /\ n \in at => /\ Len(b) = Len(a) + 1 /\ b[Len(a) + 1] = log[n]
                       /\ \A k \in 1 .. Len(a) : b[k] = a[k]
    <3> HIDE DEF T
    <3> QED BY KeepingStep
  <2>2. Len(a) \in Nat /\ Len(b) \in Nat
    BY <1>1, <2>1
  <2>3. n - 1 >= m => Len(c) <= Len(a) /\ \A k \in 1 .. Len(c) : a[k] = c[k]
    BY <1>3
  <2>4. n = m => b = c
    BY DEF c
  <2> HIDE DEF a, b, T
  <2>5. n >= m => Len(c) <= Len(b) /\ \A k \in 1 .. Len(c) : b[k] = c[k]
    <3>1. CASE n = m
      BY <1>1, <2>2, <2>4, <3>1
    <3>2. CASE n - 1 >= m
      <4>1. Len(c) <= Len(a) /\ (\A k \in 1 .. Len(c) : a[k] = c[k]) /\ \A k \in 1 .. Len(c) : k \in 1 .. Len(a)
        BY <1>1, <2>2, <2>3, <3>2
      <4>2. Len(a) <= Len(b) /\ \A k \in 1 .. Len(a) : b[k] = a[k]
        BY <2>1, <2>2
      <4>3. Len(c) <= Len(b)
        BY <1>1, <2>2, <4>1, <4>2
      <4> QED BY Zenon, <4>1, <4>2, <4>3
    <3>3. n >= m => n = m \/ n - 1 >= m
      BY <1>1, <2>1
    <3> QED BY Zenon, <3>1, <3>2, <3>3
  <2> QED BY Zenon, <2>1, <2>5 DEF b, T
<1> HIDE DEF T
<1>4. \A n \in 0 .. Len(log) : n \in T
  BY <1>1, <1>2, <1>3, UpTo
<1> QED BY <1>4 DEF T, c

(* Two logs are alike in their first N frames, and in which are kept. *)
Alike(log, more, at, also, N) ==
  /\ N \in Nat /\ N <= Len(log) /\ N <= Len(more)
  /\ \A i \in 1 .. N : log[i] = more[i] /\ (i \in at <=> i \in also)

\* Logs that begin alike keep alike as long as they do.
LEMMA KeepingAgrees ==
  ASSUME NEW f, NEW g, NEW S, NEW log, NEW more, NEW at, NEW also, NEW N,
         IsKeeping(f, S, log, at), IsKeeping(g, S, more, also), Alike(log, more, at, also, N)
  PROVE  f[N] = g[N]
<1>0. N \in Nat /\ N <= Len(log) /\ N <= Len(more) /\ \A i \in 1 .. N : log[i] = more[i] /\ (i \in at <=> i \in also)
  BY DEF Alike
<1> DEFINE T == {n \in 0 .. N : f[n] = g[n]}
<1>1. Len(log) \in Nat /\ Len(more) \in Nat /\ f[0] = <<>> /\ g[0] = <<>>
  BY KeepingType
<1>2. 0 \in T
  BY <1>0, <1>1
<1>3. ASSUME NEW n \in 1 .. N, n - 1 \in T PROVE n \in T
  <2>1. n \in 1 .. Len(log) /\ n \in 1 .. Len(more) /\ n \in 0 .. N
    BY <1>0, <1>1
  <2>2. f[n - 1] = g[n - 1]
    BY <1>3
  <2> HIDE DEF T
  <2>3. f[n] = IF n \in at THEN Append(f[n - 1], log[n]) ELSE f[n - 1]
    BY <2>1 DEF IsKeeping
  <2>4. g[n] = IF n \in also THEN Append(g[n - 1], more[n]) ELSE g[n - 1]
    BY <2>1 DEF IsKeeping
  <2>5. f[n] = g[n]
    BY <1>0, <2>2, <2>3, <2>4
  <2> QED BY <2>1, <2>5 DEF T
<1>4. \A n \in 0 .. N : n \in T
  <2> HIDE DEF T
  <2> QED BY <1>0, <1>2, <1>3, UpTo
<1> QED BY <1>0, <1>4

(***************************************************************************)
(* Texts: the lines of a history and where they end.                       *)
(***************************************************************************)
TextLine == [is : {"turn", "capped", "dropped", "summary", "cut"}, of : Nat, size : Nat]

IsMeasure(e, lines) ==
  /\ lines \in Seq(TextLine) /\ e \in [0 .. Len(lines) -> Nat] /\ e[0] = 0
  /\ \A n \in 1 .. Len(lines) : e[n] = e[n - 1] + lines[n].size

\* Ends is the recursive function its definition reads as.
LEMMA EndsIs ==
  ASSUME NEW lines \in Seq(TextLine)
  PROVE  IsMeasure(Ends(lines), lines)
<1> DEFINE N == Len(lines)
           Succ(i, x) == x + lines[i].size
           g == [i \in 1 .. N |-> [x \in Nat |-> Succ(i, x)]]
           Eq(h) == h = [i \in 0 .. N |-> IF i = 0 THEN 0 ELSE Succ(i, h[i - 1])]
           f == CHOOSE h : Eq(h)
<1>1. N \in Nat
  OBVIOUS
<1>2. \A i \in 1 .. N, x \in Nat : Succ(i, x) \in Nat
  <2>1. \A i \in 1 .. N : lines[i] \in TextLine
    OBVIOUS
  <2>2. \A l \in TextLine : l.size \in Nat
    BY DEF TextLine
  <2>3. \A i \in 1 .. N : lines[i].size \in Nat
    BY Zenon, <2>1, <2>2
  <2> QED BY <2>3
<1>3. Ends(lines) = f
  BY DEF Ends
<1> HIDE DEF N, Succ
<1>4. IsStep(g, N, Nat)
  BY <1>2 DEF IsStep
<1> HIDE DEF g
<1>5. PICK h : Iterates(h, N, Nat, 0, g)
  <2> HIDE DEF f, Eq
  <2> QED BY <1>1, <1>4, Recursion
<1>6. \A i \in 1 .. N : i - 1 \in 0 .. N /\ i # 0 /\ i \in 0 .. N
  BY <1>1
<1>7. Eq(h)
  <2>1. \A i \in 1 .. N : h[i] = Succ(i, h[i - 1])
    BY <1>5, <1>6 DEF g, Iterates
  <2>2. \A i \in 0 .. N : i # 0 => i \in 1 .. N
    BY <1>1
  <2>3. \A i \in 0 .. N : h[i] = IF i = 0 THEN 0 ELSE Succ(i, h[i - 1])
    BY <1>5, <2>1, <2>2 DEF Iterates
  <2> QED BY <1>5, <2>3 DEF Iterates
<1>8. Eq(f)
  <2> HIDE DEF Eq
  <2> QED BY <1>7
<1> HIDE DEF f
<1>9. f[0] = 0 /\ \A i \in 1 .. N : f[i] = Succ(i, f[i - 1])
  <2>1. 0 \in 0 .. N
    BY <1>1
  <2>2. \A i \in 0 .. N : f[i] = IF i = 0 THEN 0 ELSE Succ(i, f[i - 1])
    BY <1>8
  <2> HIDE DEF Eq
  <2> QED BY <1>6, <2>1, <2>2
<1>10. \A i \in 0 .. N : f[i] \in Nat
  <2> DEFINE T == {i \in 0 .. N : f[i] \in Nat}
  <2>1. 0 \in T
    BY <1>1, <1>9
  <2>2. ASSUME NEW i \in 1 .. N, i - 1 \in T PROVE i \in T
    BY <1>2, <1>6, <1>9, <2>2
  <2> HIDE DEF T
  <2>3. \A i \in 0 .. N : i \in T
    BY <1>1, <2>1, <2>2, UpTo
  <2> QED BY <2>3 DEF T
<1>11. f \in [0 .. N -> Nat]
  BY <1>8, <1>10
<1> QED BY <1>3, <1>9, <1>11 DEF N, Succ, IsMeasure

\* What a measure is, line by line.
LEMMA MeasureIs ==
  ASSUME NEW e, NEW lines, IsMeasure(e, lines)
  PROVE  /\ lines \in Seq(TextLine) /\ Len(lines) \in Nat /\ e[0] = 0
         /\ \A n \in 0 .. Len(lines) : e[n] \in Nat
         /\ \A n \in 1 .. Len(lines) :
              /\ n \in Nat /\ n - 1 \in 0 .. Len(lines) /\ n \in 0 .. Len(lines)
              /\ lines[n] \in TextLine /\ lines[n].size \in Nat /\ e[n] = e[n - 1] + lines[n].size /\ e[n - 1] <= e[n]
<1>1. lines \in Seq(TextLine) /\ Len(lines) \in Nat /\ e[0] = 0 /\ \A n \in 0 .. Len(lines) : e[n] \in Nat
  BY DEF IsMeasure
<1>2. ASSUME NEW n \in 1 .. Len(lines)
      PROVE  /\ n \in Nat /\ n - 1 \in 0 .. Len(lines) /\ n \in 0 .. Len(lines)
             /\ lines[n] \in TextLine /\ lines[n].size \in Nat /\ e[n] = e[n - 1] + lines[n].size /\ e[n - 1] <= e[n]
  <2>1. n \in Nat /\ n - 1 \in 0 .. Len(lines) /\ n \in 0 .. Len(lines)
    BY <1>1
  <2>2. lines[n] \in TextLine /\ e[n] = e[n - 1] + lines[n].size
    BY <1>1 DEF IsMeasure
  <2>3. lines[n].size \in Nat /\ e[n - 1] \in Nat
    BY <1>1, <2>1, <2>2 DEF TextLine
  <2>4. e[n - 1] <= e[n]
    BY <2>2, <2>3
  <2> QED BY <2>1, <2>2, <2>3, <2>4
<1> QED BY <1>1, <1>2

\* No line ends before an earlier one.
LEMMA MeasureGrows ==
  ASSUME NEW e, NEW lines, IsMeasure(e, lines), NEW m \in 0 .. Len(lines)
  PROVE  \A n \in 0 .. Len(lines) : n >= m => e[m] <= e[n]
<1> DEFINE c == e[m]
           T == {n \in 0 .. Len(lines) : n >= m => c <= e[n]}
<1>1. Len(lines) \in Nat /\ c \in Nat /\ m \in Nat /\ \A n \in 0 .. Len(lines) : e[n] \in Nat
  <2> HIDE DEF T
  <2>1. Len(lines) \in Nat /\ \A n \in 0 .. Len(lines) : e[n] \in Nat
    <3>1. lines \in Seq(TextLine) /\ e \in [0 .. Len(lines) -> Nat]
      BY Zenon DEF IsMeasure
    <3> QED BY <3>1
  <2> QED BY <2>1
<1>2. 0 \in T
  <2>1. 0 >= m => m = 0
    BY <1>1
  <2>2. m = 0 => c <= e[0]
    BY <1>1
  <2>3. 0 \in 0 .. Len(lines)
    BY <1>1
  <2> QED BY <2>1, <2>2, <2>3
<1>3. ASSUME NEW n \in 1 .. Len(lines), n - 1 \in T PROVE n \in T
  <2> DEFINE x == e[n - 1]
             y == e[n]
  <2>1. n \in Nat /\ n - 1 \in 0 .. Len(lines) /\ n \in 0 .. Len(lines) /\ x <= y
    <3> HIDE DEF T
    <3> QED BY MeasureIs
  <2>2. x \in Nat /\ y \in Nat /\ (n - 1 >= m => c <= x) /\ (n = m => y = c)
    BY <1>1, <1>3, <2>1
  <2> HIDE DEF c, x, y
  <2>3. n >= m => c <= y
    BY <1>1, <2>1, <2>2
  <2> HIDE DEF T
  <2> QED BY <2>1, <2>3 DEF T, y
<1> HIDE DEF T
<1>4. \A n \in 0 .. Len(lines) : n \in T
  BY <1>1, <1>2, <1>3, UpTo
<1> QED BY <1>4 DEF T, c

\* Texts that begin alike measure alike as long as they do.
LEMMA MeasureAgrees ==
  ASSUME NEW e, NEW d, NEW lines, NEW others, NEW N \in Nat, IsMeasure(e, lines), IsMeasure(d, others),
         N <= Len(lines), N <= Len(others), \A i \in 1 .. N : lines[i] = others[i]
  PROVE  e[N] = d[N]
<1> DEFINE T == {n \in 0 .. N : e[n] = d[n]}
<1>1. Len(lines) \in Nat /\ Len(others) \in Nat /\ e[0] = 0 /\ d[0] = 0
  BY MeasureIs
<1>2. 0 \in T
  BY <1>1
<1>3. ASSUME NEW n \in 1 .. N, n - 1 \in T PROVE n \in T
  <2>1. n \in 1 .. Len(lines) /\ n \in 1 .. Len(others) /\ n \in 0 .. N
    BY <1>1
  <2>2. e[n - 1] = d[n - 1]
    BY <1>3
  <2> HIDE DEF T
  <2>3. e[n] = e[n - 1] + lines[n].size /\ d[n] = d[n - 1] + others[n].size
    <3>1. e[n] = e[n - 1] + lines[n].size
      BY <2>1, MeasureIs
    <3>2. d[n] = d[n - 1] + others[n].size
      BY <2>1, MeasureIs
    <3> QED BY <3>1, <3>2
  <2>4. lines[n] = others[n]
    OBVIOUS
  <2>5. e[n] = d[n]
    BY Zenon, <2>2, <2>3, <2>4
  <2> QED BY <2>1, <2>5 DEF T
<1>4. \A n \in 0 .. N : n \in T
  <2> HIDE DEF T
  <2> QED BY <1>2, <1>3, UpTo
<1> QED BY <1>4

\* The text that is left is what it was, or it fills its bound exactly.
LEMMA CapBytesIs ==
  ASSUME NEW lines \in Seq(TextLine)
  PROVE  LET out == CapBytes(lines)
         IN  /\ out \in Seq(TextLine) /\ Len(out) <= Len(lines) /\ Bytes(out) \in Nat /\ Bytes(out) <= BytesMax
             /\ out = lines \/ Bytes(out) = BytesMax
<1> DEFINE e == Ends(lines)
           N == Len(lines)
           K == {i \in 1 .. N : e[i - 1] < BytesMax}
           Piece(i) == IF e[i] > BytesMax THEN [lines[i] EXCEPT !.size = BytesMax - e[i - 1], !.is = "cut"] ELSE lines[i]
           out == CapBytes(lines)
<1>1. out = [i \in K |-> Piece(i)]
  BY DEF CapBytes
<1>2. IsMeasure(e, lines)
  BY EndsIs
<1> HIDE DEF e, out
<1>3. /\ N \in Nat /\ e[0] = 0 /\ BytesMax \in Nat
      /\ \A n \in 0 .. N : e[n] \in Nat
      /\ \A n \in 1 .. N :
           /\ n \in Nat /\ n - 1 \in 0 .. N /\ n \in 0 .. N
           /\ lines[n] \in TextLine /\ lines[n].size \in Nat /\ e[n] = e[n - 1] + lines[n].size /\ e[n - 1] <= e[n]
  BY <1>2, MeasureIs, SessionAssumption
<1>4. CASE e[N] < BytesMax
  <2>1. ASSUME NEW i \in 1 .. N PROVE i \in K /\ Piece(i) = lines[i]
    <3>0. N \in Nat /\ i \in 0 .. N /\ i - 1 \in 0 .. N /\ e[i - 1] <= e[i]
      BY Zenon, <1>3
    <3>a. N >= i /\ N \in 0 .. N
      BY <3>0
    <3>1. i \in 0 .. N /\ N >= i /\ N \in 0 .. N /\ e[i] \in Nat /\ e[i - 1] \in Nat /\ e[N] \in Nat /\ e[i - 1] <= e[i]
      BY Zenon, <1>3, <3>0, <3>a
    <3>2. e[i] <= e[N]
      BY <1>2, <3>1, MeasureGrows
    <3>3. e[i - 1] < BytesMax /\ ~(e[i] > BytesMax)
      BY <1>3, <1>4, <3>1, <3>2
    <3> QED BY <3>3
  <2>2. K = 1 .. N
    BY <2>1
  <2>3. out = [i \in 1 .. N |-> lines[i]]
    <3> HIDE DEF K, Piece
    <3> QED BY <1>1, <2>1, <2>2
  <2>4. out = lines
    BY <2>3
  <2>5. Bytes(out) = e[N]
    BY <2>4 DEF Bytes, e
  <2>6. N \in 0 .. N
    BY <1>3
  <2> QED BY <1>3, <1>4, <2>4, <2>5, <2>6 DEF out
<1>5. CASE ~(e[N] < BytesMax)
  <2> DEFINE Z == {n \in 0 .. N : e[n] >= BytesMax}
  <2>1. N \in Z /\ Z \in SUBSET Nat
    <3>1. N \in 0 .. N /\ e[N] \in Nat
      BY <1>3
    <3> QED BY <1>3, <1>5, <3>1
  <2>2. PICK m \in Z : \A z \in Z : m <= z
    <3> HIDE DEF Z
    <3> QED BY <2>1, LeastNumber
  <2>3. m \in 0 .. N /\ m \in Nat /\ e[m] \in Nat /\ e[m] >= BytesMax
    BY <1>3
  <2>4. \A i \in 1 .. N : i \in K <=> i <= m
    <3> TAKE i \in 1 .. N
    <3>1. i \in Nat /\ i - 1 \in 0 .. N /\ e[i - 1] \in Nat
      BY <1>3
    <3>2. CASE i <= m
      <4>1. ~(m <= i - 1)
        BY <2>3, <3>1, <3>2
      <4>2. i - 1 \notin Z
        <5> HIDE DEF Z
        <5> QED BY <2>2, <4>1
      <4>3. ~(e[i - 1] >= BytesMax)
        BY <3>1, <4>2
      <4>4. e[i - 1] < BytesMax
        BY <1>3, <3>1, <4>3
      <4> QED BY <3>2, <4>4
    <3>3. CASE ~(i <= m)
      <4>1. i - 1 >= m
        BY <2>3, <3>1, <3>3
      <4>2. e[m] <= e[i - 1]
        BY <1>2, <2>3, <3>1, <4>1, MeasureGrows
      <4>3. ~(e[i - 1] < BytesMax)
        BY <1>3, <2>3, <3>1, <4>2
      <4> QED BY <3>3, <4>3
    <3> QED BY <3>2, <3>3
  <2> HIDE DEF Z
  <2>5. K = 1 .. m
    <3>1. \A i \in 1 .. m : i \in 1 .. N /\ i <= m
      BY <1>3, <2>3
    <3>2. \A i \in K : i \in 1 .. N
      OBVIOUS
    <3>3. \A i \in 1 .. N : i <= m => i \in 1 .. m
      BY <1>3, <2>3
    <3> HIDE DEF K
    <3> QED BY <2>4, <3>1, <3>2, <3>3
  <2>6. ASSUME NEW i \in 1 .. m PROVE Piece(i) \in TextLine /\ (i < m => Piece(i) = lines[i]) /\ (i = m => Piece(i).size = BytesMax - e[i - 1])
    <3>1. i \in 1 .. N /\ i \in Nat /\ i <= m /\ i \in 0 .. N
      BY <1>3, <2>3
    <3>2. /\ lines[i] \in TextLine /\ lines[i].size \in Nat /\ e[i] = e[i - 1] + lines[i].size /\ e[i] \in Nat /\ e[i - 1] \in Nat
      BY <1>3, <3>1
    <3>3. e[i - 1] < BytesMax
      BY <2>4, <3>1
    <3>4. CASE i < m
      <4>1. i \notin Z
        BY <2>2, <2>3, <3>1, <3>4
      <4>2. ~(e[i] >= BytesMax)
        BY <3>1, <4>1 DEF Z
      <4>3. ~(e[i] > BytesMax)
        BY <1>3, <3>2, <4>2
      <4>4. Piece(i) = lines[i]
        BY <4>3
      <4> HIDE DEF Piece
      <4> QED BY <2>3, <3>1, <3>2, <3>4, <4>4
    <3>5. CASE i = m
      <4>1. CASE e[i] > BytesMax
        <5> DEFINE l == lines[i]
                   b == BytesMax - e[i - 1]
        <5>1. Piece(i) = [l EXCEPT !.size = b, !.is = "cut"]
          BY <4>1
        <5>2. b \in Nat /\ l \in TextLine
          BY <1>3, <3>2, <3>3
        <5> HIDE DEF l, b, Piece
        <5>3. [l EXCEPT !.size = b, !.is = "cut"] \in TextLine /\ [l EXCEPT !.size = b, !.is = "cut"].size = b
          BY <5>2 DEF TextLine
        <5> QED BY <2>3, <3>1, <3>5, <5>1, <5>3 DEF b
      <4>2. CASE ~(e[i] > BytesMax)
        <5>1. Piece(i) = lines[i]
          BY <4>2
        <5>2. lines[i].size = BytesMax - e[i - 1]
          <6>1. e[i] >= BytesMax
            BY <2>3, <3>5
          <6> QED BY <1>3, <3>2, <4>2, <6>1
        <5> HIDE DEF Piece
        <5> QED BY <2>3, <3>1, <3>2, <3>5, <5>1, <5>2
      <4> QED BY <4>1, <4>2
    <3> QED BY <2>3, <3>1, <3>4, <3>5
  <2> HIDE DEF Piece, K
  <2>7. out = [i \in 1 .. m |-> Piece(i)]
    BY <1>1, <2>5
  <2>8. out \in Seq(TextLine) /\ Len(out) = m /\ \A i \in 1 .. m : out[i] = Piece(i)
    <3>1. out \in [1 .. m -> TextLine]
      BY <2>6, <2>7
    <3> QED BY <2>3, <2>7, <3>1
  <2>9. Bytes(out) = BytesMax
    <3> DEFINE d == Ends(out)
    <3>1. IsMeasure(d, out) /\ Bytes(out) = d[Len(out)]
      BY <2>8, EndsIs DEF Bytes
    <3> HIDE DEF d
    <3>2. CASE m = 0
      <4>1. d[0] = 0
        BY <3>1, MeasureIs
      <4>2. BytesMax = 0
        BY <1>3, <2>3, <3>2
      <4> QED BY <2>8, <3>1, <3>2, <4>1, <4>2
    <3>3. CASE m # 0
      <4>1. m \in 1 .. m /\ m \in 1 .. N /\ m - 1 \in Nat /\ m - 1 <= Len(lines) /\ m - 1 <= Len(out)
        BY <1>3, <2>3, <2>8, <3>3
      <4>2. \A i \in 1 .. m - 1 : lines[i] = out[i]
        <5>1. \A i \in 1 .. m - 1 : i \in 1 .. m /\ i < m
          BY <2>3
        <5> QED BY <2>6, <2>8, <5>1
      <4>3. e[m - 1] = d[m - 1]
        BY <1>2, <3>1, <4>1, <4>2, MeasureAgrees
      <4>4. d[m] = d[m - 1] + out[m].size
        BY <2>8, <3>1, <4>1, MeasureIs
      <4>5. out[m].size = BytesMax - e[m - 1]
        BY <2>6, <2>8, <4>1
      <4>6. e[m - 1] \in Nat
        BY <1>3, <4>1
      <4>7. d[m] = BytesMax
        BY <1>3, <4>3, <4>4, <4>5, <4>6
      <4> QED BY <2>8, <3>1, <4>7
    <3> QED BY <3>2, <3>3
  <2>10. Len(out) <= N
    BY <1>3, <2>3, <2>8
  <2> QED BY <1>3, <2>8, <2>9, <2>10 DEF out
<1> QED BY <1>4, <1>5

(***************************************************************************)
(* Views: what is kept of a log, and of a log that goes on.                *)
(***************************************************************************)
\* Kept shows frames of the log at the indices asked for, and all of them.
LEMMA KeptIs ==
  ASSUME NEW S, NEW log \in Seq(S), NEW at
  PROVE  /\ Kept(log, at) \in Seq(S) /\ Len(Kept(log, at)) \in Nat
         /\ \A k \in 1 .. Len(Kept(log, at)) : \E i \in 1 .. Len(log) : i \in at /\ Kept(log, at)[k] = log[i]
         /\ \A i \in 1 .. Len(log) : i \in at => \E k \in 1 .. Len(Kept(log, at)) : Kept(log, at)[k] = log[i]
<1> DEFINE f == KeptTo(log, at)
           n == Len(log)
<1>1. IsKeeping(f, S, log, at)
  BY KeptToIs
<1>2. Kept(log, at) = f[n] /\ n \in Nat /\ n \in 0 .. Len(log)
  BY DEF Kept
<1> HIDE DEF f
<1>3. f[n] \in Seq(S) /\ Len(f[n]) \in Nat
  BY <1>1, <1>2, KeepingType
<1>4. /\ \A k \in 1 .. Len(f[n]) : \E i \in 1 .. n : i \in at /\ f[n][k] = log[i]
      /\ \A i \in 1 .. n : i \in at => \E k \in 1 .. Len(f[n]) : f[n][k] = log[i]
  BY <1>1, <1>2, KeepingHolds
<1> QED BY <1>2, <1>3, <1>4

\* A frame at one of the indices is shown.
LEMMA KeptShows ==
  ASSUME NEW S, NEW log \in Seq(S), NEW at, NEW i \in 1 .. Len(log), i \in at
  PROVE  \E k \in 1 .. Len(Kept(log, at)) : Kept(log, at)[k] = log[i]
BY KeptIs

\* What a prefix is, index by index.
LEMMA PrefixIs ==
  ASSUME NEW S, NEW s \in Seq(S), NEW t \in Seq(S)
  PROVE  IsPrefix(s, t) <=> (Len(s) <= Len(t) /\ \A i \in 1 .. Len(s) : s[i] = t[i])
<1>1. Len(s) \in Nat /\ Len(t) \in Nat
  OBVIOUS
<1>2. SubSeq(s, 1, Len(s)) = s
  OBVIOUS
<1>3. ASSUME Len(s) <= Len(t)
      PROVE  SubSeq(s, 1, Len(s)) = SubSeq(t, 1, Len(s)) <=> \A i \in 1 .. Len(s) : s[i] = t[i]
  <2> DEFINE n == Len(s)
             u == SubSeq(t, 1, n)
  <2>1. n \in Nat /\ \A i \in 1 .. n : i \in 1 .. Len(t)
    BY <1>1, <1>3
  <2>2. u \in Seq(S) /\ Len(u) = n /\ \A i \in 1 .. n : u[i] = t[i]
    <3>1. 1 \in 1 .. Len(t) + 1 /\ n \in 0 .. Len(t)
      BY <1>1, <1>3
    <3>2. \A i \in 1 .. n : t[i] \in S
      BY <2>1
    <3> QED BY <1>1, <1>3, <3>1, <3>2
  <2>3. s \in Seq(S) /\ Len(s) = n
    OBVIOUS
  <2> HIDE DEF u, n
  <2>4. ASSUME \A i \in 1 .. n : s[i] = t[i] PROVE s = u
    BY <2>1, <2>2, <2>3, <2>4, SeqEqual
  <2>5. ASSUME s = u PROVE \A i \in 1 .. n : s[i] = t[i]
    BY <2>2, <2>5
  <2> QED BY <1>2, <2>4, <2>5 DEF u, n
<1> QED BY <1>1, <1>3 DEF IsPrefix

\* A log that goes on shows what it showed, and then more.
LEMMA KeptGrows ==
  ASSUME NEW S, NEW log \in Seq(S), NEW more \in Seq(S), NEW at, NEW also, IsPrefix(log, more),
         \A i \in 1 .. Len(log) : i \in at <=> i \in also
  PROVE  IsPrefix(Kept(log, at), Kept(more, also))
<1> DEFINE f == KeptTo(log, at)
           g == KeptTo(more, also)
           N == Len(log)
           M == Len(more)
<1>1. IsKeeping(f, S, log, at) /\ IsKeeping(g, S, more, also)
  BY KeptToIs
<1>2. Kept(log, at) = f[N] /\ Kept(more, also) = g[M] /\ N \in Nat /\ M \in Nat
  BY DEF Kept
<1>3. N <= M /\ \A i \in 1 .. N : log[i] = more[i]
  BY PrefixIs
<1> HIDE DEF f, g
<1>4. f[N] = g[N]
  <2>1. N <= Len(log) /\ N <= Len(more) /\ \A i \in 1 .. N : log[i] = more[i] /\ (i \in at <=> i \in also)
    BY <1>2, <1>3
  <2>2. Alike(log, more, at, also, N)
    BY <1>2, <2>1 DEF Alike
  <2> HIDE DEF N, M
  <2> QED BY <1>1, <2>2, KeepingAgrees
<1>5. N \in 0 .. M /\ M \in 0 .. M /\ M >= N
  BY <1>2, <1>3
<1>6. Len(g[N]) <= Len(g[M]) /\ \A k \in 1 .. Len(g[N]) : g[M][k] = g[N][k]
  BY <1>1, <1>5, KeepingGrows
<1>7. g[N] \in Seq(S) /\ g[M] \in Seq(S)
  BY <1>1, <1>5, KeepingType
<1> DEFINE x == g[N]
           y == g[M]
<1>8. \A k \in 1 .. Len(x) : x[k] = y[k]
  BY <1>6
<1> HIDE DEF x, y
<1>9. IsPrefix(x, y)
  BY <1>6, <1>7, <1>8, PrefixIs DEF x, y
<1> QED BY <1>2, <1>4, <1>9 DEF x, y

LogFrame == [seq : Nat, task : Sessions, job : Nat, kind : STRING, visible : BOOLEAN, owner : Seq(Nat), size : Nat]

\* A view holds frames of its session alone.
LEMMA FramesAre ==
  ASSUME NEW log \in Seq(LogFrame), NEW session, NEW range
  PROVE  /\ Frames(log, session, range) \in Seq(LogFrame)
         /\ \A k \in 1 .. Len(Frames(log, session, range)) : Frames(log, session, range)[k].task = session
<1> DEFINE at == {i \in DOMAIN log : Selects(session, range, log[i])}
<1>1. \A i \in at : log[i].task = session
  BY DEF Selects
<1>2. Frames(log, session, range) = Kept(log, at)
  BY DEF Frames
<1> HIDE DEF at
<1>3. Kept(log, at) \in Seq(LogFrame)
  BY KeptIs
<1>4. ASSUME NEW k \in 1 .. Len(Kept(log, at)) PROVE Kept(log, at)[k].task = session
  <2>1. PICK i \in 1 .. Len(log) : i \in at /\ Kept(log, at)[k] = log[i]
    BY KeptIs
  <2> QED BY <1>1, <2>1
<1> QED BY <1>2, <1>3, <1>4

\* The view of a log that goes on begins with the view it had.
LEMMA FramesGrow ==
  ASSUME NEW log \in Seq(LogFrame), NEW more \in Seq(LogFrame), NEW session, NEW range, IsPrefix(log, more)
  PROVE  IsPrefix(Frames(log, session, range), Frames(more, session, range))
<1> DEFINE at == {i \in DOMAIN log : Selects(session, range, log[i])}
           also == {i \in DOMAIN more : Selects(session, range, more[i])}
<1>1. Len(log) \in Nat /\ Len(more) \in Nat /\ DOMAIN log = 1 .. Len(log) /\ DOMAIN more = 1 .. Len(more)
  OBVIOUS
<1>2. Len(log) <= Len(more) /\ \A i \in 1 .. Len(log) : log[i] = more[i]
  BY PrefixIs
<1>3. \A i \in 1 .. Len(log) : i \in 1 .. Len(more)
  BY <1>1, <1>2
<1>4. \A i \in 1 .. Len(log) : i \in at <=> i \in also
  BY Zenon, <1>1, <1>2, <1>3
<1>5. Frames(log, session, range) = Kept(log, at) /\ Frames(more, session, range) = Kept(more, also)
  BY DEF Frames
<1> HIDE DEF at, also
<1> QED BY <1>4, <1>5, KeptGrows

\* The turns of a view are frames of it that were marked for the model.
LEMMA TurnsAre ==
  ASSUME NEW frames \in Seq(LogFrame)
  PROVE  /\ TurnsOf(frames) \in Seq(LogFrame)
         /\ \A k \in 1 .. Len(TurnsOf(frames)) :
              TurnsOf(frames)[k].visible /\ \E i \in 1 .. Len(frames) : TurnsOf(frames)[k] = frames[i]
<1> DEFINE at == {i \in DOMAIN frames : frames[i].visible /\ FromEvent(frames[i].kind) # <<>>}
<1>1. \A i \in at : frames[i].visible
  OBVIOUS
<1>2. TurnsOf(frames) = Kept(frames, at)
  BY DEF TurnsOf
<1> HIDE DEF at
<1>3. Kept(frames, at) \in Seq(LogFrame)
  BY KeptIs
<1>4. ASSUME NEW k \in 1 .. Len(Kept(frames, at))
      PROVE  Kept(frames, at)[k].visible /\ \E i \in 1 .. Len(frames) : Kept(frames, at)[k] = frames[i]
  <2>1. PICK i \in 1 .. Len(frames) : i \in at /\ Kept(frames, at)[k] = frames[i]
    BY KeptIs
  <2>2. frames[i].visible
    BY <1>1, <2>1
  <2> QED BY Zenon, <2>1, <2>2
<1> QED BY Zenon, <1>2, <1>3, <1>4

HonestTurns(turns, session) == \A k \in 1 .. Len(turns) : turns[k].visible /\ turns[k].task = session
SnapshotRecord == [session : Sessions, at : Nat, head : Seq(LogFrame), turns : Seq(LogFrame)]

\* A snapshot holds only turns of its session that were marked for the model.
LEMMA DeriveIs ==
  ASSUME NEW log \in Seq(LogFrame), NEW session \in Sessions, NEW at, Derive(log, session, at) # <<>>,
         HashAt(Len(log)) \in Seq(LogFrame)
  PROVE  /\ Derive(log, session, at) \in Seq(SnapshotRecord) /\ Len(Derive(log, session, at)) = 1
         /\ Derive(log, session, at)[1].session = session
         /\ Derive(log, session, at)[1].head = HashAt(Len(log))
         /\ HonestTurns(Derive(log, session, at)[1].turns, session)
         /\ Derive(log, session, at)[1].turns \in Seq(LogFrame)
<1> DEFINE fs == Frames(log, session, at)
           ts == TurnsOf(fs)
           last == Last(fs).seq
           h == HashAt(Len(log))
           d == [session |-> session, at |-> last, head |-> h, turns |-> ts]
<1>1. fs # <<>> /\ Derive(log, session, at) = <<d>>
  BY DEF Derive
<1>2. fs \in Seq(LogFrame) /\ \A k \in 1 .. Len(fs) : fs[k].task = session
  BY FramesAre
<1> HIDE DEF fs
<1>3. last \in Nat
  <2>1. Len(fs) \in 1 .. Len(fs)
    BY <1>1, <1>2
  <2>2. fs[Len(fs)] \in LogFrame
    BY <1>2, <2>1
  <2>3. \A l \in LogFrame : l.seq \in Nat
    BY DEF LogFrame
  <2> QED BY <2>2, <2>3 DEF Last
<1>4. ts \in Seq(LogFrame) /\ \A k \in 1 .. Len(ts) : ts[k].visible /\ \E i \in 1 .. Len(fs) : ts[k] = fs[i]
  BY <1>2, TurnsAre
<1> HIDE DEF ts, last, h
<1>5. HonestTurns(ts, session)
  BY Zenon, <1>2, <1>4 DEF HonestTurns
<1>6. d \in SnapshotRecord /\ d.session = session /\ d.turns = ts /\ d.head = h
  <2>1. h \in Seq(LogFrame)
    BY DEF h
  <2> QED BY <1>3, <1>4, <2>1 DEF SnapshotRecord
<1> HIDE DEF d
<1> QED BY <1>1, <1>4, <1>5, <1>6 DEF h

\* A view with the end of a run in it says that the run has ended.
LEMMA EndedIsNotLive ==
  ASSUME NEW frames \in Seq(LogFrame), NEW k \in DOMAIN frames, frames[k].kind \in {"TaskKilled", "TaskFailed"}
  PROVE  LeaseOf(frames).state # "Live"
<1> DEFINE at == {i \in DOMAIN frames : frames[i].kind \in {"TaskKilled", "TaskFailed"}}
           ends == Kept(frames, at)
<1>1. k \in at /\ k \in 1 .. Len(frames) /\ \A i \in at : frames[i].kind \in {"TaskKilled", "TaskFailed"}
  OBVIOUS
<1>2. LeaseOf(frames).state = IF ends = <<>> THEN "Live" ELSE ends[1].kind
  BY DEF LeaseOf
<1> HIDE DEF at
<1>3. PICK j \in 1 .. Len(ends) : ends[j] = frames[k]
  BY <1>1, KeptShows
<1>4. ends \in Seq(LogFrame) /\ Len(ends) \in Nat
  BY KeptIs
<1>5. 1 \in 1 .. Len(ends) /\ ends # <<>>
  BY <1>3, <1>4
<1>6. PICK i \in 1 .. Len(frames) : i \in at /\ ends[1] = frames[i]
  BY <1>5, KeptIs
<1>7. ends[1].kind \in {"TaskKilled", "TaskFailed"}
  BY <1>1, <1>6
<1> HIDE DEF ends
<1> QED BY <1>2, <1>5, <1>7

(***************************************************************************)
(* Compaction.                                                             *)
(***************************************************************************)
Capped(lines) == \E k \in 1 .. Len(lines) : lines[k].is = "capped"

\* Notes and turns are lines.
LEMMA LinesAre ==
  /\ \A t \in LogFrame : RenderTurn(t) \in TextLine /\ RenderTurn(t).of = t.seq
  /\ \A is \in {"turn", "capped", "dropped", "summary", "cut"} : Note(is) \in TextLine /\ Note(is).is = is
<1>1. ASSUME NEW t \in LogFrame PROVE RenderTurn(t) \in TextLine /\ RenderTurn(t).of = t.seq
  <2> DEFINE z == IF t.size > TurnMax THEN TurnMax ELSE t.size
             q == t.seq
  <2>1. z \in Nat /\ q \in Nat
    BY SessionAssumption DEF LogFrame
  <2>2. RenderTurn(t) = [is |-> "turn", of |-> q, size |-> z]
    BY DEF RenderTurn
  <2> HIDE DEF z, q
  <2>3. RenderTurn(t) \in TextLine /\ RenderTurn(t).of = q
    BY <2>1, <2>2 DEF TextLine
  <2> QED BY <2>3 DEF q
<1>2. ASSUME NEW is \in {"turn", "capped", "dropped", "summary", "cut"} PROVE Note(is) \in TextLine /\ Note(is).is = is
  BY DEF Note, TextLine
<1> QED BY <1>1, <1>2

\* Too many lines are cut to the bound, and the last one says so.
LEMMA CapLinesIs ==
  ASSUME NEW lines \in Seq(TextLine)
  PROVE  /\ CapLines(lines) \in Seq(TextLine) /\ Len(CapLines(lines)) <= TurnsMax
         /\ CapLines(lines) = lines \/ Capped(CapLines(lines))
<1>1. Len(lines) \in Nat /\ TurnsMax \in Nat /\ TurnsMax # 0
  BY SessionAssumption
<1>2. CASE Len(lines) <= TurnsMax
  BY <1>2 DEF CapLines
<1>3. CASE ~(Len(lines) <= TurnsMax)
  <2> DEFINE n == TurnsMax - 1
             s == SubSeq(lines, 1, n)
             note == Note("capped")
             out == Append(s, note)
  <2>1. n \in Nat /\ n <= Len(lines) /\ n + 1 = TurnsMax
    BY <1>1, <1>3
  <2>2. s \in Seq(TextLine) /\ Len(s) = n
    <3>1. \A i \in 1 .. n : lines[i] \in TextLine
      BY <2>1
    <3> QED BY <1>1, <2>1, <3>1
  <2>3. note \in TextLine /\ note.is = "capped"
    BY LinesAre
  <2>4. CapLines(lines) = out
    BY <1>3 DEF CapLines
  <2> HIDE DEF n, s, note
  <2>5. out \in Seq(TextLine) /\ Len(out) = Len(s) + 1 /\ out[Len(s) + 1] = note
    BY <2>2, <2>3, AppendProperties
  <2> HIDE DEF out
  <2>6. Len(out) = TurnsMax /\ TurnsMax \in 1 .. Len(out) /\ out[TurnsMax].is = "capped"
    BY <1>1, <2>1, <2>2, <2>3, <2>5
  <2>7. Capped(out)
    BY <2>6 DEF Capped
  <2> QED BY <1>1, <2>4, <2>5, <2>6, <2>7
<1> QED BY <1>2, <1>3

\* A function on the first m numbers is a sequence of length m.
LEMMA TupleIs ==
  ASSUME NEW S, NEW m \in Nat, NEW s \in [1 .. m -> S]
  PROVE  s \in Seq(S) /\ Len(s) = m
OBVIOUS

\* Two sequences, one after the other.
LEMMA JoinIs ==
  ASSUME NEW S, NEW a \in Seq(S), NEW b \in Seq(S)
  PROVE  a \o b \in Seq(S) /\ Len(a \o b) = Len(a) + Len(b) /\ \A i \in 1 .. Len(b) : (a \o b)[Len(a) + i] = b[i]
<1>1. /\ Len(a \o b) = Len(a) + Len(b) /\ Len(a) \in Nat /\ Len(b) \in Nat /\ a \o b \in Seq(S)
      /\ \A i \in 1 .. Len(a) + Len(b) : (a \o b)[i] = IF i <= Len(a) THEN a[i] ELSE b[i - Len(a)]
  BY ConcatProperties
<1>2. ASSUME NEW i \in 1 .. Len(b) PROVE (a \o b)[Len(a) + i] = b[i]
  <2>1. Len(a) + i \in 1 .. Len(a) + Len(b) /\ ~(Len(a) + i <= Len(a)) /\ (Len(a) + i) - Len(a) = i
    BY <1>1
  <2> QED BY <1>1, <2>1
<1> QED BY <1>1, <1>2

(* What a policy keeps of the turns, and what is shown of them. *)
KeptTurns(policy) == IF policy.n > TurnsMax THEN TurnsMax ELSE policy.n
Shows(lines, turns, n) ==
  \A k \in 1 .. Len(turns) : k > Len(turns) - n => \E j \in 1 .. Len(lines) : lines[j].of = turns[k].seq

IsRendered(kept, turns, from) == kept = [i \in 1 .. (Len(turns) - from) |-> RenderTurn(turns[from + i])]

\* The lines before they are capped show every turn the policy keeps.
LEMMA RenderedShows ==
  ASSUME NEW turns \in Seq(LogFrame), NEW n \in Nat, NEW from, NEW kept,
         from = (IF Len(turns) > n THEN Len(turns) - n ELSE 0),
         IsRendered(kept, turns, from)
  PROVE  /\ from \in Nat /\ kept \in Seq(TextLine) /\ Shows(kept, turns, n)
         /\ Shows(<<Note("summary")>> \o kept, turns, n) /\ <<Note("summary")>> \o kept \in Seq(TextLine)
<1> DEFINE N == Len(turns)
           m == N - from
<1>1. N \in Nat
  OBVIOUS
<1> HIDE DEF N
<1>2. from \in Nat /\ m \in Nat /\ from <= N /\ from = IF N > n THEN N - n ELSE 0
  BY <1>1 DEF N
<1>3. \A i \in 1 .. m : from + i \in 1 .. N
  BY <1>1, <1>2
<1>4. kept = [i \in 1 .. m |-> RenderTurn(turns[from + i])]
  BY DEF N, IsRendered
<1>5. \A k \in 1 .. N : turns[k] \in LogFrame
  BY DEF N
<1>6. \A i \in 1 .. m : kept[i] \in TextLine /\ kept[i].of = turns[from + i].seq
  <2> TAKE i \in 1 .. m
  <2>1. kept[i] = RenderTurn(turns[from + i]) /\ turns[from + i] \in LogFrame
    BY <1>3, <1>4, <1>5
  <2> QED BY Zenon, <2>1, LinesAre
<1>7. kept \in Seq(TextLine) /\ Len(kept) = m
  <2>1. kept \in [1 .. m -> TextLine]
    BY <1>4, <1>6
  <2> QED BY Zenon, <1>2, <2>1, TupleIs
<1>8. \A k \in 1 .. N : k > N - n => k - from \in 1 .. m /\ from + (k - from) = k
  BY <1>1, <1>2
<1> HIDE DEF m
<1>9. \A k \in 1 .. N : k > N - n => kept[k - from].of = turns[k].seq
  BY Zenon, <1>6, <1>8
<1>10. Shows(kept, turns, n)
  BY Zenon, <1>7, <1>8, <1>9 DEF Shows, N
<1> DEFINE a == <<Note("summary")>>
           all == a \o kept
<1>11. a \in Seq(TextLine) /\ Len(a) = 1
  BY LinesAre
<1> HIDE DEF a
<1>12. all \in Seq(TextLine) /\ Len(all) = 1 + m /\ \A i \in 1 .. m : all[1 + i] = kept[i]
  <2>1. /\ Len(all) = Len(a) + Len(kept)
        /\ \A i \in 1 .. Len(kept) : all[Len(a) + i] = kept[i]
        /\ all \in Seq(TextLine)
    BY <1>7, <1>11, JoinIs
  <2> HIDE DEF all
  <2> QED BY <1>7, <1>11, <2>1
<1> HIDE DEF all
<1>13. \A i \in 1 .. m : 1 + i \in 1 .. 1 + m
  BY <1>2 DEF m
<1>14. \A k \in 1 .. N : k > N - n => 1 + (k - from) \in 1 .. 1 + m /\ all[1 + (k - from)].of = turns[k].seq
  BY Zenon, <1>8, <1>9, <1>12, <1>13
<1>15. Shows(all, turns, n)
  BY Zenon, <1>12, <1>14 DEF Shows, N
<1> QED BY <1>2, <1>7, <1>10, <1>12, <1>15 DEF a, all

\* A history is within its bounds, and shows what its policy keeps or says
\* that it does not.
LEMMA CompactIs ==
  ASSUME NEW turns \in Seq(LogFrame), NEW policy \in Policies
  PROVE  /\ Compact(turns, policy) \in Seq(TextLine)
         /\ Len(Compact(turns, policy)) <= TurnsMax /\ Bytes(Compact(turns, policy)) <= BytesMax
         /\ \/ Shows(Compact(turns, policy), turns, KeptTurns(policy))
            \/ Bytes(Compact(turns, policy)) = BytesMax
            \/ Capped(Compact(turns, policy))
<1> DEFINE n == KeptTurns(policy)
           from == IF Len(turns) > n THEN Len(turns) - n ELSE 0
           kept == [i \in 1 .. (Len(turns) - from) |-> RenderTurn(turns[from + i])]
           lines == CASE policy.mode = "drop" -> IF turns = <<>> THEN <<>> ELSE <<Note("dropped")>>
                      [] policy.mode = "summarize" /\ from > 0 -> <<Note("summary")>> \o kept
                      [] OTHER -> kept
           capped == CapLines(lines)
           out == CapBytes(capped)
<1>1. policy.mode \in {"drop", "keep", "summarize"} /\ policy.n \in Nat /\ (policy.mode = "drop" => policy.n = 0)
  BY SessionAssumption
<1>2. n \in Nat /\ (policy.mode = "drop" => n = 0) /\ TurnsMax \in Nat
  BY <1>1, SessionAssumption DEF KeptTurns
<1>3. Compact(turns, policy) = out
  BY DEF Compact, KeptTurns
<1> HIDE DEF n
<1>4. /\ from \in Nat /\ kept \in Seq(TextLine) /\ Shows(kept, turns, n)
      /\ Shows(<<Note("summary")>> \o kept, turns, n) /\ <<Note("summary")>> \o kept \in Seq(TextLine)
  <2>1. IsRendered(kept, turns, from)
    BY DEF IsRendered
  <2> HIDE DEF kept
  <2> QED BY <1>2, <2>1, RenderedShows
<1> HIDE DEF from, kept
<1>5. lines \in Seq(TextLine) /\ Shows(lines, turns, n)
  <2>1. CASE policy.mode = "drop"
    <3>1. lines = IF turns = <<>> THEN <<>> ELSE <<Note("dropped")>>
      BY <2>1
    <3>2. Note("dropped") \in TextLine
      BY LinesAre
    <3>3. lines \in Seq(TextLine)
      <4> DEFINE d == Note("dropped")
      <4> HIDE DEF d, lines
      <4>1. <<d>> \in Seq(TextLine)
        BY <3>2 DEF d
      <4> QED BY <3>1, <4>1 DEF d
    <3>4. \A k \in 1 .. Len(turns) : ~(k > Len(turns) - n)
      BY <1>2, <2>1
    <3> QED BY <3>3, <3>4 DEF Shows
  <2>2. CASE policy.mode # "drop" /\ policy.mode = "summarize" /\ from > 0
    <3>1. lines = <<Note("summary")>> \o kept
      BY <2>2
    <3> HIDE DEF lines
    <3> QED BY Zenon, <1>4, <3>1
  <2>3. CASE policy.mode # "drop" /\ ~(policy.mode = "summarize" /\ from > 0)
    <3>1. lines = kept
      BY <2>3
    <3> HIDE DEF lines
    <3> QED BY Zenon, <1>4, <3>1
  <2> QED BY <2>1, <2>2, <2>3
<1> HIDE DEF lines
<1>6. /\ capped \in Seq(TextLine) /\ Len(capped) <= TurnsMax /\ Len(capped) \in Nat
      /\ capped = lines \/ Capped(capped)
  BY <1>5, CapLinesIs
<1> HIDE DEF capped
<1>7. /\ out \in Seq(TextLine) /\ Len(out) <= Len(capped) /\ Bytes(out) \in Nat /\ Bytes(out) <= BytesMax
      /\ out = capped \/ Bytes(out) = BytesMax
  BY <1>6, CapBytesIs
<1> HIDE DEF out
<1>8. Len(out) <= TurnsMax
  <2>1. Len(out) \in Nat
    BY <1>7
  <2> QED BY <1>2, <1>6, <1>7, <2>1
<1> QED BY <1>3, <1>5, <1>6, <1>7, <1>8 DEF n

(***************************************************************************)
(* The invariant of the sessions, its parts by what they are about.        *)
(***************************************************************************)
TrueView(r, log, remade) ==
  LET then == Frames(r.anchor[1], r.session, MaxFrames)
  IN  /\ ~remade => IsPrefix(r.frames, Frames(log, r.session, MaxFrames))
      /\ r.anchor # <<>> =>
           /\ IsPrefix(r.anchor[1], log) /\ r.frames = then
           /\ (\E k \in DOMAIN then : then[k].kind \in {"TaskKilled", "TaskFailed"}) => r.lease.state # "Live"
HonestSnapshot(s) == \A k \in DOMAIN s.turns : s.turns[k].visible /\ s.turns[k].task = s.session
HonestLines(turns, policy, lines) ==
  LET shown == {lines[k].of : k \in DOMAIN lines}
      promised == {k \in DOMAIN turns : k > Len(turns) - KeptTurns(policy)}
      bytes == Bytes(lines)
  IN  /\ Len(lines) <= TurnsMax /\ bytes <= BytesMax
      /\ \A k \in DOMAIN turns : turns[k].visible
      /\ \/ {turns[k].seq : k \in promised} \subseteq shown
         \/ bytes = BytesMax \/ \E k \in DOMAIN lines : lines[k].is = "capped"
HonestHistory(c) == HonestLines(c.turns, c.policy, c.lines)

LogsAreLogs == onDisk \in Seq(LogFrame) /\ appended \in Seq(LogFrame)
(* The hashes are those of the frames before them: as the daemon wrote the *)
(* frames, or as they stand in the log, where a hand made the hashes.      *)
Chained(hs, n, b) ==
  /\ hs \in Seq(Seq(LogFrame)) /\ Len(hs) = n /\ n <= Len(b)
  /\ \A i \in 1 .. n : Len(hs[i]) = i /\ \A k \in 1 .. i : hs[i][k] = b[k]
Hashed == IF rewritten THEN onDisk ELSE appended
HashesAreChained == rewritten \in BOOLEAN /\ Chained(hashes, Len(onDisk), Hashed)
SavedIsHonest == saved \in Seq(SnapshotRecord) /\ \A i \in DOMAIN saved : HonestSnapshot(saved[i])
HeadsAreWritten == \A i \in DOMAIN saved : IsPrefix(saved[i].head, appended)
ViewsAreTrue == \A i \in DOMAIN resumed : TrueView(resumed[i], appended, rewritten)
HistoriesAreHonest == \A i \in DOMAIN compacted : HonestHistory(compacted[i])
SessionInv ==
  LogsAreLogs /\ HashesAreChained /\ SavedIsHonest /\ HeadsAreWritten /\ ViewsAreTrue /\ HistoriesAreHonest

\* The invariant gives the property.
LEMMA SessionInvIsFaithful == SessionInv => SessionsAreFaithful
<1> SUFFICES ASSUME SessionInv PROVE SessionsAreFaithful
  OBVIOUS
<1>1. ResumedViewsAreTrue
  BY DEF SessionInv, ViewsAreTrue, TrueView, ResumedViewsAreTrue
<1>2. ProjectionsAreHonest
  BY DEF SessionInv, SavedIsHonest, HonestSnapshot, HistoriesAreHonest, HonestHistory, HonestLines, KeptTurns, ProjectionsAreHonest
<1> QED BY <1>1, <1>2 DEF SessionsAreFaithful

\* A history that was compacted from honest turns is honest.
LEMMA CompactedIsHonest ==
  ASSUME NEW turns \in Seq(LogFrame), NEW policy \in Policies, \A k \in 1 .. Len(turns) : turns[k].visible
  PROVE  HonestHistory([turns |-> turns, policy |-> policy, lines |-> Compact(turns, policy)])
<1> DEFINE out == Compact(turns, policy)
           n == KeptTurns(policy)
           shown == {out[k].of : k \in DOMAIN out}
           promised == {k \in DOMAIN turns : k > Len(turns) - n}
<1>1. /\ out \in Seq(TextLine) /\ Len(out) <= TurnsMax /\ Bytes(out) <= BytesMax
      /\ Shows(out, turns, n) \/ Bytes(out) = BytesMax \/ Capped(out)
  BY CompactIs
<1>2. DOMAIN turns = 1 .. Len(turns)
  OBVIOUS
<1> HIDE DEF out
<1>3. DOMAIN out = 1 .. Len(out)
  BY <1>1
<1>4. Shows(out, turns, n) => {turns[k].seq : k \in promised} \subseteq shown
  <2> SUFFICES ASSUME Shows(out, turns, n), NEW k \in promised PROVE turns[k].seq \in shown
    OBVIOUS
  <2>1. k \in 1 .. Len(turns) /\ k > Len(turns) - n
    BY <1>2
  <2>2. PICK j \in 1 .. Len(out) : out[j].of = turns[k].seq
    BY <2>1 DEF Shows
  <2> QED BY <1>3, <2>2
<1>5. Capped(out) => \E k \in DOMAIN out : out[k].is = "capped"
  BY <1>3 DEF Capped
<1>6. HonestLines(turns, policy, out)
  <2>1. \A k \in DOMAIN turns : turns[k].visible
    BY <1>2
  <2>2. {turns[k].seq : k \in promised} \subseteq shown \/ Bytes(out) = BytesMax \/ \E k \in DOMAIN out : out[k].is = "capped"
    <3> HIDE DEF promised, shown
    <3> QED BY <1>1, <1>4, <1>5
  <2>3. /\ Len(out) <= TurnsMax /\ Bytes(out) <= BytesMax
    BY <1>1
  <2> QED BY <2>1, <2>2, <2>3 DEF HonestLines
<1> QED BY <1>6 DEF HonestHistory, out

\* A hash of the log as long as it is: the frames it covers.
LEMMA HashIs ==
  ASSUME SessionInv, NEW i \in 0 .. Len(onDisk)
  PROVE  /\ HashAt(i) \in Seq(LogFrame) /\ Len(HashAt(i)) = i
         /\ \A k \in 1 .. i : HashAt(i)[k] = Hashed[k]
<1>1. /\ hashes \in Seq(Seq(LogFrame)) /\ Len(hashes) = Len(onDisk)
      /\ \A j \in 1 .. Len(onDisk) : Len(hashes[j]) = j /\ \A k \in 1 .. j : hashes[j][k] = Hashed[k]
  BY DEF SessionInv, HashesAreChained, Chained
<1>2. onDisk \in Seq(LogFrame)
  BY DEF SessionInv, LogsAreLogs
<1>3. CASE i = 0
  <2> DEFINE e == HashAt(i)
  <2>1. e = <<>>
    BY <1>3 DEF HashAt
  <2> HIDE DEF e
  <2>2. e \in Seq(LogFrame) /\ Len(e) = 0 /\ 1 .. 0 = {}
    BY <2>1
  <2> QED BY <1>3, <2>2 DEF e
<1>4. CASE i # 0
  <2>1. i \in 1 .. Len(onDisk) /\ HashAt(i) = hashes[i]
    BY <1>2, <1>4 DEF HashAt
  <2>2. hashes[i] \in Seq(LogFrame)
    BY <1>1, <2>1
  <2> QED BY <1>1, <2>1, <2>2
<1> QED BY <1>3, <1>4

\* A log that is found whole holds the frames its hashes were made of.
LEMMA IntactIs ==
  ASSUME SessionInv, Intact
  PROVE  \A i \in 1 .. Len(onDisk) : onDisk[i] = Hashed[i]
<1> TAKE i \in 1 .. Len(onDisk)
<1>1. onDisk \in Seq(LogFrame) /\ DOMAIN onDisk = 1 .. Len(onDisk) /\ Len(onDisk) \in Nat
  BY DEF SessionInv, LogsAreLogs
<1>2. i \in 0 .. Len(onDisk) /\ i - 1 \in 0 .. Len(onDisk) /\ i # 0 /\ i \in 1 .. i
  BY <1>1
<1> DEFINE before == HashAt(i - 1)
           e == onDisk[i]
<1>3. HashAt(i) = Append(before, e) /\ e \in LogFrame
  <2>1. hashes[i] = Append(HashAt(i - 1), onDisk[i])
    BY Zenon, <1>1 DEF Intact
  <2>2. HashAt(i) = hashes[i]
    BY <1>2 DEF HashAt
  <2>3. e \in LogFrame
    BY <1>1
  <2> QED BY <2>1, <2>2, <2>3
<1>4. before \in Seq(LogFrame) /\ Len(before) = i - 1
  BY <1>2, HashIs
<1>5. HashAt(i)[i] = Hashed[i]
  BY <1>2, HashIs
<1> HIDE DEF before, e
<1>6. Append(before, e)[i] = e
  BY <1>2, <1>3, <1>4
<1> QED BY <1>3, <1>5, <1>6 DEF e

\* A log whose hashes a hand did not make is then what the daemon wrote so far.
LEMMA IntactIsWritten ==
  ASSUME SessionInv, Intact, ~rewritten
  PROVE  IsPrefix(onDisk, appended)
<1>1. onDisk \in Seq(LogFrame) /\ appended \in Seq(LogFrame)
  BY DEF SessionInv, LogsAreLogs
<1>2. Hashed = appended
  BY DEF Hashed
<1>3. Len(onDisk) <= Len(appended)
  BY <1>2 DEF SessionInv, HashesAreChained, Chained
<1>4. \A i \in 1 .. Len(onDisk) : onDisk[i] = appended[i]
  BY <1>2, IntactIs
<1> QED BY <1>1, <1>3, <1>4, PrefixIs

\* And one that reaches a head is the log the head was taken of.
LEMMA IntactToIs ==
  ASSUME SessionInv, NEW head, IntactTo(head)
  PROVE  onDisk = head
<1>1. Intact /\ HashAt(Len(onDisk)) = head
  BY DEF IntactTo
<1>2. onDisk \in Seq(LogFrame) /\ Len(onDisk) \in 0 .. Len(onDisk)
  BY DEF SessionInv, LogsAreLogs
<1>3. /\ head \in Seq(LogFrame) /\ Len(head) = Len(onDisk)
      /\ \A k \in 1 .. Len(onDisk) : head[k] = Hashed[k]
  BY <1>1, <1>2, HashIs
<1>4. \A k \in 1 .. Len(onDisk) : onDisk[k] = Hashed[k]
  BY <1>1, IntactIs
<1> QED BY <1>2, <1>3, <1>4, SeqEqual

\* Where the log is as the daemon wrote it, the last hash is that of what it wrote.
LEMMA WrittenHash ==
  ASSUME SessionInv, onDisk = appended
  PROVE  HashAt(Len(onDisk)) = appended /\ Hashed = appended
<1>1. Hashed = appended
  BY DEF Hashed
<1>2. onDisk \in Seq(LogFrame) /\ Len(onDisk) \in 0 .. Len(onDisk)
  BY DEF SessionInv, LogsAreLogs
<1> DEFINE h == HashAt(Len(onDisk))
<1>3. h \in Seq(LogFrame) /\ Len(h) = Len(onDisk) /\ \A k \in 1 .. Len(onDisk) : h[k] = onDisk[k]
  BY <1>1, <1>2, HashIs
<1> HIDE DEF h
<1>4. h = onDisk
  BY <1>2, <1>3, SeqEqual
<1> QED BY <1>1, <1>4 DEF h

\* A frame is written at the end of the log.
LEMMA AppendFrameKeeps == SessionInv /\ AppendFrame => SessionInv'
<1> SUFFICES ASSUME SessionInv, AppendFrame PROVE SessionInv'
  OBVIOUS
<1>1. PICK f \in Appended :
        appended' = Append(appended, [seq |-> Len(appended) + 1, task |-> f.task, job |-> f.job, kind |-> f.kind,
                                      visible |-> f.visible, owner |-> f.owner, size |-> f.size])
  BY DEF AppendFrame
<1>2. /\ onDisk' = appended' /\ resumed' = <<>> /\ compacted' = <<>> /\ saved' = saved /\ rewritten' = rewritten
      /\ onDisk = appended
  BY DEF AppendFrame
<1> DEFINE g == [seq |-> Len(appended) + 1, task |-> f.task, job |-> f.job, kind |-> f.kind,
                 visible |-> f.visible, owner |-> f.owner, size |-> f.size]
<1>3. g \in LogFrame
  <2>1. f \in [task : Sessions, job : Nat, kind : STRING, visible : BOOLEAN, owner : Seq(Nat), size : Nat]
    BY SessionAssumption
  <2>2. Len(appended) + 1 \in Nat
    BY DEF SessionInv, LogsAreLogs
  <2> QED BY <2>1, <2>2 DEF LogFrame
<1> HIDE DEF g
<1>4. Append(appended, g) \in Seq(LogFrame)
  BY <1>3 DEF SessionInv, LogsAreLogs
<1>5. LogsAreLogs'
  BY <1>1, <1>2, <1>4 DEF LogsAreLogs, g
<1>6. SavedIsHonest'
  BY <1>2 DEF SessionInv, SavedIsHonest
<1>7. ViewsAreTrue' /\ HistoriesAreHonest'
  BY <1>2 DEF ViewsAreTrue, HistoriesAreHonest
<1> DEFINE log == appended
           more == Append(log, g)
<1>8. log \in Seq(LogFrame) /\ appended' = more /\ onDisk' = more
  BY <1>1, <1>2 DEF SessionInv, LogsAreLogs, g
<1>9. HashAt(Len(onDisk)) = log /\ Hashed = log
  BY <1>2, WrittenHash
<1>10. hashes' = Append(hashes, more)
  <2>1. hashes' = Append(hashes, Append(HashAt(Len(onDisk)), Last(appended')))
    BY DEF AppendFrame
  <2>2. Last(appended') = g
    <3> HIDE DEF log
    <3> QED BY <1>3, <1>8 DEF Last
  <2> QED BY <1>9, <2>1, <2>2
<1>11. Chained(hashes, Len(log), log) /\ rewritten \in BOOLEAN
  BY <1>2, <1>9 DEF SessionInv, HashesAreChained
<1> HIDE DEF log
<1>12. /\ more \in Seq(LogFrame) /\ Len(more) = Len(log) + 1 /\ Len(log) \in Nat
       /\ \A k \in 1 .. Len(log) : more[k] = log[k]
  BY <1>3, <1>8
<1> HIDE DEF more
<1>13. Chained(hashes', Len(more), more)
  <2> DEFINE n == Len(log)
  <2>1. n \in Nat /\ hashes \in Seq(Seq(LogFrame)) /\ Len(hashes) = n
    BY <1>11, <1>12 DEF Chained
  <2>2. \A i \in 1 .. n : Len(hashes[i]) = i /\ \A k \in 1 .. i : hashes[i][k] = log[k]
    BY <1>11 DEF Chained
  <2>3. Len(more) = n + 1 /\ \A k \in 1 .. n : more[k] = log[k]
    BY <1>12
  <2> HIDE DEF n
  <2>4. /\ hashes' \in Seq(Seq(LogFrame)) /\ Len(hashes') = n + 1 /\ hashes'[n + 1] = more
        /\ \A i \in 1 .. n : hashes'[i] = hashes[i]
    <3>1. more \in Seq(LogFrame) /\ hashes' = Append(hashes, more)
      BY <1>10, <1>12
    <3> DEFINE S == Seq(LogFrame)
    <3>2. hashes \in Seq(S) /\ more \in S
      BY <2>1, <3>1
    <3> HIDE DEF S
    <3>3. /\ Append(hashes, more) \in Seq(S) /\ Len(Append(hashes, more)) = n + 1 /\ Append(hashes, more)[n + 1] = more
          /\ \A i \in 1 .. n : Append(hashes, more)[i] = hashes[i]
      BY <2>1, <3>2
    <3> QED BY <3>1, <3>3 DEF S
  <2>5. \A i \in 1 .. n : \A k \in 1 .. i : k \in 1 .. n
    BY <2>1
  <2>6. \A i \in 1 .. n : Len(hashes'[i]) = i /\ \A k \in 1 .. i : hashes'[i][k] = more[k]
    BY <2>2, <2>3, <2>4, <2>5
  <2>7. \A i \in 1 .. n + 1 : i \in 1 .. n \/ i = n + 1
    BY <2>1
  <2>8. \A i \in 1 .. n + 1 : Len(hashes'[i]) = i /\ \A k \in 1 .. i : hashes'[i][k] = more[k]
    BY Zenon, <2>3, <2>4, <2>6, <2>7
  <2>9. n + 1 <= Len(more)
    BY <2>1, <2>3
  <2> QED BY <2>3, <2>4, <2>8, <2>9 DEF Chained
<1>14. HashesAreChained'
  <2>1. Hashed' = more
    BY <1>8 DEF Hashed
  <2> QED BY <1>2, <1>8, <1>11, <1>13, <2>1 DEF HashesAreChained
<1>15. HeadsAreWritten'
  <2> SUFFICES ASSUME NEW i \in DOMAIN saved PROVE IsPrefix(saved[i].head, more)
    BY <1>2, <1>8 DEF HeadsAreWritten
  <2> DEFINE h == saved[i].head
  <2>1. IsPrefix(h, log)
    BY DEF SessionInv, HeadsAreWritten, log
  <2>2. h \in Seq(LogFrame)
    <3>1. saved[i] \in SnapshotRecord
      BY DEF SessionInv, SavedIsHonest
    <3> QED BY <3>1 DEF SnapshotRecord
  <2> HIDE DEF h
  <2>3. Len(h) <= Len(log) /\ \A k \in 1 .. Len(h) : h[k] = log[k]
    BY <1>8, <2>1, <2>2, PrefixIs
  <2>4. Len(h) \in Nat
    BY <2>2
  <2>5. Len(h) <= Len(more) /\ \A k \in 1 .. Len(h) : k \in 1 .. Len(log)
    BY <1>12, <2>3, <2>4
  <2>6. \A k \in 1 .. Len(h) : h[k] = more[k]
    BY <1>12, <2>3, <2>5
  <2>7. IsPrefix(h, more)
    BY <1>12, <2>2, <2>5, <2>6, PrefixIs
  <2> QED BY <2>7 DEF h
<1> QED BY <1>5, <1>6, <1>7, <1>14, <1>15 DEF SessionInv

\* A snapshot is derived from the log.
LEMMA TakeSnapshotKeeps == SessionInv /\ TakeSnapshot => SessionInv'
<1> SUFFICES ASSUME SessionInv, TakeSnapshot PROVE SessionInv'
  OBVIOUS
<1>1. UNCHANGED <<onDisk, hashes, appended, rewritten, resumed, compacted>> /\ onDisk = appended
  BY DEF TakeSnapshot
<1>2. PICK s \in Sessions, at \in 1 .. MaxFrames : Derive(onDisk, s, at) # <<>> /\ saved' = Derive(onDisk, s, at)
  BY DEF TakeSnapshot
<1> DEFINE d == Derive(onDisk, s, at)
<1>3. onDisk \in Seq(LogFrame)
  BY DEF SessionInv, LogsAreLogs
<1>10. HashAt(Len(onDisk)) = appended /\ HashAt(Len(onDisk)) \in Seq(LogFrame)
  BY <1>1, <1>3, WrittenHash
<1>4. /\ d \in Seq(SnapshotRecord) /\ Len(d) = 1 /\ d[1].session = s /\ d[1].head = appended
      /\ HonestTurns(d[1].turns, s) /\ d[1].turns \in Seq(LogFrame)
  BY <1>2, <1>3, <1>10, DeriveIs
<1> HIDE DEF d
<1>5. DOMAIN d = {1}
  BY <1>4
<1>6. HonestSnapshot(d[1])
  <2>1. DOMAIN d[1].turns = 1 .. Len(d[1].turns)
    BY <1>4
  <2> QED BY <1>4, <2>1 DEF HonestSnapshot, HonestTurns
<1>7. SavedIsHonest'
  BY <1>2, <1>4, <1>5, <1>6 DEF SavedIsHonest, d
<1>8. LogsAreLogs' /\ HashesAreChained' /\ ViewsAreTrue' /\ HistoriesAreHonest'
  BY <1>1 DEF SessionInv, LogsAreLogs, HashesAreChained, Hashed, ViewsAreTrue, HistoriesAreHonest
<1>9. HeadsAreWritten'
  <2>1. appended \in Seq(LogFrame) /\ Len(appended) \in Nat
    BY <1>1, <1>3
  <2>2. IsPrefix(appended, appended)
    BY <2>1, PrefixIs
  <2>3. saved' = d /\ appended' = appended
    BY <1>1, <1>2 DEF d
  <2> QED BY <1>4, <1>5, <2>2, <2>3 DEF HeadsAreWritten
<1> QED BY <1>7, <1>8, <1>9 DEF SessionInv

\* A log that was cut or changed has no view and no history any more.
LEMMA DamageKeeps == SessionInv /\ (CutLog \/ AlterLog) => SessionInv'
<1> SUFFICES ASSUME SessionInv, CutLog \/ AlterLog PROVE SessionInv'
  OBVIOUS
<1>1. resumed' = <<>> /\ compacted' = <<>> /\ appended' = appended /\ saved' = saved
  BY DEF CutLog, AlterLog
<1>2. onDisk \in Seq(LogFrame) /\ appended \in Seq(LogFrame)
  BY DEF SessionInv, LogsAreLogs
<1>3. onDisk' \in Seq(LogFrame)
  <2>1. CASE CutLog
    <3> DEFINE n == Len(onDisk) - 1
    <3>1. onDisk' = SubSeq(onDisk, 1, n)
      BY <2>1 DEF CutLog, Front
    <3>2. n \in Nat /\ n <= Len(onDisk)
      BY <1>2, <2>1 DEF CutLog
    <3>3. \A i \in 1 .. n : onDisk[i] \in LogFrame
      BY <1>2, <3>2
    <3> QED BY <1>2, <3>1, <3>2, <3>3
  <2>2. CASE AlterLog
    <3>1. PICK i \in DOMAIN onDisk : onDisk' = [onDisk EXCEPT ![i].size = 0]
      BY <2>2 DEF AlterLog
    <3> DEFINE g == [onDisk[i] EXCEPT !.size = 0]
    <3>2. onDisk[i] \in LogFrame
      BY <1>2
    <3>3. g \in LogFrame
      BY <3>2 DEF LogFrame
    <3>4. onDisk' = [onDisk EXCEPT ![i] = g]
      BY <3>1
    <3> HIDE DEF g
    <3> QED BY <1>2, <3>3, <3>4
  <2> QED BY <2>1, <2>2
<1>4. LogsAreLogs'
  BY <1>1, <1>2, <1>3 DEF LogsAreLogs
<1>5. SavedIsHonest' /\ HeadsAreWritten'
  BY <1>1 DEF SessionInv, SavedIsHonest, HeadsAreWritten
<1>6. ViewsAreTrue' /\ HistoriesAreHonest'
  BY <1>1 DEF ViewsAreTrue, HistoriesAreHonest
<1>7. HashesAreChained'
  <2> DEFINE n == Len(onDisk)
  <2>1. onDisk = appended /\ n \in Nat
    BY <1>2 DEF CutLog, AlterLog
  <2>2. Chained(hashes, n, onDisk) /\ rewritten \in BOOLEAN
    BY <2>1, WrittenHash DEF SessionInv, HashesAreChained
  <2>3. /\ hashes \in Seq(Seq(LogFrame)) /\ Len(hashes) = n
        /\ \A i \in 1 .. n : Len(hashes[i]) = i /\ \A k \in 1 .. i : hashes[i][k] = onDisk[k]
    BY <2>2 DEF Chained
  <2>4. CASE CutLog
    <3>1. /\ onDisk' = Front(onDisk) /\ hashes' = Front(hashes) /\ rewritten' = rewritten /\ onDisk # <<>>
      BY <2>4 DEF CutLog
    <3>2. n - 1 \in Nat /\ \A i \in 1 .. n - 1 : i \in 1 .. n
      BY <1>2, <3>1
    <3>3. Len(onDisk') = n - 1 /\ \A k \in 1 .. n - 1 : onDisk'[k] = onDisk[k]
      <4>1. \A i \in 1 .. n - 1 : onDisk[i] \in LogFrame
        BY <1>2, <3>2
      <4>2. onDisk' = SubSeq(onDisk, 1, n - 1) /\ n - 1 <= Len(onDisk)
        BY <1>2, <3>1 DEF Front
      <4> DEFINE m == n - 1
      <4>3. m \in Nat /\ \A i \in 1 .. m : onDisk[i] \in LogFrame
        BY <3>2, <4>1
      <4> HIDE DEF m
      <4>4. /\ Len(SubSeq(onDisk, 1, m)) = IF 1 <= m THEN m - 1 + 1 ELSE 0
            /\ \A i \in 1 .. m - 1 + 1 : SubSeq(onDisk, 1, m)[i] = onDisk[1 + i - 1]
        BY <4>3, SubSeqProperties
      <4>5. Len(SubSeq(onDisk, 1, m)) = m
        BY <4>3, <4>4
      <4>6. \A i \in 1 .. m : i \in 1 .. m - 1 + 1 /\ 1 + i - 1 = i
        BY <4>3
      <4>7. \A i \in 1 .. m : SubSeq(onDisk, 1, m)[i] = onDisk[i]
        BY <4>4, <4>6
      <4> QED BY <4>2, <4>5, <4>7 DEF m
    <3> HIDE DEF n
    <3>4. /\ hashes' \in Seq(Seq(LogFrame)) /\ Len(hashes') = n - 1 /\ \A i \in 1 .. n - 1 : hashes'[i] = hashes[i]
      BY <2>3, <3>1, <3>2 DEF Front
    <3>5. \A i \in 1 .. n - 1 : \A k \in 1 .. i : k \in 1 .. n - 1
      BY <3>2
    <3>6. \A i \in 1 .. n - 1 : Len(hashes'[i]) = i /\ \A k \in 1 .. i : hashes'[i][k] = onDisk[k]
      BY <2>3, <3>2, <3>4
    <3>7. \A i \in 1 .. n - 1 : Len(hashes'[i]) = i /\ \A k \in 1 .. i : hashes'[i][k] = onDisk'[k]
      BY <3>3, <3>5, <3>6
    <3>8. n - 1 <= n /\ n - 1 <= n - 1
      BY <2>1, <3>2
    <3>9. Chained(hashes', Len(onDisk'), onDisk')
      BY <3>3, <3>4, <3>7, <3>8 DEF Chained
    <3>10. Chained(hashes', Len(onDisk'), appended')
      <4>1. appended' = onDisk /\ Len(onDisk) = n
        BY <1>1, <2>1 DEF n
      <4> QED BY <3>3, <3>4, <3>6, <3>8, <4>1 DEF Chained
    <3> QED BY <2>2, <3>1, <3>9, <3>10 DEF HashesAreChained, Hashed
  <2>5. CASE AlterLog
    <3>1. PICK j \in DOMAIN onDisk : onDisk' = [onDisk EXCEPT ![j].size = 0]
      BY <2>5 DEF AlterLog
    <3>2. Len(onDisk') = n /\ DOMAIN onDisk = 1 .. n /\ onDisk' \in Seq(LogFrame)
      BY <1>2, <1>3, <3>1
    <3>3. rewritten' \in BOOLEAN
      BY <2>5 DEF AlterLog
    <3>4. CASE ~rewritten'
      <4>1. hashes' = hashes /\ appended' = onDisk
        BY <1>1, <2>1, <2>5, <3>4 DEF AlterLog
      <4>2. Hashed' = onDisk
        BY <3>4, <4>1 DEF Hashed
      <4> QED BY <2>2, <3>2, <3>3, <4>1, <4>2 DEF HashesAreChained
    <3>5. CASE rewritten'
      <4> DEFINE log == onDisk'
                 remade == [i \in 1 .. n |-> SubSeq(log, 1, i)]
      <4>1. hashes' = remade /\ Hashed' = log
        BY <2>5, <3>2, <3>5 DEF AlterLog, Hashed
      <4>2. log \in Seq(LogFrame) /\ Len(log) = n
        BY <3>2
      <4> HIDE DEF log, n
      <4>3. ASSUME NEW i \in 1 .. n
            PROVE  /\ SubSeq(log, 1, i) \in Seq(LogFrame) /\ Len(SubSeq(log, 1, i)) = i
                   /\ \A k \in 1 .. i : SubSeq(log, 1, i)[k] = log[k]
        <5>1. i \in Nat /\ i <= Len(log) /\ \A k \in 1 .. i : k \in 1 .. Len(log)
          BY <2>1, <4>2
        <5>2. \A k \in 1 .. i : log[k] \in LogFrame
          BY <4>2, <5>1
        <5> QED BY <4>2, <5>1, <5>2
      <4>4. \A i \in 1 .. n : remade[i] = SubSeq(log, 1, i)
        OBVIOUS
      <4>5. remade \in [1 .. n -> Seq(LogFrame)]
        BY <4>3
      <4> HIDE DEF remade
      <4>6. remade \in Seq(Seq(LogFrame)) /\ Len(remade) = n
        BY <2>1, <4>5, TupleIs
      <4>7. \A i \in 1 .. n : Len(remade[i]) = i /\ \A k \in 1 .. i : remade[i][k] = log[k]
        BY <4>3, <4>4
      <4>8. n <= Len(log)
        BY <2>1, <4>2
      <4>9. Chained(remade, Len(log), log)
        BY <4>2, <4>6, <4>7, <4>8 DEF Chained
      <4> QED BY <3>3, <4>1, <4>9 DEF HashesAreChained, log
    <3> QED BY <3>3, <3>4, <3>5
  <2> QED BY <2>4, <2>5
<1> QED BY <1>4, <1>5, <1>6, <1>7 DEF SessionInv

\* A sequence with an element replaced is a sequence.
LEMMA UpdatedIs ==
  ASSUME NEW S, NEW q \in Seq(S), NEW i, NEW v \in S
  PROVE  [q EXCEPT ![i] = v] \in Seq(S) /\ DOMAIN [q EXCEPT ![i] = v] = DOMAIN q
<1> DEFINE u == [q EXCEPT ![i] = v]
<1>1. q \in [1 .. Len(q) -> S] /\ Len(q) \in Nat
  OBVIOUS
<1>2. u \in [1 .. Len(q) -> S] /\ DOMAIN u = DOMAIN q
  BY <1>1
<1>3. u \in Seq(S)
  BY <1>1, <1>2, TupleIs
<1> QED BY <1>2, <1>3

\* A snapshot that lost a turn shows no turn it did not show.
LEMMA AlterSnapshotKeeps == SessionInv /\ AlterSnapshot => SessionInv'
<1> SUFFICES ASSUME SessionInv, AlterSnapshot PROVE SessionInv'
  OBVIOUS
<1>1. UNCHANGED <<onDisk, hashes, appended, rewritten, resumed, compacted>> /\ saved' = [saved EXCEPT ![1].turns = Tail(@)]
  BY DEF AlterSnapshot
<1>2. saved \in Seq(SnapshotRecord) /\ \A i \in DOMAIN saved : HonestSnapshot(saved[i])
  BY DEF SessionInv, SavedIsHonest
<1>3. saved # <<>> /\ saved[1].turns # <<>>
  BY DEF AlterSnapshot
<1>4. 1 \in DOMAIN saved
  BY <1>2, <1>3
<1> DEFINE s == saved[1]
           ts == Tail(s.turns)
           t == [s EXCEPT !.turns = ts]
<1>5. s \in SnapshotRecord /\ s.turns \in Seq(LogFrame) /\ HonestSnapshot(s)
  <2>1. s \in SnapshotRecord /\ HonestSnapshot(s)
    BY <1>2, <1>4
  <2> HIDE DEF s
  <2> QED BY <2>1 DEF SnapshotRecord
<1>6. saved' = [saved EXCEPT ![1] = t]
  BY <1>1
<1>7. s.turns # <<>>
  BY <1>3
<1> HIDE DEF s
<1>8. ts \in Seq(LogFrame) /\ \A k \in DOMAIN ts : \E j \in DOMAIN s.turns : ts[k] = s.turns[j]
  <2> DEFINE all == s.turns
  <2>1. all \in Seq(LogFrame) /\ all # <<>>
    BY <1>5, <1>7
  <2> HIDE DEF all
  <2>2. Tail(all) \in Seq(LogFrame) /\ Len(Tail(all)) = Len(all) - 1 /\ \A k \in 1 .. Len(all) - 1 : Tail(all)[k] = all[k + 1]
    BY <2>1, HeadTailProperties
  <2>3. Len(all) \in Nat /\ DOMAIN all = 1 .. Len(all) /\ DOMAIN Tail(all) = 1 .. Len(Tail(all))
    BY <2>1, <2>2
  <2>4. \A k \in 1 .. Len(all) - 1 : k + 1 \in 1 .. Len(all)
    BY <2>3
  <2>5. \A k \in DOMAIN Tail(all) : \E j \in DOMAIN all : Tail(all)[k] = all[j]
    BY <2>2, <2>3, <2>4
  <2> QED BY <2>2, <2>5 DEF all
<1> HIDE DEF ts
<1>9. t \in SnapshotRecord /\ t.turns = ts /\ t.session = s.session /\ t.head = s.head
  BY <1>5, <1>8 DEF SnapshotRecord
<1> HIDE DEF t
<1>10. HonestSnapshot(t)
  <2>1. \A j \in DOMAIN s.turns : s.turns[j].visible /\ s.turns[j].task = s.session
    BY <1>5 DEF HonestSnapshot
  <2>2. \A k \in DOMAIN ts : ts[k].visible /\ ts[k].task = s.session
    <3> TAKE k \in DOMAIN ts
    <3>1. PICK j \in DOMAIN s.turns : ts[k] = s.turns[j]
      BY <1>8
    <3>2. s.turns[j].visible /\ s.turns[j].task = s.session
      BY <2>1
    <3> QED BY <3>1, <3>2
  <2> QED BY <1>9, <2>2 DEF HonestSnapshot
<1>11. saved' \in Seq(SnapshotRecord) /\ DOMAIN saved' = DOMAIN saved
  <2>1. t \in SnapshotRecord
    BY <1>9
  <2>2. saved \in Seq(SnapshotRecord)
    BY <1>2
  <2> QED BY <1>6, <2>1, <2>2, UpdatedIs
<1>12. \A i \in DOMAIN saved' : saved'[i] = t \/ saved'[i] = saved[i]
  BY <1>2, <1>6
<1>13. SavedIsHonest'
  <2>1. \A i \in DOMAIN saved' : HonestSnapshot(saved'[i])
    BY Zenon, <1>2, <1>10, <1>11, <1>12
  <2> QED BY Zenon, <1>11, <2>1 DEF SavedIsHonest, HonestSnapshot
<1>14. LogsAreLogs' /\ HashesAreChained' /\ ViewsAreTrue' /\ HistoriesAreHonest'
  BY <1>1 DEF SessionInv, LogsAreLogs, HashesAreChained, Hashed, ViewsAreTrue, HistoriesAreHonest
<1>15. HeadsAreWritten'
  <2>1. \A i \in DOMAIN saved : IsPrefix(saved[i].head, appended)
    BY DEF SessionInv, HeadsAreWritten
  <2>2. IsPrefix(t.head, appended)
    BY <1>4, <1>9, <2>1 DEF s
  <2>3. \A i \in DOMAIN saved' : IsPrefix(saved'[i].head, appended)
    BY Zenon, <1>11, <1>12, <2>1, <2>2
  <2> QED BY <1>1, <2>3 DEF HeadsAreWritten
<1> QED BY <1>13, <1>14, <1>15 DEF SessionInv

\* A view is resumed from a log that was found whole.
LEMMA ResumeKeeps == SessionInv /\ Resume => SessionInv'
<1> SUFFICES ASSUME SessionInv, Resume PROVE SessionInv'
  OBVIOUS
<1>1. PICK s \in Sessions, anchored \in BOOLEAN, rs \in {{}} \cup {{r} : r \in Receipts} :
        LET anchor == IF anchored THEN <<saved[1].head>> ELSE <<>>
            fs == Frames(onDisk, s, MaxFrames)
        IN  /\ Verified(anchor) /\ (anchored => saved # <<>>)
            /\ resumed' = <<[session |-> s, frames |-> fs, anchor |-> anchor, lease |-> LeaseOf(fs)]>>
            /\ UNCHANGED <<onDisk, hashes, appended, rewritten, saved, compacted>>
  BY DEF Resume
<1> DEFINE anchor == IF anchored THEN <<saved[1].head>> ELSE <<>>
           fs == Frames(onDisk, s, MaxFrames)
           lease == LeaseOf(fs)
           r == [session |-> s, frames |-> fs, anchor |-> anchor, lease |-> lease]
<1>2. onDisk \in Seq(LogFrame) /\ appended \in Seq(LogFrame)
  BY DEF SessionInv, LogsAreLogs
<1>3. /\ ~rewritten => IsPrefix(onDisk, appended)
      /\ anchor # <<>> => onDisk = anchor[1] /\ IsPrefix(anchor[1], appended)
  <2>1. Intact /\ (anchor # <<>> => IntactTo(anchor[1]))
    BY <1>1 DEF Verified, IntactTo
  <2>2. anchor # <<>> => IsPrefix(anchor[1], appended)
    <3>1. anchor # <<>> => saved # <<>> /\ anchor[1] = saved[1].head
      BY <1>1
    <3>2. saved \in Seq(SnapshotRecord) /\ \A i \in DOMAIN saved : IsPrefix(saved[i].head, appended)
      BY DEF SessionInv, SavedIsHonest, HeadsAreWritten
    <3>3. saved # <<>> => 1 \in DOMAIN saved
      BY <3>2
    <3> HIDE DEF anchor
    <3> QED BY <3>1, <3>2, <3>3
  <2> HIDE DEF anchor
  <2> QED BY <2>1, <2>2, IntactIsWritten, IntactToIs
<1>4. ~rewritten => IsPrefix(fs, Frames(appended, s, MaxFrames))
  BY <1>2, <1>3, FramesGrow
<1>5. fs \in Seq(LogFrame)
  BY <1>2, FramesAre
<1>6. anchor # <<>> => fs = Frames(anchor[1], s, MaxFrames) /\ IsPrefix(anchor[1], appended)
  <2> HIDE DEF anchor
  <2> QED BY <1>3
<1> HIDE DEF fs
<1>7. (\E k \in DOMAIN fs : fs[k].kind \in {"TaskKilled", "TaskFailed"}) => lease.state # "Live"
  BY <1>5, EndedIsNotLive
<1>8. resumed' = <<r>> /\ UNCHANGED <<onDisk, hashes, appended, rewritten, saved, compacted>>
  BY <1>1 DEF fs
<1> HIDE DEF anchor, lease
<1>9. r.session = s /\ r.frames = fs /\ r.anchor = anchor /\ r.lease = lease
  OBVIOUS
<1> HIDE DEF r
<1>10. TrueView(r, appended, rewritten)
  BY <1>4, <1>6, <1>7, <1>9 DEF TrueView
<1>11. ViewsAreTrue'
  <2>1. DOMAIN resumed' = {1} /\ resumed'[1] = r /\ appended' = appended /\ rewritten' = rewritten
    BY <1>8
  <2> QED BY <1>10, <2>1 DEF ViewsAreTrue
<1>12. LogsAreLogs' /\ HashesAreChained' /\ SavedIsHonest' /\ HeadsAreWritten' /\ HistoriesAreHonest'
  BY <1>8 DEF SessionInv, LogsAreLogs, HashesAreChained, Hashed, SavedIsHonest, HeadsAreWritten, HistoriesAreHonest
<1> QED BY <1>11, <1>12 DEF SessionInv

\* A history is compacted from the turns of a snapshot.
LEMMA CompactHistoryKeeps == SessionInv /\ CompactHistory => SessionInv'
<1> SUFFICES ASSUME SessionInv, CompactHistory PROVE SessionInv'
  OBVIOUS
<1>1. PICK s \in Sessions, p \in Policies :
        LET snap == Derive(onDisk, s, HeadSeq(onDisk, s))
            turns == IF snap = <<>> THEN <<>> ELSE snap[1].turns
        IN  compacted' = <<[turns |-> turns, policy |-> p, lines |-> Compact(turns, p)]>>
  BY DEF CompactHistory
<1> DEFINE snap == Derive(onDisk, s, HeadSeq(onDisk, s))
           turns == IF snap = <<>> THEN <<>> ELSE snap[1].turns
           c == [turns |-> turns, policy |-> p, lines |-> Compact(turns, p)]
<1>2. onDisk \in Seq(LogFrame)
  BY DEF SessionInv, LogsAreLogs
<1>3. turns \in Seq(LogFrame) /\ \A k \in 1 .. Len(turns) : turns[k].visible
  <2>1. CASE snap = <<>>
    <3>1. turns = <<>>
      BY <2>1
    <3> HIDE DEF turns
    <3> QED BY <3>1
  <2>2. CASE snap # <<>>
    <3>2. HashAt(Len(onDisk)) \in Seq(LogFrame)
      BY <1>2, HashIs
    <3>1. snap[1].turns \in Seq(LogFrame) /\ HonestTurns(snap[1].turns, s)
      BY <1>2, <2>2, <3>2, DeriveIs
    <3> HIDE DEF snap
    <3> QED BY <2>2, <3>1 DEF HonestTurns
  <2> QED BY <2>1, <2>2
<1>4. compacted' = <<c>>
  BY <1>1
<1> HIDE DEF turns
<1>5. HonestHistory(c)
  BY <1>3, CompactedIsHonest
<1> HIDE DEF c
<1>6. HistoriesAreHonest'
  <2>1. DOMAIN compacted' = {1} /\ compacted'[1] = c
    BY <1>4
  <2> QED BY <1>5, <2>1 DEF HistoriesAreHonest
<1>7. UNCHANGED <<onDisk, hashes, appended, rewritten, saved, resumed>>
  BY DEF CompactHistory
<1>8. LogsAreLogs' /\ HashesAreChained' /\ SavedIsHonest' /\ HeadsAreWritten' /\ ViewsAreTrue'
  BY <1>7 DEF SessionInv, LogsAreLogs, HashesAreChained, Hashed, SavedIsHonest, HeadsAreWritten, ViewsAreTrue
<1> QED BY <1>6, <1>8 DEF SessionInv

\* Whatever is appended, cut or changed, and whatever is resumed, taken or
\* compacted in between, a view anchored in a snapshot is what was written, one
\* without an anchor too unless a hand made the hashes of the log anew, and no
\* projection hides or adds a turn unsaid (SessionService).
THEOREM SessionsHold == SessionSpec => []SessionsAreFaithful
<1>1. SessionInit => SessionInv
  <2> SUFFICES ASSUME SessionInit PROVE SessionInv
    OBVIOUS
  <2>1. LogsAreLogs /\ SavedIsHonest /\ HeadsAreWritten /\ ViewsAreTrue /\ HistoriesAreHonest
    BY DEF SessionInit, LogsAreLogs, SavedIsHonest, HeadsAreWritten, ViewsAreTrue, HistoriesAreHonest
  <2>2. HashesAreChained
    <3>1. hashes \in Seq(Seq(LogFrame)) /\ Len(hashes) = 0 /\ Len(onDisk) = 0 /\ Hashed = <<>> /\ rewritten \in BOOLEAN
      <4>1. hashes = <<>> /\ onDisk = <<>> /\ appended = <<>> /\ rewritten = FALSE
        BY DEF SessionInit
      <4>2. <<>> \in Seq(Seq(LogFrame)) /\ Len(<<>>) = 0
        OBVIOUS
      <4> QED BY <4>1, <4>2 DEF Hashed
    <3>2. 0 <= Len(Hashed) /\ 1 .. 0 = {}
      BY <3>1
    <3> QED BY <3>1, <3>2 DEF HashesAreChained, Chained
  <2> QED BY <2>1, <2>2 DEF SessionInv
<1>2. SessionInv /\ [SessionNext]_sessionVars => SessionInv'
  <2> SUFFICES ASSUME SessionInv, [SessionNext]_sessionVars PROVE SessionInv'
    OBVIOUS
  <2>1. CASE SessionNext
    BY <2>1, AppendFrameKeeps, TakeSnapshotKeeps, DamageKeeps, AlterSnapshotKeeps, ResumeKeeps, CompactHistoryKeeps
       DEF SessionNext
  <2>2. CASE UNCHANGED sessionVars
    BY <2>2 DEF sessionVars, SessionInv, LogsAreLogs, HashesAreChained, Hashed, SavedIsHonest, HeadsAreWritten,
                ViewsAreTrue, HistoriesAreHonest
  <2> QED BY <2>1, <2>2
<1> QED BY <1>1, <1>2, SessionInvIsFaithful, PTL DEF SessionSpec

-----------------------------------------------------------------------------
(***************************************************************************)
(* Sums of products.                                                       *)
(***************************************************************************)
Sums(f, a, b) ==
  /\ f \in [0 .. Len(a) -> Int] /\ f[0] = 0
  /\ \A n \in 1 .. Len(a) : f[n] = f[n - 1] + a[n] * b[n]

\* Dot is the last of the partial sums.
LEMMA DotIs ==
  ASSUME NEW a \in Seq(Int), NEW b \in Seq(Int), Len(a) = Len(b)
  PROVE  \E f : Sums(f, a, b) /\ Dot(a, b) = f[Len(a)]
<1> DEFINE N == Len(a)
           g == [n \in 1 .. N |-> [s \in Int |-> s + a[n] * b[n]]]
           Eq(h) == h = [n \in 0 .. N |-> IF n = 0 THEN 0 ELSE h[n - 1] + a[n] * b[n]]
           f == CHOOSE h : Eq(h)
<1>1. N \in Nat /\ \A n \in 1 .. N : a[n] \in Int /\ b[n] \in Int
  OBVIOUS
<1>2. Dot(a, b) = f[N]
  BY DEF Dot
<1> HIDE DEF N
<1>3. IsStep(g, N, Int) /\ \A n \in 1 .. N, s \in Int : g[n][s] = s + a[n] * b[n]
  BY <1>1 DEF IsStep
<1> HIDE DEF g
<1>4. PICK h : Iterates(h, N, Int, 0, g)
  <2>1. 0 \in Int
    OBVIOUS
  <2> QED BY Zenon, <1>1, <1>3, <2>1, Recursion
<1>5. \A n \in 1 .. N : h[n] = h[n - 1] + a[n] * b[n]
  <2> TAKE n \in 1 .. N
  <2>1. h[n] = g[n][h[n - 1]] /\ h[n - 1] \in Int
    BY <1>1, <1>4 DEF Iterates
  <2> QED BY <1>3, <2>1
<1>6. h \in [0 .. N -> Int] /\ h[0] = 0
  BY <1>4 DEF Iterates
<1>7. Eq(h)
  BY <1>1, <1>5, <1>6
<1>8. Eq(f)
  BY <1>7
<1> HIDE DEF f
<1>9. f[0] = 0 /\ \A n \in 1 .. N : f[n] = f[n - 1] + a[n] * b[n]
  BY <1>1, <1>8
<1>10. \A n \in 0 .. N : f[n] \in Int
  <2> DEFINE T == {n \in 0 .. N : f[n] \in Int}
  <2>1. 0 \in T
    BY <1>1, <1>9
  <2>2. ASSUME NEW n \in 1 .. N, n - 1 \in T PROVE n \in T
    <3>1. f[n - 1] \in Int /\ a[n] * b[n] \in Int /\ f[n] = f[n - 1] + a[n] * b[n]
      BY <1>1, <1>9, <2>2
    <3> QED BY <3>1
  <2> HIDE DEF T
  <2>3. \A n \in 0 .. N : n \in T
    BY <1>1, <2>1, <2>2, UpTo
  <2> QED BY <2>3 DEF T
<1>11. f \in [0 .. N -> Int]
  BY <1>8, <1>10
<1> QED BY <1>2, <1>9, <1>11 DEF N, Sums

\* Squares.
LEMMA SquareIs ==
  ASSUME NEW x \in Int
  PROVE  x * x \in Int /\ x * x >= 0 /\ (x * x = 0 => x = 0)
<1>1. CASE x >= 0
  BY <1>1
<1>2. CASE x < 0
  BY <1>2
<1> QED BY <1>1, <1>2

\* A norm is no less than each square it sums, so that only the null vector
\* has none.
LEMMA NormIs ==
  ASSUME NEW a \in Seq(Int)
  PROVE  /\ Norm2(a) \in Int /\ Norm2(a) >= 0
         /\ Norm2(a) = 0 => \A i \in 1 .. Len(a) : a[i] = 0
<1> DEFINE N == Len(a)
<1>1. N \in Nat /\ \A n \in 1 .. N : a[n] \in Int
  OBVIOUS
<1>2. PICK f : Sums(f, a, a) /\ Norm2(a) = f[N]
  BY DotIs DEF Norm2
<1>3. f \in [0 .. N -> Int] /\ f[0] = 0 /\ \A n \in 1 .. N : f[n] = f[n - 1] + a[n] * a[n]
  BY <1>2 DEF Sums
<1> HIDE DEF N
<1>4. \A n \in 1 .. N : f[n] \in Int /\ f[n - 1] \in Int /\ a[n] * a[n] \in Int /\ f[n - 1] <= f[n] /\ (a[n] * a[n] = 0 => a[n] = 0)
  <2> TAKE n \in 1 .. N
  <2>1. f[n] \in Int /\ f[n - 1] \in Int /\ f[n] = f[n - 1] + a[n] * a[n] /\ a[n] \in Int
    BY <1>1, <1>3
  <2>2. a[n] * a[n] \in Int /\ a[n] * a[n] >= 0 /\ (a[n] * a[n] = 0 => a[n] = 0)
    BY <2>1, SquareIs
  <2> DEFINE sq == a[n] * a[n]
  <2> HIDE DEF sq
  <2>3. f[n - 1] <= f[n]
    <3>1. f[n] = f[n - 1] + sq /\ sq \in Int /\ sq >= 0
      BY <2>1, <2>2 DEF sq
    <3> QED BY <2>1, <3>1
  <2> QED BY <2>1, <2>2, <2>3
<1> DEFINE T == {n \in 0 .. N : f[n] >= 0 /\ (f[n] = 0 => \A i \in 1 .. n : a[i] = 0)}
<1>5. 0 \in T
  BY <1>1, <1>3
<1>6. ASSUME NEW n \in 1 .. N, n - 1 \in T PROVE n \in T
  <2>1. f[n - 1] >= 0 /\ (f[n - 1] = 0 => \A i \in 1 .. n - 1 : a[i] = 0)
    BY <1>6
  <2>2. f[n] \in Int /\ f[n - 1] \in Int /\ f[n - 1] <= f[n]
    BY <1>4
  <2>3. f[n] >= 0
    BY <2>1, <2>2
  <2>4. ASSUME f[n] = 0 PROVE \A i \in 1 .. n : a[i] = 0
    <3>1. f[n - 1] = 0
      BY <2>1, <2>2, <2>4
    <3>2. a[n] = 0
      <4>1. f[n] = f[n - 1] + a[n] * a[n] /\ a[n] * a[n] \in Int /\ (a[n] * a[n] = 0 => a[n] = 0)
        BY <1>3, <1>4
      <4> DEFINE sq == a[n] * a[n]
      <4> HIDE DEF sq
      <4>2. f[n] = f[n - 1] + sq /\ sq \in Int /\ (sq = 0 => a[n] = 0)
        BY <4>1 DEF sq
      <4> QED BY <2>4, <3>1, <4>2
    <3> QED BY <1>1, <2>1, <3>1, <3>2
  <2> QED BY <1>1, <2>3, <2>4
<1> HIDE DEF T
<1>7. N \in T
  <2>1. \A n \in 0 .. N : n \in T
    BY <1>1, <1>5, <1>6, UpTo
  <2> QED BY <1>1, <2>1
<1> QED BY <1>1, <1>2, <1>3, <1>7 DEF T, N

\* Only a vector that is not null is similar to another one.
LEMMA SimilarIs ==
  ASSUME NEW q \in Seq(Int), NEW v \in Seq(Int), Similar(q, v)
  PROVE  Len(q) = Len(v) /\ Dot(q, v) \in Int /\ Dot(q, v) > 0 /\ Norm2(v) \in Int /\ Norm2(v) > 0
<1> DEFINE N == Len(q)
<1>1. N \in Nat /\ Len(v) = N /\ Dot(q, v) > 0 /\ \A n \in 1 .. N : q[n] \in Int
  BY DEF Similar
<1>2. PICK f : Sums(f, q, v) /\ Dot(q, v) = f[N]
  BY <1>1, DotIs
<1>3. f \in [0 .. N -> Int] /\ f[0] = 0 /\ \A n \in 1 .. N : f[n] = f[n - 1] + q[n] * v[n]
  BY <1>2 DEF Sums
<1>4. Dot(q, v) \in Int
  BY <1>1, <1>2, <1>3
<1>5. /\ Norm2(v) \in Int /\ Norm2(v) >= 0
      /\ Norm2(v) = 0 => \A i \in 1 .. N : v[i] = 0
  BY <1>1, NormIs
<1> HIDE DEF N
<1>6. ASSUME \A i \in 1 .. N : v[i] = 0 PROVE FALSE
  <2> DEFINE T == {n \in 0 .. N : f[n] = 0}
  <2>1. 0 \in T
    BY <1>1, <1>3
  <2>2. ASSUME NEW n \in 1 .. N, n - 1 \in T PROVE n \in T
    <3>1. f[n - 1] = 0 /\ v[n] = 0 /\ q[n] \in Int
      BY <1>1, <1>6, <2>2
    <3>2. q[n] * v[n] = 0
      BY <3>1
    <3> QED BY <1>3, <3>1, <3>2
  <2> HIDE DEF T
  <2>3. \A n \in 0 .. N : n \in T
    BY <1>1, <2>1, <2>2, UpTo
  <2>4. f[N] = 0
    BY <1>1, <2>3 DEF T
  <2> QED BY <1>1, <1>2, <2>4
<1> QED BY <1>1, <1>4, <1>5, <1>6 DEF N

\* Three facts about products.
LEMMA ThreeSums ==
  ASSUME NEW P \in Int, NEW Q \in Int, NEW R \in Int, NEW s \in Int, NEW t \in Int, NEW u \in Int,
         NEW x \in Int, NEW y \in Int, NEW z \in Int
  PROVE  P * (s + x) - Q * (t + y) + R * (u + z) = (P * s - Q * t + R * u) + (P * x - Q * y + R * z)
OBVIOUS

\* The square of N times a less D times b, summed, vanishes for a perfect match.
LEMMA NothingLeft ==
  ASSUME NEW N \in Int, NEW D \in Int, NEW Q \in Int, D * D = Q * N
  PROVE  (N * N) * Q - (2 * (N * D)) * D + (D * D) * N = 0
<1>1. (N * N) * Q = N * (Q * N) /\ (2 * (N * D)) * D = 2 * (N * (D * D)) /\ (D * D) * N = N * (D * D)
  OBVIOUS
<1>2. (N * N) * Q = N * (D * D)
  BY <1>1
<1> DEFINE p == N * (D * D)
<1>3. p \in Int
  OBVIOUS
<1>4. (N * N) * Q = p /\ (2 * (N * D)) * D = 2 * p /\ (D * D) * N = p
  BY <1>1, <1>2
<1> HIDE DEF p
<1> QED BY <1>3, <1>4

\* Numbers that positive factors make equal have the same sign.
LEMMA SameSign ==
  ASSUME NEW N \in Int, NEW D \in Int, NEW x \in Int, NEW y \in Int, N > 0, D > 0, N * x = D * y
  PROVE  x > 0 <=> y > 0
<1>1. ASSUME x > 0 PROVE y > 0
  <2>1. N * x > 0
    BY <1>1
  <2>2. CASE y <= 0
    <3>1. D * y <= 0
      BY <2>2
    <3> QED BY <2>1, <3>1
  <2> QED BY <2>2
<1>2. ASSUME y > 0 PROVE x > 0
  <2>1. D * y > 0
    BY <1>2
  <2>2. CASE x <= 0
    <3>1. N * x <= 0
      BY <2>2
    <3> QED BY <2>1, <3>1
  <2> QED BY <2>2
<1> QED BY <1>1, <1>2

\* The case of equality of Cauchy and Schwarz: a vector whose cosine with q is
\* 1 is a multiple of q.
LEMMA PerfectIsParallel ==
  ASSUME NEW q \in Seq(Int), NEW v \in Seq(Int), Similar(q, v),
         Dot(q, v) * Dot(q, v) = Norm2(q) * Norm2(v)
  PROVE  \A i \in 1 .. Len(q) : Norm2(v) * q[i] = Dot(q, v) * v[i]
<1> DEFINE L == Len(q)
           N == Norm2(v)
           D == Dot(q, v)
           Q == Norm2(q)
           w == [i \in 1 .. L |-> N * q[i] - D * v[i]]
<1>1. /\ L \in Nat /\ Len(v) = L /\ \A i \in 1 .. L : q[i] \in Int /\ v[i] \in Int
      /\ N \in Int /\ D \in Int /\ Q \in Int /\ D * D = Q * N
  BY SimilarIs, NormIs
<1>2. PICK f : Sums(f, q, q) /\ Q = f[L]
  BY DotIs DEF Norm2
<1>3. PICK g : Sums(g, q, v) /\ D = g[L]
  BY <1>1, DotIs
<1>4. PICK h : Sums(h, v, v) /\ N = h[L]
  BY <1>1, DotIs DEF Norm2
<1>5. /\ f \in [0 .. L -> Int] /\ f[0] = 0 /\ \A n \in 1 .. L : f[n] = f[n - 1] + q[n] * q[n]
      /\ g \in [0 .. L -> Int] /\ g[0] = 0 /\ \A n \in 1 .. L : g[n] = g[n - 1] + q[n] * v[n]
      /\ h \in [0 .. L -> Int] /\ h[0] = 0 /\ \A n \in 1 .. L : h[n] = h[n - 1] + v[n] * v[n]
  BY <1>1, <1>2, <1>3, <1>4 DEF Sums
<1> HIDE DEF L, N, D, Q
<1>6. w \in Seq(Int) /\ Len(w) = L /\ \A i \in 1 .. L : w[i] = N * q[i] - D * v[i] /\ w[i] \in Int
  BY <1>1
<1> HIDE DEF w
<1>7. PICK k : Sums(k, w, w) /\ Norm2(w) = k[L]
  BY <1>6, DotIs DEF Norm2
<1>8. k \in [0 .. L -> Int] /\ k[0] = 0 /\ \A n \in 1 .. L : k[n] = k[n - 1] + w[n] * w[n]
  BY <1>6, <1>7 DEF Sums
<1> DEFINE P == N * N
           M == 2 * (N * D)
           R == D * D
           T == {n \in 0 .. L : k[n] = P * f[n] - M * g[n] + R * h[n]}
<1>9. P \in Int /\ M \in Int /\ R \in Int
  BY <1>1
<1>10. 0 \in T
  <2>1. P * 0 = 0 /\ M * 0 = 0 /\ R * 0 = 0
    BY <1>9
  <2> QED BY <1>1, <1>5, <1>8, <2>1
<1>11. ASSUME NEW n \in 1 .. L, n - 1 \in T PROVE n \in T
  <2> DEFINE s == f[n - 1]  t == g[n - 1]  u == h[n - 1]
             x == q[n] * q[n]  y == q[n] * v[n]  z == v[n] * v[n]
  <2>1. q[n] \in Int /\ v[n] \in Int /\ n \in 0 .. L /\ n - 1 \in 0 .. L
    BY <1>1
  <2>2. s \in Int /\ t \in Int /\ u \in Int /\ x \in Int /\ y \in Int /\ z \in Int
    <3>1. f[n - 1] \in Int /\ g[n - 1] \in Int /\ h[n - 1] \in Int
      BY <1>5, <2>1
    <3>2. q[n] * q[n] \in Int /\ q[n] * v[n] \in Int /\ v[n] * v[n] \in Int
      BY <2>1
    <3> QED BY <3>1, <3>2
  <2>3. w[n] * w[n] = P * x - M * y + R * z
    <3> HIDE DEF P, M, R, x, y, z
    <3>1. w[n] = N * q[n] - D * v[n]
      BY <1>6
    <3> DEFINE a == q[n]  b == v[n]
    <3>2. N \in Int /\ D \in Int /\ a \in Int /\ b \in Int
      BY <1>1, <2>1
    <3>3. x = a * a /\ y = a * b /\ z = b * b
      BY DEF x, y, z
    <3> HIDE DEF a, b
    <3>4. (N * a - D * b) * (N * a - D * b) = (N * N) * (a * a) - (2 * (N * D)) * (a * b) + (D * D) * (b * b)
      BY ONLY <3>2
    <3>5. (N * q[n] - D * v[n]) * (N * q[n] - D * v[n]) = P * x - M * y + R * z
      BY Zenon, <3>3, <3>4 DEF P, M, R, a, b
    <3> QED BY <3>1, <3>5
  <2>4. k[n - 1] = P * s - M * t + R * u
    BY <1>11
  <2>5. k[n] = k[n - 1] + w[n] * w[n] /\ f[n] = s + x /\ g[n] = t + y /\ h[n] = u + z
    BY <1>5, <1>8
  <2> HIDE DEF s, t, u, x, y, z, P, M, R
  <2>6. k[n] = P * (s + x) - M * (t + y) + R * (u + z)
    <3>1. P * (s + x) - M * (t + y) + R * (u + z) = (P * s - M * t + R * u) + (P * x - M * y + R * z)
      BY <1>9, <2>2, ThreeSums
    <3> QED BY <2>3, <2>4, <2>5, <3>1
  <2> QED BY <2>1, <2>5, <2>6
<1> HIDE DEF T
<1>12. k[L] = P * f[L] - M * g[L] + R * h[L]
  <2>1. \A n \in 0 .. L : n \in T
    BY <1>1, <1>10, <1>11, UpTo
  <2> QED BY <1>1, <2>1 DEF T
<1>13. Norm2(w) = 0
  <2>1. Norm2(w) = (N * N) * Q - (2 * (N * D)) * D + (D * D) * N
    BY <1>2, <1>3, <1>4, <1>7, <1>12
  <2> QED BY <1>1, <2>1, NothingLeft
<1>14. \A i \in 1 .. L : w[i] = 0
  BY <1>6, <1>13, NormIs
<1>15. \A i \in 1 .. L : N * q[i] = D * v[i]
  <2> TAKE i \in 1 .. L
  <2>1. N * q[i] \in Int /\ D * v[i] \in Int /\ N * q[i] - D * v[i] = 0
    BY <1>1, <1>6, <1>14
  <2> QED BY <2>1
<1> QED BY <1>15 DEF L, N, D

\* So the two lie on the same side of every plane.
LEMMA ParallelSides ==
  ASSUME NEW q \in Seq(Int), NEW v \in Seq(Int), Similar(q, v),
         Dot(q, v) * Dot(q, v) = Norm2(q) * Norm2(v), NEW p \in Seq(Int), Len(p) = Len(q)
  PROVE  Dot(q, p) > 0 <=> Dot(v, p) > 0
<1> DEFINE L == Len(q)
           N == Norm2(v)
           D == Dot(q, v)
<1>1. /\ L \in Nat /\ Len(v) = L /\ \A i \in 1 .. L : q[i] \in Int /\ v[i] \in Int /\ p[i] \in Int
      /\ N \in Int /\ D \in Int /\ N > 0 /\ D > 0
  BY SimilarIs
<1>2. \A i \in 1 .. L : N * q[i] = D * v[i]
  BY PerfectIsParallel
<1>3. PICK f : Sums(f, q, p) /\ Dot(q, p) = f[L]
  BY DotIs
<1>4. PICK g : Sums(g, v, p) /\ Dot(v, p) = g[L]
  BY <1>1, DotIs
<1>5. /\ f \in [0 .. L -> Int] /\ f[0] = 0 /\ \A n \in 1 .. L : f[n] = f[n - 1] + q[n] * p[n]
      /\ g \in [0 .. L -> Int] /\ g[0] = 0 /\ \A n \in 1 .. L : g[n] = g[n - 1] + v[n] * p[n]
  BY <1>1, <1>3, <1>4 DEF Sums
<1> HIDE DEF L, N, D
<1> DEFINE T == {n \in 0 .. L : N * f[n] = D * g[n]}
<1>6. 0 \in T
  BY <1>1, <1>5
<1>7. ASSUME NEW n \in 1 .. L, n - 1 \in T PROVE n \in T
  <2> DEFINE s == f[n - 1]  t == g[n - 1]
  <2>1. q[n] \in Int /\ v[n] \in Int /\ p[n] \in Int /\ n \in 0 .. L /\ n - 1 \in 0 .. L
    BY <1>1
  <2>2. s \in Int /\ t \in Int
    BY <1>5, <2>1
  <2>3. N * s = D * t
    BY <1>7
  <2>4. N * q[n] = D * v[n]
    BY <1>2
  <2>5. f[n] = s + q[n] * p[n] /\ g[n] = t + v[n] * p[n]
    BY <1>5
  <2> HIDE DEF s, t
  <2>6. /\ N * (s + q[n] * p[n]) = N * s + (N * q[n]) * p[n]
        /\ D * (t + v[n] * p[n]) = D * t + (D * v[n]) * p[n]
    <3> DEFINE a == q[n]  b == v[n]  c == p[n]
    <3>1. N \in Int /\ D \in Int /\ a \in Int /\ b \in Int /\ c \in Int /\ s \in Int /\ t \in Int
      BY <1>1, <2>1, <2>2
    <3> HIDE DEF a, b, c
    <3>2. N * (s + a * c) = N * s + (N * a) * c /\ D * (t + b * c) = D * t + (D * b) * c
      BY ONLY <3>1
    <3> QED BY Zenon, <3>2 DEF a, b, c
  <2>7. N * f[n] = D * g[n]
    BY <2>3, <2>4, <2>5, <2>6
  <2> QED BY <2>1, <2>7
<1> HIDE DEF T
<1>8. N * f[L] = D * g[L] /\ f[L] \in Int /\ g[L] \in Int
  <2>1. \A n \in 0 .. L : n \in T
    BY <1>1, <1>6, <1>7, UpTo
  <2> QED BY <1>1, <1>5, <2>1 DEF T
<1>9. f[L] > 0 <=> g[L] > 0
  BY <1>1, <1>8, SameSign
<1> QED BY <1>3, <1>4, <1>9

\* Being nearer is an order of the vectors similar to q: crosswise products.
LEMMA Crosswise ==
  ASSUME NEW A \in Int, NEW B \in Int, NEW C \in Int, NEW a \in Int, NEW b \in Int, NEW c \in Int,
         a > 0, b > 0, c > 0, A * b > B * a, C * b <= B * c
  PROVE  A * c > C * a
<1>1. (A * b) * c > (B * a) * c
  <2> DEFINE x == A * b  y == B * a
  <2>1. x \in Int /\ y \in Int /\ x > y
    OBVIOUS
  <2> HIDE DEF x, y
  <2>2. x * c > y * c
    BY <2>1
  <2> QED BY <2>2 DEF x, y
<1>2. (B * c) * a >= (C * b) * a
  <2> DEFINE x == B * c  y == C * b
  <2>1. x \in Int /\ y \in Int /\ x >= y
    OBVIOUS
  <2> HIDE DEF x, y
  <2>2. x * a >= y * a
    BY <2>1
  <2> QED BY <2>2 DEF x, y
<1>3. (A * b) * c = (A * c) * b /\ (B * a) * c = (B * c) * a /\ (C * b) * a = (C * a) * b
  OBVIOUS
<1> DEFINE x == A * c  y == C * a
<1>4. x \in Int /\ y \in Int
  OBVIOUS
<1>5. x * b > y * b
  <2> DEFINE p == x * b  r == (B * c) * a  s == y * b
  <2>1. p \in Int /\ r \in Int /\ s \in Int
    OBVIOUS
  <2>2. p > r /\ r >= s
    BY <1>1, <1>2, <1>3
  <2> HIDE DEF p, r, s
  <2>3. p > s
    BY <2>1, <2>2
  <2> QED BY <2>3 DEF p, s
<1> HIDE DEF x, y
<1>6. x > y
  <2>1. CASE x <= y
    <3>1. x * b <= y * b
      BY <1>4, <2>1
    <3>2. x * b \in Int /\ y * b \in Int
      BY <1>4
    <3> QED BY <1>5, <3>1, <3>2
  <2> QED BY <1>4, <2>1
<1> QED BY <1>6 DEF x, y

\* What is nearer than another is nearer than all the other is not further than.
LEMMA NearerIs ==
  ASSUME NEW q \in Seq(Int), NEW a \in Seq(Int), NEW b \in Seq(Int), NEW c \in Seq(Int),
         Similar(q, a), Similar(q, b), Similar(q, c)
  PROVE  /\ Nearer(q, a, b) => ~Nearer(q, b, a)
         /\ Nearer(q, a, b) /\ ~Nearer(q, c, b) => Nearer(q, a, c)
<1> DEFINE x == Dot(q, a) * Dot(q, a)  y == Dot(q, b) * Dot(q, b)  z == Dot(q, c) * Dot(q, c)
           k == Norm2(a)  l == Norm2(b)  m == Norm2(c)
<1>1. /\ Dot(q, a) \in Int /\ Dot(q, b) \in Int /\ Dot(q, c) \in Int
      /\ k \in Int /\ l \in Int /\ m \in Int /\ k > 0 /\ l > 0 /\ m > 0
  BY SimilarIs
<1>2. x \in Int /\ y \in Int /\ z \in Int
  BY <1>1
<1>3. /\ Nearer(q, a, b) <=> x * l > y * k
      /\ Nearer(q, b, a) <=> y * k > x * l
      /\ Nearer(q, c, b) <=> z * l > y * m
      /\ Nearer(q, a, c) <=> x * m > z * k
  BY DEF Nearer
<1> HIDE DEF x, y, z, k, l, m
<1>4. x * l \in Int /\ y * k \in Int /\ z * l \in Int /\ y * m \in Int
  BY <1>1, <1>2
<1>5. Nearer(q, a, b) => ~Nearer(q, b, a)
  <2> DEFINE r == x * l  s == y * k
  <2>1. r \in Int /\ s \in Int /\ (Nearer(q, a, b) <=> r > s) /\ (Nearer(q, b, a) <=> s > r)
    BY <1>3, <1>4
  <2> HIDE DEF r, s
  <2> QED BY <2>1
<1>6. ASSUME Nearer(q, a, b), ~Nearer(q, c, b) PROVE Nearer(q, a, c)
  <2>1. x * l > y * k
    BY <1>3, <1>6
  <2>2. z * l <= y * m
    <3> DEFINE r == z * l  s == y * m
    <3>1. r \in Int /\ s \in Int /\ ~(r > s)
      BY <1>3, <1>4, <1>6
    <3> HIDE DEF r, s
    <3>2. r <= s
      BY <3>1
    <3> QED BY <3>2 DEF r, s
  <2>3. x * m > z * k
    BY ONLY <1>1, <1>2, <2>1, <2>2, Crosswise
  <2> QED BY <1>3, <2>3
<1> QED BY <1>5, <1>6

(***************************************************************************)
(* The least and the greatest of a set of numbers.                         *)
(***************************************************************************)
LEMMA MinIs ==
  ASSUME NEW T \in SUBSET Nat, T # {}
  PROVE  Min(T) \in T /\ \A y \in T : Min(T) <= y
BY LeastNumber DEF Min

\* Max is the greatest of a set of bounded numbers.
LEMMA MaxIs ==
  ASSUME NEW N \in Nat, NEW T \in SUBSET (0 .. N), T # {}
  PROVE  Max(T) \in T /\ \A y \in T : y <= Max(T)
<1> DEFINE U == {n \in Nat : \E x \in T : n = N - x}
<1>1. U \in SUBSET Nat /\ U # {}
  <2>1. PICK x \in T : TRUE
    OBVIOUS
  <2>2. N - x \in Nat
    BY <2>1
  <2> QED BY <2>1, <2>2
<1>2. PICK n \in U : \A m \in U : n <= m
  BY <1>1, LeastNumber
<1>3. PICK x \in T : n = N - x
  BY <1>2
<1>4. \A y \in T : y <= x
  <2> TAKE y \in T
  <2>1. x \in Nat /\ y \in Nat /\ N - y \in Nat
    OBVIOUS
  <2>2. N - y \in U
    BY <2>1
  <2>3. N - x <= N - y
    BY <1>2, <1>3, <2>2
  <2> QED BY <2>1, <2>3
<1> QED BY <1>4 DEF Max

(***************************************************************************)
(* Ranking.                                                                *)
(***************************************************************************)
PutAt(p, at, q, vectors, order, n) ==
  /\ \A i \in 1 .. at - 1 : ~Nearer(q, vectors[n], vectors[order[i]])
  /\ at <= Len(order) => Nearer(q, vectors[n], vectors[order[at]])
  /\ \A i \in 1 .. Len(order) + 1 : p[i] = IF i < at THEN order[i] ELSE IF i = at THEN n ELSE order[i - 1]

\* Placed puts n at one place, before the first it is nearer than.
LEMMA PlacedIs ==
  ASSUME NEW q, NEW vectors, NEW order \in Seq(Nat), NEW n \in Nat
  PROVE  /\ Placed(q, vectors, order, n) \in Seq(Nat)
         /\ Len(Placed(q, vectors, order, n)) = Len(order) + 1
         /\ \E at \in 1 .. Len(order) + 1 : PutAt(Placed(q, vectors, order, n), at, q, vectors, order, n)
<1> DEFINE L == Len(order)
           further == {i \in DOMAIN order : Nearer(q, vectors[n], vectors[order[i]])}
           at == IF further = {} THEN L + 1 ELSE Min(further)
           p == [i \in 1 .. L + 1 |-> IF i < at THEN order[i] ELSE IF i = at THEN n ELSE order[i - 1]]
<1>1. Placed(q, vectors, order, n) = p
  BY DEF Placed
<1>2. L \in Nat /\ DOMAIN order = 1 .. L /\ \A i \in 1 .. L : order[i] \in Nat
  OBVIOUS
<1>3. further \in SUBSET Nat
  BY <1>2
<1>4. /\ at \in 1 .. L + 1
      /\ \A i \in 1 .. at - 1 : ~Nearer(q, vectors[n], vectors[order[i]])
      /\ at <= L => Nearer(q, vectors[n], vectors[order[at]])
  <2>1. CASE further = {}
    <3>1. at = L + 1
      BY <2>1
    <3>2. \A i \in 1 .. at - 1 : i \in DOMAIN order
      BY <1>2, <3>1
    <3> QED BY <1>2, <2>1, <3>1, <3>2
  <2>2. CASE further # {}
    <3> HIDE DEF further
    <3>1. at = Min(further) /\ Min(further) \in further /\ \A y \in further : Min(further) <= y
      BY <1>3, <2>2, MinIs
    <3> HIDE DEF at
    <3>2. at \in 1 .. L /\ Nearer(q, vectors[n], vectors[order[at]])
      BY <1>2, <3>1 DEF further
    <3>3. ASSUME NEW i \in 1 .. at - 1, Nearer(q, vectors[n], vectors[order[i]]) PROVE FALSE
      <4>1. i \in DOMAIN order /\ i < at /\ i \in Int /\ at \in Int
        BY <1>2, <3>2
      <4>2. i \in further
        BY <3>3, <4>1 DEF further
      <4> QED BY <3>1, <4>1, <4>2
    <3> QED BY <1>2, <3>2, <3>3
  <2> QED BY <2>1, <2>2
<1> HIDE DEF further, at, L
<1>5. p \in Seq(Nat) /\ Len(p) = L + 1
  <2>1. \A i \in 1 .. L + 1 : p[i] \in Nat
    BY <1>2, <1>4
  <2>2. L + 1 \in Nat
    BY <1>2
  <2> QED BY <2>1, <2>2
<1>6. \A i \in 1 .. L + 1 : p[i] = IF i < at THEN order[i] ELSE IF i = at THEN n ELSE order[i - 1]
  OBVIOUS
<1> HIDE DEF p
<1>7. at \in 1 .. L + 1 /\ PutAt(p, at, q, vectors, order, n)
  BY <1>4, <1>6 DEF PutAt, L
<1> QED BY <1>1, <1>5, <1>7 DEF L

\* The rankings of the numbers so far.
RankSteps(f, q, vectors, of, last) ==
  /\ f \in [0 .. last -> Seq(Nat)] /\ f[0] = <<>>
  /\ \A n \in 1 .. last :
       f[n] = IF n \in of /\ Similar(q, vectors[n]) THEN Placed(q, vectors, f[n - 1], n) ELSE f[n - 1]

\* Ranked inserts one number after the other.
LEMMA RankedIs ==
  ASSUME NEW q, NEW vectors, NEW of, NEW last \in Nat
  PROVE  \E f : RankSteps(f, q, vectors, of, last) /\ Ranked(q, vectors, of, last) = f[last]
<1> DEFINE Body(n, s) == IF n \in of /\ Similar(q, vectors[n]) THEN Placed(q, vectors, s, n) ELSE s
           g == [n \in 1 .. last |-> [s \in Seq(Nat) |-> Body(n, s)]]
           Eq(h) == h = [n \in 0 .. last |->
                          IF n = 0 THEN <<>>
                          ELSE IF n \in of /\ Similar(q, vectors[n]) THEN Placed(q, vectors, h[n - 1], n)
                          ELSE h[n - 1]]
           f == CHOOSE h : Eq(h)
<1>1. Ranked(q, vectors, of, last) = f[last]
  BY DEF Ranked
<1>2. \A n \in 1 .. last, s \in Seq(Nat) : Body(n, s) \in Seq(Nat)
  <2> TAKE n \in 1 .. last, s \in Seq(Nat)
  <2>1. n \in Nat
    OBVIOUS
  <2>2. Placed(q, vectors, s, n) \in Seq(Nat)
    BY <2>1, PlacedIs
  <2> QED BY <2>2
<1> HIDE DEF Body
<1>3. IsStep(g, last, Seq(Nat)) /\ \A n \in 1 .. last, s \in Seq(Nat) : g[n][s] = Body(n, s)
  BY <1>2 DEF IsStep
<1> HIDE DEF g
<1>4. PICK h : Iterates(h, last, Seq(Nat), <<>>, g)
  <2>1. <<>> \in Seq(Nat)
    OBVIOUS
  <2> QED BY Zenon, <1>3, <2>1, Recursion
<1>5. h \in [0 .. last -> Seq(Nat)] /\ h[0] = <<>> /\ \A n \in 1 .. last : h[n] = Body(n, h[n - 1])
  <2>1. h \in [0 .. last -> Seq(Nat)] /\ h[0] = <<>> /\ \A n \in 1 .. last : h[n] = g[n][h[n - 1]]
    BY <1>4 DEF Iterates
  <2>2. \A n \in 1 .. last : h[n - 1] \in Seq(Nat)
    BY <2>1
  <2> QED BY <1>3, <2>1, <2>2
<1>6. Eq(h)
  BY <1>5 DEF Body
<1>7. Eq(f)
  BY <1>6
<1> HIDE DEF f
<1>8. f[0] = <<>> /\ f = [n \in 0 .. last |-> f[n]] /\ \A n \in 1 .. last : f[n] = Body(n, f[n - 1])
  BY <1>7 DEF Body
<1>9. Iterates(f, last, Seq(Nat), <<>>, g)
  <2>1. \A n \in 1 .. last : f[n - 1] \in Seq(Nat) => f[n] = g[n][f[n - 1]]
    BY <1>3, <1>8
  <2>2. <<>> \in Seq(Nat)
    OBVIOUS
  <2> QED BY Zenon, <1>3, <1>8, <2>1, <2>2, Unfolds
<1> QED BY <1>1, <1>8, <1>9 DEF RankSteps, Body, Iterates

\* The numbers a ranking is of.
Wanted(n, q, vectors, of) == n \in of /\ Similar(q, vectors[n])

\* A ranking: the wanted numbers up to n, each once, none after one that is
\* further, and of two as near the one put in first before the other.
InOrder(s, n, q, vectors, of) ==
  /\ s \in Seq(Nat)
  /\ \A i \in 1 .. Len(s) : s[i] \in 1 .. n /\ Wanted(s[i], q, vectors, of)
  /\ \A m \in 1 .. n : Wanted(m, q, vectors, of) => \E i \in 1 .. Len(s) : s[i] = m
  /\ \A i, j \in 1 .. Len(s) : i < j =>
       /\ s[i] # s[j] /\ ~Nearer(q, vectors[s[j]], vectors[s[i]])
       /\ s[j] < s[i] => Nearer(q, vectors[s[i]], vectors[s[j]])

\* Placing the next number keeps a ranking one.
LEMMA PlacedInOrder ==
  ASSUME NEW q \in Seq(Int), NEW vectors, NEW of, NEW n \in Nat \ {0}, NEW s,
         InOrder(s, n - 1, q, vectors, of), Wanted(n, q, vectors, of),
         \A m \in of : m \in 1 .. n => vectors[m] \in Seq(Int)
  PROVE  InOrder(Placed(q, vectors, s, n), n, q, vectors, of)
<1>0. s \in Seq(Nat) /\ n \in Nat
  BY DEF InOrder
<1>2. /\ Placed(q, vectors, s, n) \in Seq(Nat)
      /\ Len(Placed(q, vectors, s, n)) = Len(s) + 1
      /\ \E at \in 1 .. Len(s) + 1 : PutAt(Placed(q, vectors, s, n), at, q, vectors, s, n)
  BY Zenon, <1>0, PlacedIs
<1> DEFINE p == Placed(q, vectors, s, n)
           L == Len(s)
           V(m) == vectors[m]
<1>1. L \in Nat /\ p \in Seq(Nat) /\ Len(p) = L + 1
  BY <1>0, <1>2
<1>3. PICK at \in 1 .. L + 1 :
        /\ \A i \in 1 .. at - 1 : ~Nearer(q, V(n), V(s[i]))
        /\ at <= L => Nearer(q, V(n), V(s[at]))
        /\ \A i \in 1 .. L + 1 : p[i] = IF i < at THEN s[i] ELSE IF i = at THEN n ELSE s[i - 1]
  BY <1>2 DEF PutAt
<1>4. \A i \in 1 .. L : s[i] \in 1 .. n - 1 /\ Wanted(s[i], q, vectors, of)
  BY DEF InOrder
<1>5. \A i, j \in 1 .. L : i < j =>
       /\ s[i] # s[j] /\ ~Nearer(q, V(s[j]), V(s[i]))
       /\ s[j] < s[i] => Nearer(q, V(s[i]), V(s[j]))
  BY DEF InOrder
<1>6. \A m \in 1 .. n - 1 : Wanted(m, q, vectors, of) => \E i \in 1 .. L : s[i] = m
  BY DEF InOrder
<1>7. V(n) \in Seq(Int) /\ Similar(q, V(n)) /\ \A i \in 1 .. L : V(s[i]) \in Seq(Int) /\ Similar(q, V(s[i]))
  <2>1. \A i \in 1 .. L : s[i] \in of /\ s[i] \in 1 .. n
    BY <1>4 DEF Wanted
  <2>2. n \in of /\ n \in 1 .. n
    BY DEF Wanted
  <2> QED BY <1>4, <2>1, <2>2 DEF Wanted
<1> HIDE DEF p, L, V
<1>8. \A i \in 1 .. L : at <= i => Nearer(q, V(n), V(s[i])) /\ ~Nearer(q, V(s[i]), V(n))
  <2> SUFFICES ASSUME NEW i \in 1 .. L, at <= i PROVE Nearer(q, V(n), V(s[i])) /\ ~Nearer(q, V(s[i]), V(n))
    OBVIOUS
  <2>1. at \in 1 .. L /\ Nearer(q, V(n), V(s[at]))
    BY <1>1, <1>3
  <2>2. at # i => ~Nearer(q, V(s[i]), V(s[at]))
    BY <1>5, <2>1
  <2>3. Nearer(q, V(n), V(s[i]))
    BY <1>7, <2>1, <2>2, NearerIs
  <2> QED BY <1>7, <2>3, NearerIs
<1>9. \A i \in 1 .. L + 1 : p[i] \in 1 .. n /\ Wanted(p[i], q, vectors, of)
  <2> TAKE i \in 1 .. L + 1
  <2>1. CASE i < at
    <3>1. p[i] = s[i] /\ i \in 1 .. L
      BY <1>1, <1>3, <2>1
    <3> QED BY <1>4, <3>1
  <2>2. CASE i = at
    BY <1>3, <2>2
  <2>3. CASE i > at
    <3>1. p[i] = s[i - 1] /\ i - 1 \in 1 .. L
      BY <1>1, <1>3, <2>3
    <3> QED BY <1>4, <3>1
  <2> QED BY <1>3, <2>1, <2>2, <2>3
<1>10. \A m \in 1 .. n : Wanted(m, q, vectors, of) => \E i \in 1 .. L + 1 : p[i] = m
  <2> SUFFICES ASSUME NEW m \in 1 .. n, Wanted(m, q, vectors, of) PROVE \E i \in 1 .. L + 1 : p[i] = m
    OBVIOUS
  <2>1. CASE m = n
    BY <1>3, <2>1
  <2>2. CASE m # n
    <3>1. PICK i \in 1 .. L : s[i] = m
      BY <1>6, <2>2
    <3>2. CASE i < at
      BY <1>1, <1>3, <3>1, <3>2
    <3>3. CASE i >= at
      <4>1. i + 1 \in 1 .. L + 1 /\ i + 1 > at /\ (i + 1) - 1 = i
        BY <1>1, <1>3, <3>3
      <4>2. p[i + 1] = s[i]
        BY <1>3, <4>1
      <4> QED BY <3>1, <4>1, <4>2
    <3> QED BY <1>3, <3>2, <3>3
  <2> QED BY <2>1, <2>2
<1>11. ASSUME NEW i \in 1 .. L + 1, NEW j \in 1 .. L + 1, i < j
       PROVE  /\ p[i] # p[j] /\ ~Nearer(q, V(p[j]), V(p[i]))
              /\ p[j] < p[i] => Nearer(q, V(p[i]), V(p[j]))
  <2>1. CASE j < at
    <3>1. p[i] = s[i] /\ p[j] = s[j] /\ i \in 1 .. L /\ j \in 1 .. L
      BY <1>1, <1>3, <1>11, <2>1
    <3> QED BY <1>5, <1>11, <3>1
  <2>2. CASE j = at
    <3>1. p[i] = s[i] /\ p[j] = n /\ i \in 1 .. L /\ i \in 1 .. at - 1
      BY <1>1, <1>3, <1>11, <2>2
    <3>2. s[i] \in 1 .. n - 1 /\ ~Nearer(q, V(n), V(s[i]))
      BY <1>3, <1>4, <3>1
    <3>3. s[i] # n /\ ~(n < s[i])
      BY <3>2
    <3> QED BY <3>1, <3>2, <3>3
  <2>3. CASE i < at /\ j > at
    <3>1. p[i] = s[i] /\ p[j] = s[j - 1] /\ i \in 1 .. L /\ j - 1 \in 1 .. L /\ i < j - 1
      BY <1>1, <1>3, <2>3
    <3> QED BY <1>5, <3>1
  <2>4. CASE i = at
    <3>1. p[i] = n /\ p[j] = s[j - 1] /\ j - 1 \in 1 .. L /\ at <= j - 1
      BY <1>1, <1>3, <1>11, <2>4
    <3>2. s[j - 1] \in 1 .. n - 1
      BY <1>4, <3>1
    <3>3. Nearer(q, V(n), V(s[j - 1])) /\ ~Nearer(q, V(s[j - 1]), V(n))
      BY <1>8, <3>1
    <3>4. s[j - 1] # n
      BY <3>2
    <3> QED BY <3>1, <3>3, <3>4
  <2>5. CASE i > at
    <3>1. i > at /\ j > at /\ i - 1 \in 1 .. L /\ j - 1 \in 1 .. L /\ i - 1 < j - 1
      BY <1>1, <1>11, <2>5
    <3>2. p[i] = s[i - 1] /\ p[j] = s[j - 1]
      BY <1>3, <3>1
    <3> QED BY <1>5, <3>1, <3>2
  <2> QED BY <1>3, <1>11, <2>1, <2>2, <2>3, <2>4, <2>5
<1> QED BY <1>1, <1>9, <1>10, <1>11 DEF InOrder, p, L, V

\* Ranked gives a ranking.
LEMMA RankedInOrder ==
  ASSUME NEW q \in Seq(Int), NEW vectors, NEW of, NEW last \in Nat,
         \A m \in of : m \in 1 .. last => vectors[m] \in Seq(Int)
  PROVE  InOrder(Ranked(q, vectors, of, last), last, q, vectors, of)
<1>1. PICK f : RankSteps(f, q, vectors, of, last) /\ Ranked(q, vectors, of, last) = f[last]
  BY RankedIs
<1>2. /\ f[0] = <<>> /\ \A n \in 0 .. last : f[n] \in Seq(Nat)
      /\ \A n \in 1 .. last : f[n] = IF Wanted(n, q, vectors, of) THEN Placed(q, vectors, f[n - 1], n) ELSE f[n - 1]
  BY <1>1 DEF RankSteps, Wanted
<1> DEFINE T == {n \in 0 .. last : InOrder(f[n], n, q, vectors, of)}
<1>3. 0 \in T
  BY <1>2 DEF InOrder
<1>4. ASSUME NEW n \in 1 .. last, n - 1 \in T PROVE n \in T
  <2>1. InOrder(f[n - 1], n - 1, q, vectors, of) /\ n \in Nat \ {0} /\ n \in 0 .. last
    BY <1>4
  <2>2. CASE Wanted(n, q, vectors, of)
    <3>1. \A m \in of : m \in 1 .. n => vectors[m] \in Seq(Int)
      OBVIOUS
    <3>2. InOrder(Placed(q, vectors, f[n - 1], n), n, q, vectors, of)
      BY <2>1, <2>2, <3>1, PlacedInOrder
    <3> QED BY <1>2, <2>1, <2>2, <3>2
  <2>3. CASE ~Wanted(n, q, vectors, of)
    <3>1. f[n] = f[n - 1]
      BY <1>2, <2>3
    <3>2. InOrder(f[n - 1], n, q, vectors, of)
      <4>1. \A m \in 1 .. n : m # n => m \in 1 .. n - 1
        OBVIOUS
      <4>2. \A m \in 1 .. n - 1 : m \in 1 .. n
        OBVIOUS
      <4> QED BY <2>1, <2>3, <4>1, <4>2 DEF InOrder
    <3> QED BY <2>1, <3>1, <3>2
  <2> QED BY <2>2, <2>3
<1> HIDE DEF T
<1>5. last \in T
  <2>1. \A n \in 0 .. last : n \in T
    BY <1>3, <1>4, UpTo
  <2> QED BY <2>1
<1> QED BY <1>1, <1>5 DEF T

\* t is the first k of s, or all of them.
TakenFrom(t, s, k) ==
  /\ Len(t) = (IF Len(s) < k THEN Len(s) ELSE k)
  /\ \A i \in 1 .. Len(t) : i \in 1 .. Len(s) /\ t[i] = s[i]

\* Take is what it says.
LEMMA TakeIs ==
  ASSUME NEW S, NEW s \in Seq(S), NEW k \in Nat
  PROVE  Take(s, k) \in Seq(S) /\ TakenFrom(Take(s, k), s, k)
<1> USE DEF TakenFrom
<1> DEFINE l == IF Len(s) < k THEN Len(s) ELSE k
<1>1. Len(s) \in Nat /\ l \in 0 .. Len(s)
  OBVIOUS
<1>2. Take(s, k) = SubSeq(s, 1, l)
  BY DEF Take
<1> HIDE DEF l
<1>3. SubSeq(s, 1, l) \in Seq(S) /\ Len(SubSeq(s, 1, l)) = l /\ \A i \in 1 .. l : SubSeq(s, 1, l)[i] = s[i]
  BY <1>1
<1> QED BY <1>1, <1>2, <1>3 DEF l

\* A ranking of fewer is no longer.
LEMMA RanksFewer ==
  ASSUME NEW q, NEW vectors, NEW of, NEW some \in SUBSET of, NEW last \in Nat
  PROVE  Len(Ranked(q, vectors, some, last)) <= Len(Ranked(q, vectors, of, last))
<1>1. PICK f : RankSteps(f, q, vectors, of, last) /\ Ranked(q, vectors, of, last) = f[last]
  BY RankedIs
<1>2. PICK g : RankSteps(g, q, vectors, some, last) /\ Ranked(q, vectors, some, last) = g[last]
  BY RankedIs
<1>3. /\ f[0] = <<>> /\ g[0] = <<>> /\ \A n \in 0 .. last : f[n] \in Seq(Nat) /\ g[n] \in Seq(Nat)
      /\ \A n \in 1 .. last : f[n] = IF n \in of /\ Similar(q, vectors[n]) THEN Placed(q, vectors, f[n - 1], n) ELSE f[n - 1]
      /\ \A n \in 1 .. last : g[n] = IF n \in some /\ Similar(q, vectors[n]) THEN Placed(q, vectors, g[n - 1], n) ELSE g[n - 1]
  BY <1>1, <1>2 DEF RankSteps
<1> DEFINE T == {n \in 0 .. last : Len(g[n]) <= Len(f[n])}
<1>4. 0 \in T
  BY <1>3
<1>5. ASSUME NEW n \in 1 .. last, n - 1 \in T PROVE n \in T
  <2>1. Len(g[n - 1]) <= Len(f[n - 1]) /\ n \in 0 .. last /\ n \in Nat /\ f[n - 1] \in Seq(Nat) /\ g[n - 1] \in Seq(Nat)
    BY <1>3, <1>5
  <2>2. /\ Len(Placed(q, vectors, f[n - 1], n)) = Len(f[n - 1]) + 1
        /\ Len(Placed(q, vectors, g[n - 1], n)) = Len(g[n - 1]) + 1
    BY Zenon, <2>1, PlacedIs
  <2>3. /\ Len(f[n - 1]) \in Nat /\ Len(g[n - 1]) \in Nat
    BY <2>1
  <2>4. CASE n \in some /\ Similar(q, vectors[n])
    <3>1. f[n] = Placed(q, vectors, f[n - 1], n) /\ g[n] = Placed(q, vectors, g[n - 1], n)
      BY <1>3, <2>4
    <3> QED BY <2>1, <2>2, <2>3, <3>1
  <2>5. CASE ~(n \in some /\ Similar(q, vectors[n]))
    <3>1. g[n] = g[n - 1] /\ (f[n] = f[n - 1] \/ f[n] = Placed(q, vectors, f[n - 1], n))
      BY <1>3, <2>5
    <3> QED BY <2>1, <2>2, <2>3, <3>1
  <2> QED BY <2>4, <2>5
<1> HIDE DEF T
<1>6. last \in T
  <2>1. \A n \in 0 .. last : n \in T
    BY <1>4, <1>5, UpTo
  <2> QED BY <2>1
<1> QED BY <1>1, <1>2, <1>6 DEF T

\* A ranking of fewer starts with the first of all, if that is one of them.
LEMMA FirstOfFewer ==
  ASSUME NEW q, NEW vectors, NEW of, NEW some \in SUBSET of, NEW last \in Nat, NEW e, NEW a,
         InOrder(e, last, q, vectors, of), InOrder(a, last, q, vectors, some), e # <<>>, e[1] \in some
  PROVE  a # <<>> /\ a[1] = e[1]
<1> DEFINE m == e[1]
<1>1. e \in Seq(Nat) /\ a \in Seq(Nat) /\ Len(e) \in Nat /\ Len(a) \in Nat /\ 1 \in 1 .. Len(e)
  BY DEF InOrder
<1>2. m \in 1 .. last /\ Wanted(m, q, vectors, some)
  BY <1>1 DEF InOrder, Wanted
<1>3. PICK j \in 1 .. Len(a) : a[j] = m
  BY <1>2 DEF InOrder
<1>4. a # <<>> /\ 1 \in 1 .. Len(a)
  BY <1>1, <1>3
<1>5. ASSUME a[1] # m PROVE FALSE
  <2> DEFINE r == a[1]
  <2>1. r \in 1 .. last /\ Wanted(r, q, vectors, of)
    BY <1>4 DEF InOrder, Wanted
  <2>2. PICK i \in 1 .. Len(e) : e[i] = r
    BY <2>1 DEF InOrder
  <2>3. 1 < i /\ 1 < j
    BY <1>3, <1>5, <2>2
  <2>4. ~Nearer(q, vectors[r], vectors[m]) /\ (r < m => Nearer(q, vectors[m], vectors[r]))
    BY <1>1, <2>2, <2>3 DEF InOrder
  <2>5. ~Nearer(q, vectors[m], vectors[r]) /\ (m < r => Nearer(q, vectors[r], vectors[m]))
    BY <1>3, <1>4, <2>3 DEF InOrder
  <2> QED BY <1>2, <1>5, <2>1, <2>4, <2>5
<1> QED BY <1>4, <1>5

\* A vector that points the way q does is a candidate: it has q's signature.
LEMMA PerfectIsCandidate ==
  ASSUME NEW q \in Seq(Int), NEW radius \in Nat, ann \in Seq(Seq(Int)), NEW i \in DOMAIN ann,
         Similar(q, ann[i]), Dot(q, ann[i]) * Dot(q, ann[i]) = Norm2(q) * Norm2(ann[i])
  PROVE  i \in AnnCandidates(q, radius)
<1> DEFINE v == ann[i]
<1>1. v \in Seq(Int) /\ Len(v) = Len(q)
  BY DEF Similar
<1>2. 1 \in DOMAIN Planes /\ \A k \in DOMAIN Planes[1] : Planes[1][k] \in Seq(Int)
  BY RecallAssumption
<1>3. Signature(1, v) = Signature(1, q)
  <2>1. ASSUME NEW k \in DOMAIN Planes[1], Len(q) = Len(Planes[1][k])
        PROVE  Dot(q, Planes[1][k]) > 0 <=> Dot(v, Planes[1][k]) > 0
    BY <1>1, <1>2, <2>1, ParallelSides
  <2> QED BY <1>1, <2>1 DEF Signature
<1> DEFINE s == Signature(1, q)
<1>4. s \in HammingBall(s, radius, DOMAIN Planes[1])
  <2>1. (s \ s) \cup (s \ s) = {} /\ Cardinality({}) = 0
    BY FS_EmptySet
  <2>2. s \in SUBSET DOMAIN Planes[1]
    BY DEF Signature
  <2>3. 0 <= radius
    OBVIOUS
  <2> HIDE DEF s
  <2> QED BY <2>1, <2>2, <2>3 DEF HammingBall
<1> QED BY <1>2, <1>3, <1>4 DEF AnnCandidates

\* The approximate ranking a agrees with the exact one e.
Agrees(q, e, a) ==
  /\ Len(a) <= Len(e)
  /\ \A i \in DOMAIN a : Similar(q, ann[a[i]])
  /\ \A i, j \in DOMAIN a : i < j =>
       /\ ~Nearer(q, ann[a[j]], ann[a[i]])
       /\ a[j] < a[i] => Nearer(q, ann[a[i]], ann[a[j]])
  /\ e # <<>> /\ Dot(q, ann[e[1]]) * Dot(q, ann[e[1]]) = Norm2(q) * Norm2(ann[e[1]]) => a # <<>> /\ a[1] = e[1]

\* What AskNearest records agrees.
LEMMA AskedAgrees ==
  ASSUME NEW q \in Seq(Int), NEW k \in Nat, NEW radius \in Nat, ann \in Seq(Seq(Int))
  PROVE  Agrees(q, VectorNearest(q, k), AnnNearest(q, k, radius))
<1> DEFINE all == DOMAIN ann
           some == AnnCandidates(q, radius)
           E == Ranked(q, ann, all, Len(ann))
           A == Ranked(q, ann, some, Len(ann))
           e == Take(E, k)
           a == Take(A, k)
<1>1. VectorNearest(q, k) = e /\ AnnNearest(q, k, radius) = a
  BY DEF VectorNearest, AnnNearest
<1>2. some \in SUBSET all /\ Len(ann) \in Nat /\ all = 1 .. Len(ann) /\ \A m \in all : ann[m] \in Seq(Int)
  BY DEF AnnCandidates
<1> HIDE DEF all, some
<1>3. InOrder(E, Len(ann), q, ann, all) /\ InOrder(A, Len(ann), q, ann, some)
  <2>1. \A m \in all : m \in 1 .. Len(ann) => ann[m] \in Seq(Int)
    BY <1>2
  <2>2. \A m \in some : m \in 1 .. Len(ann) => ann[m] \in Seq(Int)
    BY <1>2
  <2> QED BY <1>2, <2>1, <2>2, RankedInOrder
<1>4. Len(A) <= Len(E)
  BY <1>2, RanksFewer
<1> HIDE DEF E, A
<1>5. E \in Seq(Nat) /\ A \in Seq(Nat) /\ Len(E) \in Nat /\ Len(A) \in Nat
  BY <1>3 DEF InOrder
<1>t. e \in Seq(Nat) /\ TakenFrom(e, E, k) /\ a \in Seq(Nat) /\ TakenFrom(a, A, k)
  BY Zenon, <1>5, TakeIs
<1>6. /\ e \in Seq(Nat) /\ Len(e) = (IF Len(E) < k THEN Len(E) ELSE k)
      /\ \A i \in 1 .. Len(e) : i \in 1 .. Len(E) /\ e[i] = E[i]
  BY <1>t DEF TakenFrom
<1>7. /\ a \in Seq(Nat) /\ Len(a) = (IF Len(A) < k THEN Len(A) ELSE k)
      /\ \A i \in 1 .. Len(a) : i \in 1 .. Len(A) /\ a[i] = A[i]
  BY <1>t DEF TakenFrom
<1> HIDE DEF e, a
<1>8. Len(a) <= Len(e)
  BY <1>4, <1>5, <1>6, <1>7
<1>9. \A i \in DOMAIN a : Similar(q, ann[a[i]])
  <2> TAKE i \in DOMAIN a
  <2>0. i \in 1 .. Len(a)
    <3>1. a \in Seq(Nat)
      BY <1>7
    <3> QED BY <3>1
  <2>1. i \in 1 .. Len(A) /\ a[i] = A[i]
    BY <1>7, <2>0
  <2> QED BY <1>3, <2>1 DEF InOrder, Wanted
<1>11. ASSUME NEW i \in DOMAIN a, NEW j \in DOMAIN a, i < j
       PROVE  ~Nearer(q, ann[a[j]], ann[a[i]]) /\ (a[j] < a[i] => Nearer(q, ann[a[i]], ann[a[j]]))
  <2>0. i \in 1 .. Len(a) /\ j \in 1 .. Len(a)
    <3>1. a \in Seq(Nat)
      BY <1>7
    <3> QED BY <3>1
  <2>1. i \in 1 .. Len(A) /\ a[i] = A[i] /\ j \in 1 .. Len(A) /\ a[j] = A[j]
    BY <1>7, <2>0
  <2> QED BY <1>3, <1>11, <2>1 DEF InOrder
<1>10. ASSUME e # <<>>, Dot(q, ann[e[1]]) * Dot(q, ann[e[1]]) = Norm2(q) * Norm2(ann[e[1]])
       PROVE  a # <<>> /\ a[1] = e[1]
  <2>1. Len(e) \in Nat /\ Len(e) > 0 /\ 1 \in 1 .. Len(e)
    BY <1>6, <1>10
  <2>2. k > 0 /\ 1 \in 1 .. Len(E) /\ e[1] = E[1]
    BY <1>5, <1>6, <2>1
  <2>3. E[1] \in all /\ Similar(q, ann[E[1]])
    BY <1>2, <1>3, <2>2 DEF InOrder, Wanted
  <2>4. E[1] \in some
    BY <1>10, <2>2, <2>3, PerfectIsCandidate DEF all, some
  <2>5. E # <<>>
    BY <1>5, <2>2
  <2>6. A # <<>> /\ A[1] = E[1]
    <3>1. some \in SUBSET all /\ Len(ann) \in Nat
      BY <1>2
    <3> DEFINE L == Len(ann)  w == ann
    <3>2. InOrder(E, L, q, w, all) /\ InOrder(A, L, q, w, some) /\ L \in Nat
      BY <1>3, <3>1
    <3> HIDE DEF L, w
    <3> QED BY ONLY <2>4, <2>5, <3>1, <3>2, FirstOfFewer
  <2>7. Len(A) > 0
    BY <1>5, <2>6
  <2>8. Len(a) > 0 /\ 1 \in 1 .. Len(a)
    BY <1>5, <1>7, <2>2, <2>7
  <2> QED BY <1>7, <2>2, <2>6, <2>8
<1> QED BY <1>1, <1>8, <1>9, <1>10, <1>11 DEF Agrees

(***************************************************************************)
(* The context of a query.                                                 *)
(***************************************************************************)
ChunkRecord == [id : STRING, text : STRING, vec : Seq(Int), size : Nat]

\* The fields of a chunk that the proofs use.
LEMMA RecordIs ==
  ASSUME NEW c \in ChunkRecord
  PROVE  c.size \in Nat /\ c.vec \in Seq(Int) /\ Cut(c.size) \in Nat
<1>1. c.size \in Nat /\ c.vec \in Seq(Int)
  BY DEF ChunkRecord
<1> QED BY <1>1, RecallAssumption DEF Cut

Sizes(g, f) ==
  /\ g \in [0 .. Len(f) -> Nat] /\ g[0] = 0
  /\ \A n \in 1 .. Len(f) : g[n] = g[n - 1] + Cut(f[n].size)

\* BundleBytes is the last of the partial sums.
LEMMA BytesAre ==
  ASSUME NEW f \in Seq(ChunkRecord)
  PROVE  \E g : Sizes(g, f) /\ BundleBytes(f) = g[Len(f)]
<1> DEFINE N == Len(f)
           S == Nat
           Z == 0
           Body(n, s) == s + Cut(f[n].size)
           step == [n \in 1 .. N |-> [s \in S |-> Body(n, s)]]
           Eq(h) == h = [n \in 0 .. N |-> IF n = 0 THEN Z ELSE Body(n, h[n - 1])]
           g == CHOOSE h : Eq(h)
<1>1. N \in Nat /\ Z \in S /\ \A n \in 1 .. N, s \in S : Body(n, s) \in S
  <2>1. \A n \in 1 .. N : f[n] \in ChunkRecord
    OBVIOUS
  <2>2. \A n \in 1 .. N : Cut(f[n].size) \in Nat
    BY <2>1, RecordIs
  <2> QED BY <2>2
<1>2. BundleBytes(f) = g[N]
  BY DEF BundleBytes
<1> HIDE DEF N, Body, S, Z
<1>3. IsStep(step, N, S) /\ \A n \in 1 .. N, s \in S : step[n][s] = Body(n, s)
  BY <1>1 DEF IsStep
<1> HIDE DEF step
<1>4. PICK h : Iterates(h, N, S, Z, step)
  BY Zenon, <1>1, <1>3, Recursion
<1>5. h \in [0 .. N -> S] /\ h[0] = Z /\ \A n \in 1 .. N : h[n] = Body(n, h[n - 1])
  <2>1. h \in [0 .. N -> S] /\ h[0] = Z /\ \A n \in 1 .. N : h[n] = step[n][h[n - 1]]
    BY <1>4 DEF Iterates
  <2>2. \A n \in 1 .. N : h[n - 1] \in S
    BY <1>1, <2>1
  <2> QED BY <1>3, <2>1, <2>2
<1>6. Eq(h)
  BY <1>1, <1>5
<1>7. Eq(g)
  BY <1>6
<1> HIDE DEF g
<1>8. g[0] = Z /\ g = [n \in 0 .. N |-> g[n]] /\ \A n \in 1 .. N : g[n] = Body(n, g[n - 1])
  BY <1>1, <1>7
<1>9. Iterates(g, N, S, Z, step)
  <2>1. \A n \in 1 .. N : g[n - 1] \in S => g[n] = step[n][g[n - 1]]
    BY <1>3, <1>8
  <2> QED BY Zenon, <1>1, <1>3, <1>8, <2>1, Unfolds
<1> QED BY <1>2, <1>8, <1>9 DEF N, Sizes, Iterates, Body, S, Z

\* One fragment more adds its bytes.
LEMMA BytesAdded ==
  ASSUME NEW f \in Seq(ChunkRecord), NEW c \in ChunkRecord
  PROVE  BundleBytes(f) \in Nat /\ BundleBytes(Append(f, c)) = BundleBytes(f) + Cut(c.size)
<1> DEFINE e == Append(f, c)
           N == Len(f)
<1>1. e \in Seq(ChunkRecord) /\ N \in Nat /\ Len(e) = N + 1 /\ e[N + 1] = c /\ \A n \in 1 .. N : e[n] = f[n]
  OBVIOUS
<1>2. PICK g : Sizes(g, f) /\ BundleBytes(f) = g[N]
  BY BytesAre
<1>3. PICK h : Sizes(h, e) /\ BundleBytes(e) = h[N + 1]
  BY <1>1, BytesAre
<1>4. /\ g \in [0 .. N -> Nat] /\ g[0] = 0 /\ \A n \in 1 .. N : g[n] = g[n - 1] + Cut(f[n].size)
      /\ h[0] = 0 /\ \A n \in 1 .. N + 1 : h[n] = h[n - 1] + Cut(e[n].size)
  BY <1>1, <1>2, <1>3 DEF Sizes
<1> HIDE DEF e, N
<1> DEFINE T == {n \in 0 .. N : g[n] = h[n]}
<1>5. 0 \in T
  BY <1>1, <1>4
<1>6. ASSUME NEW n \in 1 .. N, n - 1 \in T PROVE n \in T
  <2>1. n \in 0 .. N /\ n \in 1 .. N + 1 /\ g[n - 1] = h[n - 1] /\ e[n] = f[n]
    BY <1>1, <1>6
  <2> QED BY <1>4, <2>1
<1> HIDE DEF T
<1>7. g[N] = h[N]
  <2>1. \A n \in 0 .. N : n \in T
    BY <1>1, <1>5, <1>6, UpTo
  <2> QED BY <1>1, <2>1 DEF T
<1>8. h[N + 1] = h[N] + Cut(c.size)
  <2>1. N + 1 \in 1 .. N + 1 /\ (N + 1) - 1 = N
    BY <1>1
  <2> QED BY <1>1, <1>4, <2>1
<1>9. g[N] \in Nat
  BY <1>1, <1>4
<1> QED BY <1>2, <1>3, <1>7, <1>8, <1>9 DEF e

\* An empty bundle has no bytes.
LEMMA NoBytes == BundleBytes(<<>>) = 0
<1>1. <<>> \in Seq(ChunkRecord) /\ Len(<<>>) = 0
  OBVIOUS
<1>2. PICK g : Sizes(g, <<>>) /\ BundleBytes(<<>>) = g[Len(<<>>)]
  BY <1>1, BytesAre
<1> QED BY <1>1, <1>2 DEF Sizes

\* The chunks a hit names for the first time.
FoundAt(ns, hits, n) == {c \in Known(ns) : c.id = hits[n] /\ \A j \in 1 .. n - 1 : hits[j] # hits[n]}

\* The chunks taken for the hits so far.
ResolveSteps(f, ns, hits) ==
  /\ f \in [0 .. Len(hits) -> Seq(ChunkRecord)] /\ f[0] = <<>>
  /\ \A n \in 1 .. Len(hits) :
       \/ f[n] = f[n - 1]
       \/ \E c \in FoundAt(ns, hits, n) : f[n] = Append(f[n - 1], c)

\* Resolved takes one hit after the other.
LEMMA ResolvedIs ==
  ASSUME NEW ns, Known(ns) \in SUBSET ChunkRecord, NEW hits, Len(hits) \in Nat
  PROVE  \E f : ResolveSteps(f, ns, hits) /\ Resolved(ns, hits) = f[Len(hits)]
<1> DEFINE S == Seq(ChunkRecord)
           N == Len(hits)
           Body(n, s) == IF FoundAt(ns, hits, n) = {} THEN s ELSE Append(s, CHOOSE c \in FoundAt(ns, hits, n) : TRUE)
           step == [n \in 1 .. N |-> [s \in S |-> Body(n, s)]]
           Eq(h) == h = [n \in 0 .. N |-> IF n = 0 THEN <<>> ELSE Body(n, h[n - 1])]
           f == CHOOSE h : Eq(h)
<1>1. Resolved(ns, hits) = f[N]
  BY DEF Resolved, FoundAt
<1>2. \A n \in 1 .. N : FoundAt(ns, hits, n) \in SUBSET ChunkRecord
  BY DEF FoundAt
<1>3. \A n \in 1 .. N, s \in S : Body(n, s) \in S /\ (Body(n, s) = s \/ \E c \in FoundAt(ns, hits, n) : Body(n, s) = Append(s, c))
  <2> TAKE n \in 1 .. N, s \in S
  <2>1. CASE FoundAt(ns, hits, n) = {}
    BY <2>1
  <2>2. CASE FoundAt(ns, hits, n) # {}
    <3>1. PICK c \in FoundAt(ns, hits, n) : Body(n, s) = Append(s, c)
      BY <2>2
    <3>2. c \in ChunkRecord
      BY <1>2, <3>1
    <3> HIDE DEF Body
    <3> QED BY <3>1, <3>2
  <2> QED BY <2>1, <2>2
<1> HIDE DEF Body, N, S
<1>4. IsStep(step, N, S) /\ \A n \in 1 .. N, s \in S : step[n][s] = Body(n, s)
  BY <1>3 DEF IsStep
<1> HIDE DEF step
<1>5. N \in Nat /\ <<>> \in S
  BY DEF N, S
<1>6. PICK h : Iterates(h, N, S, <<>>, step)
  BY Zenon, <1>4, <1>5, Recursion
<1>7. h \in [0 .. N -> S] /\ h[0] = <<>> /\ \A n \in 1 .. N : h[n] = Body(n, h[n - 1])
  <2>1. h \in [0 .. N -> S] /\ h[0] = <<>> /\ \A n \in 1 .. N : h[n] = step[n][h[n - 1]]
    BY <1>6 DEF Iterates
  <2>2. \A n \in 1 .. N : h[n - 1] \in S
    BY <1>5, <2>1
  <2> QED BY <1>4, <2>1, <2>2
<1>8. Eq(h)
  BY <1>5, <1>7
<1>9. Eq(f)
  BY <1>8
<1> HIDE DEF f
<1>10. f[0] = <<>> /\ f = [n \in 0 .. N |-> f[n]] /\ \A n \in 1 .. N : f[n] = Body(n, f[n - 1])
  BY <1>5, <1>9
<1>11. Iterates(f, N, S, <<>>, step)
  <2>1. \A n \in 1 .. N : f[n - 1] \in S => f[n] = step[n][f[n - 1]]
    BY <1>4, <1>10
  <2> QED BY Zenon, <1>4, <1>5, <1>10, <2>1, Unfolds
<1>12. f \in [0 .. N -> S] /\ \A n \in 1 .. N : f[n - 1] \in S
  <2>1. f \in [0 .. N -> S]
    BY <1>11 DEF Iterates
  <2> QED BY <1>5, <2>1
<1>13. \A n \in 1 .. N : f[n] = f[n - 1] \/ \E c \in FoundAt(ns, hits, n) : f[n] = Append(f[n - 1], c)
  BY <1>3, <1>10, <1>12
<1> QED BY <1>1, <1>10, <1>12, <1>13 DEF ResolveSteps, N, S

\* What Resolved returns is known, and no two of it have the same id.
LEMMA ResolvedOnce ==
  ASSUME NEW ns, Known(ns) \in SUBSET ChunkRecord, NEW hits, Len(hits) \in Nat
  PROVE  /\ Resolved(ns, hits) \in Seq(ChunkRecord)
         /\ \A i \in 1 .. Len(Resolved(ns, hits)) : Resolved(ns, hits)[i] \in Known(ns)
         /\ \A i, j \in 1 .. Len(Resolved(ns, hits)) : i # j => Resolved(ns, hits)[i].id # Resolved(ns, hits)[j].id
<1> DEFINE N == Len(hits)
<1>1. PICK f : ResolveSteps(f, ns, hits) /\ Resolved(ns, hits) = f[N]
  BY ResolvedIs
<1>2. /\ f \in [0 .. N -> Seq(ChunkRecord)] /\ f[0] = <<>>
      /\ \A n \in 1 .. N : f[n] = f[n - 1] \/ \E c \in FoundAt(ns, hits, n) : f[n] = Append(f[n - 1], c)
  BY <1>1 DEF ResolveSteps
<1> DEFINE Fine(n, s) == /\ \A i \in 1 .. Len(s) : s[i] \in Known(ns) /\ \E m \in 1 .. n : hits[m] = s[i].id
                         /\ \A i, j \in 1 .. Len(s) : i # j => s[i].id # s[j].id
           T == {n \in 0 .. N : Fine(n, f[n])}
<1>3. 0 \in T
  BY <1>2
<1>4. ASSUME NEW n \in 1 .. N, n - 1 \in T PROVE n \in T
  <2> DEFINE s == f[n - 1]
             L == Len(s)
  <2>1. n \in 0 .. N /\ n - 1 \in 0 .. N /\ \A m \in 1 .. n - 1 : m \in 1 .. n
    OBVIOUS
  <2>2. s \in Seq(ChunkRecord) /\ L \in Nat
    <3>1. s \in Seq(ChunkRecord)
      BY Zenon, <1>2, <2>1
    <3> HIDE DEF s
    <3> QED BY <3>1
  <2>3. /\ \A i \in 1 .. L : s[i] \in Known(ns) /\ \E m \in 1 .. n - 1 : hits[m] = s[i].id
        /\ \A i, j \in 1 .. L : i # j => s[i].id # s[j].id
    BY <1>4
  <2>4. Fine(n, s)
    BY <2>1, <2>3
  <2>5. ASSUME NEW c \in FoundAt(ns, hits, n), f[n] = Append(s, c) PROVE Fine(n, f[n])
    <3>1. c \in Known(ns) /\ c.id = hits[n] /\ \A m \in 1 .. n - 1 : hits[m] # hits[n]
      BY DEF FoundAt
    <3> DEFINE t == f[n]
    <3>2. Len(t) = L + 1 /\ t[L + 1] = c /\ \A i \in 1 .. L : t[i] = s[i]
      BY <2>2, <2>5, <3>1
    <3> HIDE DEF s, L, t
    <3>3. \A i \in 1 .. L + 1 : i = L + 1 \/ i \in 1 .. L
      BY <2>2
    <3>4. \A i \in 1 .. L : s[i].id # c.id
      BY <2>3, <3>1
    <3>5. \A i \in 1 .. L + 1 : t[i] \in Known(ns) /\ \E m \in 1 .. n : hits[m] = t[i].id
      <4> TAKE i \in 1 .. L + 1
      <4>1. CASE i = L + 1
        <5>1. n \in 1 .. n
          OBVIOUS
        <5> QED BY <3>1, <3>2, <4>1, <5>1
      <4>2. CASE i \in 1 .. L
        BY <2>1, <2>3, <3>2, <4>2
      <4> QED BY <3>3, <4>1, <4>2
    <3>6. \A i, j \in 1 .. L + 1 : i # j => t[i].id # t[j].id
      <4> TAKE i, j \in 1 .. L + 1
      <4>1. CASE i \in 1 .. L /\ j \in 1 .. L
        BY <2>3, <3>2, <4>1
      <4>2. CASE i = L + 1 /\ j \in 1 .. L
        BY <3>2, <3>4, <4>2
      <4>3. CASE i \in 1 .. L /\ j = L + 1
        BY <3>2, <3>4, <4>3
      <4> QED BY <3>3, <4>1, <4>2, <4>3
    <3> QED BY <3>2, <3>5, <3>6 DEF t
  <2>6. f[n] = s \/ \E c \in FoundAt(ns, hits, n) : f[n] = Append(s, c)
    BY <1>2
  <2> HIDE DEF Fine
  <2>7. Fine(n, f[n])
    BY <2>4, <2>5, <2>6
  <2> QED BY <2>1, <2>7
<1> HIDE DEF T
<1>5. N \in T
  <2>1. \A n \in 0 .. N : n \in T
    BY <1>3, <1>4, UpTo
  <2> QED BY <2>1
<1>6. Fine(N, f[N]) /\ f[N] \in Seq(ChunkRecord)
  BY <1>2, <1>5 DEF T
<1> QED BY <1>1, <1>6

\* A bundle being filled: what it keeps and the bytes used.
Filling == [kept : Seq(ChunkRecord), used : Nat]
Fits(acc, c) == Len(acc.kept) < FragmentsMax /\ acc.used + Cut(c.size) <= BundleMax
Filled(acc, c) == [kept |-> Append(acc.kept, c), used |-> acc.used + Cut(c.size)]

\* The bundles of the fragments so far.
FillSteps(f, ordered) ==
  /\ f \in [0 .. Len(ordered) -> Filling] /\ f[0] = [kept |-> <<>>, used |-> 0]
  /\ \A n \in 1 .. Len(ordered) :
       f[n] = f[n - 1] \/ (Fits(f[n - 1], ordered[n]) /\ f[n] = Filled(f[n - 1], ordered[n]))

\* build_bundle takes one fragment after the other.
LEMMA BundleIs ==
  ASSUME NEW ordered \in Seq(ChunkRecord)
  PROVE  \E f : FillSteps(f, ordered) /\ BuildBundle(ordered) = f[Len(ordered)]
<1> DEFINE S == Filling
           N == Len(ordered)
           Z == [kept |-> <<>>, used |-> 0]
           Body(n, s) == LET acc == s
                             size == Cut(ordered[n].size)
                         IN  IF Len(acc.kept) >= FragmentsMax \/ acc.used + size > BundleMax THEN acc
                             ELSE [kept |-> Append(acc.kept, ordered[n]), used |-> acc.used + size]
           step == [n \in 1 .. N |-> [s \in S |-> Body(n, s)]]
           Eq(h) == h = [n \in 0 .. N |-> IF n = 0 THEN Z ELSE Body(n, h[n - 1])]
           f == CHOOSE h : Eq(h)
<1>1. BuildBundle(ordered) = f[N]
  BY DEF BuildBundle
<1>2. N \in Nat /\ Z \in S
  BY DEF Filling
<1>3. \A n \in 1 .. N, s \in S : Body(n, s) \in S /\ (Body(n, s) = s \/ (Fits(s, ordered[n]) /\ Body(n, s) = Filled(s, ordered[n])))
  <2> TAKE n \in 1 .. N, s \in S
  <2> DEFINE c == ordered[n]
             k == s.kept
             u == s.used
             z == Cut(c.size)
  <2>1. c \in ChunkRecord
    OBVIOUS
  <2>2. z \in Nat
    BY <2>1, RecordIs
  <2>3. k \in Seq(ChunkRecord) /\ u \in Nat
    BY DEF Filling
  <2>4. Body(n, s) = IF Len(k) >= FragmentsMax \/ u + z > BundleMax THEN s ELSE [kept |-> Append(k, c), used |-> u + z]
    OBVIOUS
  <2>5. /\ Fits(s, c) <=> (Len(k) < FragmentsMax /\ u + z <= BundleMax)
        /\ Filled(s, c) = [kept |-> Append(k, c), used |-> u + z]
    BY DEF Fits, Filled
  <2> HIDE DEF c, k, u, z, Body
  <2>6. Append(k, c) \in Seq(ChunkRecord) /\ u + z \in Nat /\ Len(k) \in Nat
    BY <2>1, <2>2, <2>3
  <2>7. [kept |-> Append(k, c), used |-> u + z] \in Filling
    BY <2>6 DEF Filling
  <2>8. CASE Len(k) >= FragmentsMax \/ u + z > BundleMax
    BY <2>4, <2>8 DEF c
  <2>9. CASE ~(Len(k) >= FragmentsMax \/ u + z > BundleMax)
    <3>1. Len(k) < FragmentsMax /\ u + z <= BundleMax
      BY <2>6, <2>9, RecallAssumption
    <3> QED BY <2>4, <2>5, <2>7, <2>9, <3>1 DEF c
  <2> QED BY <2>8, <2>9
<1> HIDE DEF Body, N, S, Z
<1>4. IsStep(step, N, S) /\ \A n \in 1 .. N, s \in S : step[n][s] = Body(n, s)
  BY <1>3 DEF IsStep
<1> HIDE DEF step
<1>6. PICK h : Iterates(h, N, S, Z, step)
  BY Zenon, <1>2, <1>4, Recursion
<1>7. h \in [0 .. N -> S] /\ h[0] = Z /\ \A n \in 1 .. N : h[n] = Body(n, h[n - 1])
  <2>1. h \in [0 .. N -> S] /\ h[0] = Z /\ \A n \in 1 .. N : h[n] = step[n][h[n - 1]]
    BY <1>6 DEF Iterates
  <2>2. \A n \in 1 .. N : h[n - 1] \in S
    BY <1>2, <2>1
  <2> QED BY <1>4, <2>1, <2>2
<1>8. Eq(h)
  BY <1>2, <1>7
<1>9. Eq(f)
  BY <1>8
<1> HIDE DEF f
<1>10. f[0] = Z /\ f = [n \in 0 .. N |-> f[n]] /\ \A n \in 1 .. N : f[n] = Body(n, f[n - 1])
  BY <1>2, <1>9
<1>11. Iterates(f, N, S, Z, step)
  <2>1. \A n \in 1 .. N : f[n - 1] \in S => f[n] = step[n][f[n - 1]]
    BY <1>4, <1>10
  <2> QED BY Zenon, <1>2, <1>4, <1>10, <2>1, Unfolds
<1>12. f \in [0 .. N -> S] /\ \A n \in 1 .. N : f[n - 1] \in S
  <2>1. f \in [0 .. N -> S]
    BY <1>11 DEF Iterates
  <2> QED BY <1>2, <2>1
<1>13. \A n \in 1 .. N : f[n] = f[n - 1] \/ (Fits(f[n - 1], ordered[n]) /\ f[n] = Filled(f[n - 1], ordered[n]))
  BY <1>3, <1>10, <1>12
<1> QED BY <1>1, <1>10, <1>12, <1>13 DEF FillSteps, N, S, Z

\* Chunks that are known, none twice, none after one that is further.
Context(f, known, q) ==
  /\ f \in Seq(ChunkRecord) /\ \A i \in 1 .. Len(f) : f[i] \in known
  /\ \A i, j \in 1 .. Len(f) : i < j => f[i].id # f[j].id /\ ~Nearer(q, f[j].vec, f[i].vec)

\* build_bundle keeps them so, within its bounds.
LEMMA BundleKeeps ==
  ASSUME NEW known, NEW q, NEW ordered, Context(ordered, known, q)
  PROVE  /\ Context(BuildBundle(ordered).kept, known, q)
         /\ Len(BuildBundle(ordered).kept) <= FragmentsMax /\ BundleBytes(BuildBundle(ordered).kept) <= BundleMax
<1> DEFINE N == Len(ordered)
           o == ordered
<1>1. ordered \in Seq(ChunkRecord) /\ N \in Nat /\ \A n \in 1 .. N : o[n] \in ChunkRecord
  BY DEF Context
<1>2. PICK f : FillSteps(f, ordered) /\ BuildBundle(ordered) = f[N]
  BY <1>1, BundleIs
<1>3. /\ f \in [0 .. N -> Filling] /\ f[0] = [kept |-> <<>>, used |-> 0]
      /\ \A n \in 1 .. N : f[n] = f[n - 1] \/ (Fits(f[n - 1], o[n]) /\ f[n] = Filled(f[n - 1], o[n]))
  BY <1>2 DEF FillSteps
<1>4. /\ \A n \in 1 .. N : o[n] \in known
      /\ \A i, j \in 1 .. N : i < j => o[i].id # o[j].id /\ ~Nearer(q, o[j].vec, o[i].vec)
  BY DEF Context
<1> HIDE DEF N, o
<1> DEFINE Fine(n, k, u) == /\ k \in Seq(ChunkRecord) /\ u \in Nat /\ Len(k) <= FragmentsMax /\ u <= BundleMax
                            /\ BundleBytes(k) = u
                            /\ \A i \in 1 .. Len(k) : k[i] \in known /\ \E m \in 1 .. n : k[i] = o[m]
                            /\ \A i, j \in 1 .. Len(k) : i < j => k[i].id # k[j].id /\ ~Nearer(q, k[j].vec, k[i].vec)
           T == {n \in 0 .. N : Fine(n, f[n].kept, f[n].used)}
<1>5. 0 \in T
  <2>1. f[0].kept = <<>> /\ f[0].used = 0
    BY <1>3
  <2>2. Fine(0, <<>>, 0)
    BY NoBytes, RecallAssumption
  <2>3. 0 \in 0 .. N
    BY <1>1
  <2> HIDE DEF Fine
  <2>4. Fine(0, f[0].kept, f[0].used)
    BY <2>1, <2>2
  <2> QED BY <2>3, <2>4
<1>6. ASSUME NEW n \in 1 .. N, n - 1 \in T PROVE n \in T
  <2> DEFINE k == f[n - 1].kept
             u == f[n - 1].used
             c == o[n]
             L == Len(k)
  <2>1. n \in 0 .. N /\ n \in Nat /\ \A m \in 1 .. n - 1 : m \in 1 .. n /\ m \in 1 .. N /\ m < n
    BY <1>1
  <2>2. Fine(n - 1, k, u)
    BY <1>6
  <2>3. c \in ChunkRecord /\ c \in known
    BY <1>1, <1>4
  <2>4. \/ f[n].kept = k /\ f[n].used = u
        \/ Fits(f[n - 1], c) /\ f[n].kept = Append(k, c) /\ f[n].used = u + Cut(c.size)
    <3>1. f[n] = f[n - 1] \/ (Fits(f[n - 1], c) /\ f[n] = Filled(f[n - 1], c))
      BY <1>3
    <3>2. Filled(f[n - 1], c).kept = Append(k, c) /\ Filled(f[n - 1], c).used = u + Cut(c.size)
      BY DEF Filled
    <3> HIDE DEF c
    <3> QED BY Zenon, <3>1, <3>2
  <2>5. Fits(f[n - 1], c) <=> (L < FragmentsMax /\ u + Cut(c.size) <= BundleMax)
    BY DEF Fits
  <2> HIDE DEF k, u, c, L
  <2>6. Fine(n, k, u)
    BY <2>1, <2>2
  <2>7. ASSUME L < FragmentsMax, u + Cut(c.size) <= BundleMax PROVE Fine(n, Append(k, c), u + Cut(c.size))
    <3> DEFINE t == Append(k, c)
               z == Cut(c.size)
    <3>1. k \in Seq(ChunkRecord) /\ u \in Nat /\ BundleBytes(k) = u
      BY <2>2
    <3>2. t \in Seq(ChunkRecord) /\ L \in Nat /\ Len(t) = L + 1 /\ t[L + 1] = c /\ \A i \in 1 .. L : t[i] = k[i]
      BY <2>3, <3>1 DEF L
    <3>3. z \in Nat
      BY <2>3, RecordIs
    <3>4. BundleBytes(t) = u + z
      BY <2>3, <3>1, BytesAdded
    <3>5. \A i \in 1 .. L : k[i] \in known /\ \E m \in 1 .. n - 1 : k[i] = o[m]
      BY <2>2 DEF L
    <3>6. \A i, j \in 1 .. L : i < j => k[i].id # k[j].id /\ ~Nearer(q, k[j].vec, k[i].vec)
      BY <2>2 DEF L
    <3> HIDE DEF t, z
    <3>7. \A i \in 1 .. L + 1 : i = L + 1 \/ i \in 1 .. L
      BY <3>2
    <3>8. \A i \in 1 .. L : k[i].id # c.id /\ ~Nearer(q, c.vec, k[i].vec)
      <4> TAKE i \in 1 .. L
      <4>1. PICK m \in 1 .. n - 1 : k[i] = o[m]
        BY <3>5
      <4>2. m \in 1 .. N /\ m < n
        BY <2>1
      <4> QED BY <1>4, <4>1, <4>2 DEF c
    <3>9. \A i \in 1 .. L + 1 : t[i] \in known /\ \E m \in 1 .. n : t[i] = o[m]
      <4> TAKE i \in 1 .. L + 1
      <4>1. CASE i = L + 1
        <5>1. n \in 1 .. n /\ t[i] = o[n]
          BY <3>2, <4>1 DEF c
        <5> QED BY <2>3, <3>2, <4>1, <5>1
      <4>2. CASE i \in 1 .. L
        BY <2>1, <3>2, <3>5, <4>2
      <4> QED BY <3>7, <4>1, <4>2
    <3>10. \A i, j \in 1 .. L + 1 : i < j => t[i].id # t[j].id /\ ~Nearer(q, t[j].vec, t[i].vec)
      <4> SUFFICES ASSUME NEW i \in 1 .. L + 1, NEW j \in 1 .. L + 1, i < j
                   PROVE  t[i].id # t[j].id /\ ~Nearer(q, t[j].vec, t[i].vec)
        OBVIOUS
      <4>1. i \in 1 .. L
        BY <3>2
      <4>2. CASE j = L + 1
        BY <3>2, <3>8, <4>1, <4>2
      <4>3. CASE j \in 1 .. L
        BY <3>2, <3>6, <4>1, <4>3
      <4> QED BY <3>7, <4>2, <4>3
    <3>11. L + 1 <= FragmentsMax /\ u + z \in Nat /\ u + z <= BundleMax
      BY <2>7, <3>1, <3>2, <3>3, RecallAssumption DEF z
    <3> QED BY <3>2, <3>4, <3>9, <3>10, <3>11 DEF t, z
  <2> HIDE DEF Fine
  <2>8. Fine(n, f[n].kept, f[n].used)
    BY <2>4, <2>5, <2>6, <2>7
  <2> QED BY <2>1, <2>8
<1> HIDE DEF T
<1>7. N \in T
  <2>1. \A n \in 0 .. N : n \in T
    BY <1>1, <1>5, <1>6, UpTo
  <2> QED BY <1>1, <2>1
<1> DEFINE kept == f[N].kept
<1>8. Fine(N, kept, f[N].used)
  BY Zenon, <1>7 DEF T
<1>9. kept = BuildBundle(ordered).kept
  BY <1>2
<1> HIDE DEF kept
<1>10. Context(kept, known, q) /\ Len(kept) <= FragmentsMax /\ BundleBytes(kept) <= BundleMax
  BY Zenon, <1>8 DEF Context
<1> QED BY Zenon, <1>9, <1>10

\* What a query's context is made of, whatever the hits were.
LEMMA PlannedIs ==
  ASSUME NEW ns, Known(ns) \in SUBSET ChunkRecord, NEW q \in Seq(Int), NEW hits, Len(hits) \in Nat
  PROVE  /\ Planned(ns, q, hits).space = ns /\ Planned(ns, q, hits).q = q
         /\ Context(Planned(ns, q, hits).fragments, Known(ns), q)
         /\ Len(Planned(ns, q, hits).fragments) <= FragmentsMax
         /\ BundleBytes(Planned(ns, q, hits).fragments) <= BundleMax
<1> DEFINE candidates == Resolved(ns, Take(hits, HitsMax))
           vecs == [i \in DOMAIN candidates |-> candidates[i].vec]
           L == Len(candidates)
           order == Ranked(q, vecs, DOMAIN candidates, L)
           ordered == [i \in DOMAIN order |-> candidates[order[i]]]
<1>1. /\ Planned(ns, q, hits).space = ns /\ Planned(ns, q, hits).q = q
      /\ Planned(ns, q, hits).fragments = BuildBundle(ordered).kept
  BY DEF Planned, SemanticSelect
<1>2. /\ candidates \in Seq(ChunkRecord) /\ L \in Nat
      /\ \A i \in 1 .. L : candidates[i] \in Known(ns)
      /\ \A i, j \in 1 .. L : i # j => candidates[i].id # candidates[j].id
  <2>1. /\ candidates \in Seq(ChunkRecord)
        /\ \A i \in 1 .. L : candidates[i] \in Known(ns)
        /\ \A i, j \in 1 .. L : i # j => candidates[i].id # candidates[j].id
    <3> DEFINE n == IF Len(hits) < HitsMax THEN Len(hits) ELSE HitsMax
               S == {hits[i] : i \in 1 .. n}
    <3>1. n \in Nat /\ n \in Int /\ 1 \in Int /\ Take(hits, HitsMax) = SubSeq(hits, 1, n)
      BY RecallAssumption DEF Take
    <3>2. \A i \in 1 .. n : hits[i] \in S
      OBVIOUS
    <3> HIDE DEF n, S
    <3>3. SubSeq(hits, 1, n) \in Seq(S)
      BY <3>1, <3>2, SubSeqProperties
    <3>4. Len(Take(hits, HitsMax)) \in Nat
      BY <3>1, <3>3
    <3> QED BY <3>4, ResolvedOnce
  <2> QED BY <2>1
<1> HIDE DEF candidates
<1>3. DOMAIN candidates = 1 .. L /\ \A i \in 1 .. L : candidates[i] \in ChunkRecord
  BY <1>2
<1>4. \A i \in 1 .. L : vecs[i] = candidates[i].vec /\ vecs[i] \in Seq(Int)
  BY <1>3, RecordIs
<1> HIDE DEF vecs, L
<1>5. InOrder(order, L, q, vecs, 1 .. L)
  <2>1. \A m \in 1 .. L : m \in 1 .. L => vecs[m] \in Seq(Int)
    BY <1>4
  <2>2. InOrder(Ranked(q, vecs, 1 .. L, L), L, q, vecs, 1 .. L)
    BY <1>2, <2>1, RankedInOrder
  <2> QED BY <1>3, <2>2
<1> HIDE DEF order
<1> DEFINE M == Len(order)
<1>6. /\ M \in Nat /\ DOMAIN order = 1 .. M /\ \A i \in 1 .. M : order[i] \in 1 .. L
      /\ \A i, j \in 1 .. M : i < j => order[i] # order[j] /\ ~Nearer(q, vecs[order[j]], vecs[order[i]])
  BY <1>5 DEF InOrder
<1> HIDE DEF M
<1>7. ordered \in Seq(ChunkRecord) /\ Len(ordered) = M /\ \A i \in 1 .. M : ordered[i] = candidates[order[i]]
  <2>1. \A i \in 1 .. M : candidates[order[i]] \in ChunkRecord
    BY <1>3, <1>6
  <2> QED BY <1>6, <2>1
<1> HIDE DEF ordered
<1>8. \A i \in 1 .. M : ordered[i] \in Known(ns)
  BY <1>2, <1>6, <1>7
<1>9. ASSUME NEW i \in 1 .. M, NEW j \in 1 .. M, i < j
      PROVE  ordered[i].id # ordered[j].id /\ ~Nearer(q, ordered[j].vec, ordered[i].vec)
  <2>1. order[i] \in 1 .. L /\ order[j] \in 1 .. L /\ order[i] # order[j]
    BY <1>6, <1>9
  <2>2. ordered[i].vec = vecs[order[i]] /\ ordered[j].vec = vecs[order[j]]
    BY <1>4, <1>7, <2>1
  <2>3. ordered[i] = candidates[order[i]] /\ ordered[j] = candidates[order[j]]
    BY <1>7
  <2>4. ordered[i].id # ordered[j].id
    BY Zenon, <1>2, <2>1, <2>3
  <2>5. ~Nearer(q, vecs[order[j]], vecs[order[i]])
    BY <1>6, <1>9
  <2> QED BY Zenon, <2>2, <2>4, <2>5
<1>10. Context(ordered, Known(ns), q)
  BY <1>7, <1>8, <1>9 DEF Context
<1> QED BY <1>1, <1>10, BundleKeeps

(***************************************************************************)
(* Cutting a file.                                                         *)
(***************************************************************************)
\* Units from one offset to another, without a gap, each of whole characters
\* and at most `most` bytes.
Chain(u, from, to, f, most) ==
  /\ u \in Seq(Nat \X Nat) /\ from \in Nat /\ to \in Nat /\ from <= to
  /\ Len(u) = 0 => from = to
  /\ Len(u) > 0 => u[1][1] = from /\ u[Len(u)][2] = to
  /\ \A i \in 1 .. Len(u) :
       /\ u[i][1] < u[i][2] /\ u[i][2] - u[i][1] <= most
       /\ IsBoundary(f, u[i][1]) /\ IsBoundary(f, u[i][2])
  /\ \A i \in 1 .. Len(u) : i > 1 => u[i][1] = u[i - 1][2]

\* No unit leads from an offset to itself.
LEMMA EmptyChain ==
  ASSUME NEW from \in Nat, NEW f, NEW most
  PROVE  Chain(<<>>, from, from, f, most)
BY DEF Chain

\* One unit more.
LEMMA ChainGrows ==
  ASSUME NEW u, NEW from, NEW mid, NEW to \in Nat, NEW f, NEW most \in Nat, Chain(u, from, mid, f, most),
         mid < to, to - mid <= most, IsBoundary(f, mid), IsBoundary(f, to)
  PROVE  Chain(Append(u, <<mid, to>>), from, to, f, most)
<1> DEFINE e == <<mid, to>>
           v == Append(u, e)
           L == Len(u)
<1>1. u \in Seq(Nat \X Nat) /\ from \in Nat /\ mid \in Nat /\ from <= mid /\ L \in Nat
  BY DEF Chain
<1>2. e \in Nat \X Nat /\ e[1] = mid /\ e[2] = to
  BY <1>1
<1> HIDE DEF e
<1>3. v \in Seq(Nat \X Nat) /\ Len(v) = L + 1 /\ v[L + 1] = e /\ \A i \in 1 .. L : v[i] = u[i]
  BY <1>1, <1>2
<1>4. /\ L = 0 => from = mid
      /\ L > 0 => u[1][1] = from /\ u[L][2] = mid
      /\ \A i \in 1 .. L : u[i][1] < u[i][2] /\ u[i][2] - u[i][1] <= most /\ IsBoundary(f, u[i][1]) /\ IsBoundary(f, u[i][2])
      /\ \A i \in 1 .. L : i > 1 => u[i][1] = u[i - 1][2]
  BY DEF Chain
<1> HIDE DEF v, L
<1>5. \A i \in 1 .. L + 1 : i = L + 1 \/ i \in 1 .. L
  BY <1>1
<1>6. v[1][1] = from /\ v[L + 1][2] = to
  <2>1. CASE L = 0
    BY <1>2, <1>3, <1>4, <2>1
  <2>2. CASE L > 0
    <3>1. 1 \in 1 .. L
      BY <1>1, <2>2
    <3> QED BY <1>2, <1>3, <1>4, <2>2, <3>1
  <2> QED BY <1>1, <2>1, <2>2
<1>7. \A i \in 1 .. L + 1 : v[i][1] < v[i][2] /\ v[i][2] - v[i][1] <= most /\ IsBoundary(f, v[i][1]) /\ IsBoundary(f, v[i][2])
  <2> TAKE i \in 1 .. L + 1
  <2>1. CASE i = L + 1
    BY <1>2, <1>3, <2>1
  <2>2. CASE i \in 1 .. L
    BY <1>3, <1>4, <2>2
  <2> QED BY <1>5, <2>1, <2>2
<1>8. \A i \in 1 .. L + 1 : i > 1 => v[i][1] = v[i - 1][2]
  <2> SUFFICES ASSUME NEW i \in 1 .. L + 1, i > 1 PROVE v[i][1] = v[i - 1][2]
    OBVIOUS
  <2>1. i - 1 \in 1 .. L
    BY <1>1
  <2>2. CASE i = L + 1
    <3>1. i - 1 = L /\ L > 0
      BY <1>1, <2>2
    <3> QED BY <1>2, <1>3, <1>4, <2>1, <2>2, <3>1
  <2>3. CASE i \in 1 .. L
    BY <1>3, <1>4, <2>1, <2>3
  <2> QED BY <1>5, <2>2, <2>3
<1>9. L + 1 > 0 /\ L + 1 # 0
  BY <1>1
<1> DEFINE M == L + 1
<1>10. Len(v) = M /\ v[1][1] = from /\ v[M][2] = to /\ M > 0 /\ M # 0 /\ from <= to
  BY <1>1, <1>3, <1>6, <1>9
<1> HIDE DEF M
<1>11. Chain(v, from, to, f, most)
  BY <1>1, <1>3, <1>7, <1>8, <1>10 DEF Chain, M
<1> QED BY <1>11 DEF v, e

\* Earlier units end where later ones begin, or before.
LEMMA ChainOrdered ==
  ASSUME NEW u, NEW from, NEW to, NEW f, NEW most, Chain(u, from, to, f, most)
  PROVE  /\ \A i, j \in 1 .. Len(u) : i < j => u[i][2] <= u[j][1]
         /\ \A i \in 1 .. Len(u) : u[i][1] \in Nat /\ u[i][2] \in Nat /\ from <= u[i][1] /\ u[i][2] <= to
<1> DEFINE L == Len(u)
<1>1. /\ u \in Seq(Nat \X Nat) /\ L \in Nat /\ from \in Nat /\ to \in Nat
      /\ L > 0 => u[1][1] = from /\ u[L][2] = to
      /\ \A i \in 1 .. L : u[i][1] < u[i][2]
      /\ \A i \in 1 .. L : i > 1 => u[i][1] = u[i - 1][2]
  BY DEF Chain
<1>2. \A i \in 1 .. L : u[i][1] \in Nat /\ u[i][2] \in Nat
  <2>1. \A i \in 1 .. L : u[i] \in Nat \X Nat
    BY <1>1
  <2> QED BY <2>1
<1> HIDE DEF L
<1> DEFINE T == {n \in 0 .. L : \A i \in 1 .. n : i < n => u[i][2] <= u[n][1]}
<1>3. 0 \in T
  BY <1>1
<1>4. ASSUME NEW n \in 1 .. L, n - 1 \in T PROVE n \in T
  <2>1. ASSUME NEW i \in 1 .. n, i < n PROVE u[i][2] <= u[n][1]
    <3>1. n > 1 /\ n - 1 \in 1 .. L /\ i \in 1 .. n - 1 /\ i \in 1 .. L
      BY <1>1, <2>1
    <3>2. u[n][1] = u[n - 1][2] /\ u[n - 1][1] < u[n - 1][2]
      BY <1>1, <3>1
    <3>3. CASE i = n - 1
      BY <1>2, <3>1, <3>2, <3>3
    <3>4. CASE i # n - 1
      <4>1. i < n - 1
        BY <3>1, <3>4
      <4>2. u[i][2] <= u[n - 1][1]
        BY <1>4, <3>1, <4>1
      <4> QED BY <1>2, <3>1, <3>2, <4>2
    <3> QED BY <3>3, <3>4
  <2> QED BY <1>1, <2>1
<1> HIDE DEF T
<1>5. \A n \in 0 .. L : n \in T
  BY <1>1, <1>3, <1>4, UpTo
<1>6. ASSUME NEW i \in 1 .. L, NEW j \in 1 .. L, i < j PROVE u[i][2] <= u[j][1]
  <2>1. j \in 0 .. L /\ i \in 1 .. j
    BY <1>1, <1>6
  <2> QED BY <1>5, <1>6, <2>1 DEF T
<1>7. ASSUME NEW i \in 1 .. L PROVE from <= u[i][1] /\ u[i][2] <= to
  <2>1. L > 0 /\ 1 \in 1 .. L /\ L \in 1 .. L
    BY <1>1
  <2>2. u[1][1] = from /\ u[L][2] = to /\ u[1][1] < u[1][2] /\ u[L][1] < u[L][2] /\ u[i][1] < u[i][2]
    BY <1>1, <2>1
  <2>3. i = 1 \/ u[1][2] <= u[i][1]
    BY <1>6, <2>1
  <2>4. i = L \/ u[i][2] <= u[L][1]
    BY <1>6, <2>1
  <2>5. /\ u[1][2] \in Nat /\ u[L][1] \in Nat /\ u[i][1] \in Nat /\ u[i][2] \in Nat
    BY <1>2, <2>1
  <2>0. from \in Nat /\ to \in Nat
    BY <1>1
  <2>6. from <= u[i][1]
    <3>1. CASE i = 1
      BY <2>0, <2>2, <3>1
    <3>2. CASE u[1][2] <= u[i][1]
      BY ONLY <2>0, <2>2, <2>5, <3>2
    <3> QED BY <2>3, <3>1, <3>2
  <2>7. u[i][2] <= to
    <3>1. CASE i = L
      BY <2>0, <2>2, <3>1
    <3>2. CASE u[i][2] <= u[L][1]
      BY ONLY <2>0, <2>2, <2>5, <3>2
    <3> QED BY <2>4, <3>1, <3>2
  <2> QED BY <2>6, <2>7
<1> QED BY <1>2, <1>6, <1>7 DEF L

\* Where LineUnits and Pieces are: an offset, and the units before it.
Scan == [start : Nat, units : Seq(Nat \X Nat)]

FileIs(f) ==
  /\ f \in Seq({"a", "n", "h", "c"}) /\ Len(f) \in Nat /\ Len(f) > 0
  /\ \A i \in 1 .. Len(f) : f[i] = "c" => i > 1 /\ f[i - 1] # "n"
  /\ \A i \in 0 .. (Len(f) - 1) : \E e \in (i + 1) .. (i + MaxChunk) : e <= Len(f) /\ IsBoundary(f, e)
  /\ SymbolSets[f] \subseteq SUBSET [start : Nat, end : Nat]
  /\ \A spans \in SymbolSets[f] : \A s \in spans :
       IsBoundary(f, LeastOf(s.start, Len(f))) /\ IsBoundary(f, LeastOf(s.end, Len(f)))

\* Every file there is to cut is text.
LEMMA FilesAre ==
  ASSUME NEW f \in Files
  PROVE  FileIs(f)
<1>1. f \in Seq({"a", "n", "h", "c"}) /\ f # <<>>
  BY ChunksAssumption
<1>2. Len(f) \in Nat /\ Len(f) > 0
  BY <1>1
<1> QED BY <1>1, <1>2, ChunksAssumption DEF FileIs

\* A file begins and ends between characters.
LEMMA FileEnds ==
  ASSUME NEW f, FileIs(f)
  PROVE  IsBoundary(f, 0) /\ IsBoundary(f, Len(f))
BY DEF FileIs, IsBoundary

\* A newline ends at a boundary.
LEMMA NewlineEnds ==
  ASSUME NEW f, FileIs(f), NEW i \in 1 .. Len(f), f[i] = "n"
  PROVE  IsBoundary(f, i)
<1>1. Len(f) \in Nat /\ \A j \in 1 .. Len(f) : f[j] = "c" => j > 1 /\ f[j - 1] # "n"
  BY DEF FileIs
<1>2. CASE i = Len(f)
  BY <1>2 DEF IsBoundary
<1>3. CASE i # Len(f)
  <2>1. i + 1 \in 1 .. Len(f) /\ (i + 1) - 1 = i
    BY <1>1, <1>3
  <2>2. f[i + 1] # "c"
    BY <1>1, <2>1
  <2> QED BY <2>2 DEF IsBoundary
<1> QED BY <1>2, <1>3

\* The lines from one boundary to another.
LEMMA LineUnitsAre ==
  ASSUME NEW f, FileIs(f), NEW from \in Nat, NEW to \in Nat, from < to, to <= Len(f),
         IsBoundary(f, from), IsBoundary(f, to)
  PROVE  Chain(LineUnits(f, from, to), from, to, f, Len(f)) /\ Len(LineUnits(f, from, to)) > 0
<1> DEFINE N == to - from
           S == Scan
           Z == [start |-> from, units |-> <<>>]
           EndsAt(n) == f[from + n] = "n" \/ n = to - from
           Next1(n, s) == [start |-> from + n, units |-> Append(s.units, <<s.start, from + n>>)]
           Body(n, s) == IF EndsAt(n) THEN Next1(n, s) ELSE s
           step == [n \in 1 .. N |-> [s \in S |-> Body(n, s)]]
           Eq(h) == h = [n \in 0 .. N |-> IF n = 0 THEN Z ELSE Body(n, h[n - 1])]
           g == CHOOSE h : Eq(h)
<1>1. LineUnits(f, from, to) = g[N].units
  BY DEF LineUnits
<1>2. N \in Nat /\ N > 0 /\ Z \in S
  BY DEF Scan
<1>3. \A n \in 1 .. N, s \in S : Body(n, s) \in S
  <2> TAKE n \in 1 .. N, s \in S
  <2>1. s.start \in Nat /\ s.units \in Seq(Nat \X Nat) /\ from + n \in Nat
    BY DEF Scan
  <2>2. <<s.start, from + n>> \in Nat \X Nat
    BY <2>1
  <2>3. Append(s.units, <<s.start, from + n>>) \in Seq(Nat \X Nat)
    BY <2>1, <2>2
  <2> QED BY <2>1, <2>3 DEF Scan
<1> HIDE DEF Body, N, S, Z
<1>4. IsStep(step, N, S) /\ \A n \in 1 .. N, s \in S : step[n][s] = Body(n, s)
  BY <1>3 DEF IsStep
<1> HIDE DEF step
<1>6. PICK h : Iterates(h, N, S, Z, step)
  BY Zenon, <1>2, <1>4, Recursion
<1>7. h \in [0 .. N -> S] /\ h[0] = Z /\ \A n \in 1 .. N : h[n] = Body(n, h[n - 1])
  <2>1. h \in [0 .. N -> S] /\ h[0] = Z /\ \A n \in 1 .. N : h[n] = step[n][h[n - 1]]
    BY <1>6 DEF Iterates
  <2>2. \A n \in 1 .. N : h[n - 1] \in S
    BY <1>2, <2>1
  <2> QED BY <1>4, <2>1, <2>2
<1>8. Eq(h)
  BY <1>2, <1>7
<1>9. Eq(g)
  BY <1>8
<1> HIDE DEF g
<1>10. g[0] = Z /\ \A n \in 1 .. N : g[n] = Body(n, g[n - 1])
  BY <1>2, <1>9
<1> DEFINE L == Len(f)
           Fine(n, s) == Chain(s.units, from, s.start, f, L) /\ s.start <= from + n /\ IsBoundary(f, s.start)
           T == {n \in 0 .. N : Fine(n, g[n])}
<1>11. L \in Nat
  BY DEF FileIs
<1>12. 0 \in T
  <2>1. g[0].units = <<>> /\ g[0].start = from
    BY <1>10 DEF Z
  <2>2. Chain(<<>>, from, from, f, L) /\ from <= from + 0
    BY EmptyChain
  <2>3. 0 \in 0 .. N
    BY <1>2
  <2> QED BY <2>1, <2>2, <2>3
<1>13. ASSUME NEW n \in 1 .. N, Fine(n - 1, g[n - 1]), EndsAt(n)
       PROVE  Fine(n, g[n]) /\ g[n].start = from + n /\ Len(g[n].units) > 0
  <2> DEFINE u == g[n - 1].units
             s == g[n - 1].start
             e == from + n
  <2>1. Chain(u, from, s, f, L) /\ s <= from + (n - 1) /\ IsBoundary(f, s)
    BY <1>13
  <2>2. g[n].start = e /\ g[n].units = Append(u, <<s, e>>)
    <3>1. g[n] = Body(n, g[n - 1])
      BY <1>10
    <3>2. g[n] = Next1(n, g[n - 1])
      BY <1>13, <3>1 DEF Body
    <3> QED BY <3>2
  <2>3. e \in Nat /\ e \in 1 .. L /\ n \in Nat
    BY <1>11 DEF N
  <2>4. IsBoundary(f, e)
    <3>1. CASE f[from + n] = "n"
      BY <2>3, <3>1, NewlineEnds
    <3>2. CASE n = to - from
      <4>1. e = to
        BY <3>2
      <4> QED BY <4>1
    <3> QED BY <1>13, <3>1, <3>2
  <2> HIDE DEF u, s
  <2>5. s \in Nat /\ u \in Seq(Nat \X Nat) /\ Len(u) \in Nat
    BY <2>1 DEF Chain
  <2>6. s < e /\ e - s <= L
    BY <1>11, <2>1, <2>3, <2>5
  <2> HIDE DEF e
  <2>7. Chain(Append(u, <<s, e>>), from, e, f, L)
    BY <1>11, <2>1, <2>3, <2>4, <2>6, ChainGrows
  <2>8. Len(Append(u, <<s, e>>)) = Len(u) + 1
    BY <2>5
  <2>9. Len(g[n].units) > 0
    BY <2>2, <2>5, <2>8
  <2>10. e <= from + n
    BY DEF e
  <2> QED BY <2>2, <2>4, <2>7, <2>9, <2>10 DEF e
<1>14. ASSUME NEW n \in 1 .. N, n - 1 \in T PROVE n \in T
  <2>1. Fine(n - 1, g[n - 1]) /\ n \in 0 .. N
    BY <1>2, <1>14
  <2>2. CASE EndsAt(n)
    BY <1>13, <2>1, <2>2
  <2>3. CASE ~EndsAt(n)
    <3>1. g[n] = g[n - 1]
      BY <1>10, <2>3 DEF Body
    <3>2. g[n - 1].start \in Nat
      BY <2>1 DEF Chain
    <3>3. g[n - 1].start <= from + n
      BY <2>1, <3>2
    <3> QED BY <2>1, <3>1, <3>3
  <2> QED BY <2>2, <2>3
<1> HIDE DEF T
<1>15. \A n \in 0 .. N : n \in T
  BY <1>2, <1>12, <1>14, UpTo
<1>16. N - 1 \in 0 .. N /\ N \in 1 .. N /\ from + N = to /\ N = to - from
  BY <1>2 DEF N
<1>17. Fine(N - 1, g[N - 1])
  BY <1>15, <1>16 DEF T
<1>18. Fine(N, g[N]) /\ g[N].start = from + N /\ Len(g[N].units) > 0
  BY <1>13, <1>16, <1>17
<1> QED BY <1>1, <1>16, <1>18

\* floor_char_boundary finds a boundary at or before its argument.
LEMMA FloorIs ==
  ASSUME NEW f, FileIs(f), NEW i \in Nat, i <= Len(f)
  PROVE  /\ FloorBoundary(f, i) \in 0 .. i /\ IsBoundary(f, FloorBoundary(f, i))
         /\ \A b \in 0 .. i : IsBoundary(f, b) => b <= FloorBoundary(f, i)
<1> DEFINE B == {b \in 0 .. i : IsBoundary(f, b)}
<1>1. Len(f) \in Nat /\ LeastOf(i, Len(f)) = i
  BY DEF FileIs, LeastOf
<1>2. FloorBoundary(f, i) = Max(B)
  BY <1>1 DEF FloorBoundary
<1>3. B \in SUBSET (0 .. i) /\ B # {}
  <2>1. 0 \in B
    BY FileEnds
  <2> QED BY <2>1
<1>4. Max(B) \in B /\ \A y \in B : y <= Max(B)
  <2> HIDE DEF B
  <2> QED BY <1>3, MaxIs
<1> QED BY <1>2, <1>4

\* A piece is of whole characters, within the bound.
LEMMA PieceIs ==
  ASSUME NEW f, FileIs(f), NEW s \in Nat, NEW end \in Nat, s < end, end <= Len(f), IsBoundary(f, end)
  PROVE  /\ PieceEnd(f, s, end) \in Nat /\ s < PieceEnd(f, s, end) /\ PieceEnd(f, s, end) <= end
         /\ PieceEnd(f, s, end) - s <= MaxChunk /\ IsBoundary(f, PieceEnd(f, s, end))
<1> DEFINE m == LeastOf(s + MaxChunk, end)
           x == FloorBoundary(f, m)
<1>1. MaxChunk \in Nat /\ Len(f) \in Nat
  BY ChunksAssumption DEF FileIs
<1>2. m \in Nat /\ m <= end /\ m <= s + MaxChunk /\ m <= Len(f) /\ (m = end \/ m = s + MaxChunk)
  BY <1>1 DEF LeastOf
<1> HIDE DEF m
<1>3. x \in 0 .. m /\ IsBoundary(f, x) /\ \A b \in 0 .. m : IsBoundary(f, b) => b <= x
  BY <1>2, FloorIs
<1> HIDE DEF x
<1>4. s < x
  <2>1. s \in 0 .. Len(f) - 1
    BY <1>1
  <2>2. PICK e \in (s + 1) .. (s + MaxChunk) : e <= Len(f) /\ IsBoundary(f, e)
    BY <2>1 DEF FileIs
  <2>3. CASE e <= m
    <3>1. e \in 0 .. m /\ s < e
      BY <1>1, <1>2, <2>2, <2>3
    <3> QED BY <1>2, <1>3, <2>2, <3>1
  <2>4. CASE e > m
    <3>1. m = end
      BY <1>1, <1>2, <2>2, <2>4
    <3>2. end \in 0 .. m
      BY <1>2, <3>1
    <3> QED BY <1>2, <1>3, <3>1, <3>2
  <2> QED BY <1>2, <2>2, <2>3, <2>4
<1>5. x \in Nat /\ x <= end /\ x <= Len(f) /\ x - s <= MaxChunk
  BY <1>1, <1>2, <1>3
<1>6. LeastOf(MostOf(x, s + 1), end) = x
  <2>1. MostOf(x, s + 1) = x
    BY <1>4, <1>5 DEF MostOf
  <2> QED BY <1>5, <2>1 DEF LeastOf
<1>7. FloorBoundary(f, x) = x
  <2>1. FloorBoundary(f, x) \in 0 .. x /\ \A b \in 0 .. x : IsBoundary(f, b) => b <= FloorBoundary(f, x)
    BY <1>5, FloorIs
  <2>2. x \in 0 .. x
    BY <1>5
  <2> QED BY <1>3, <1>5, <2>1, <2>2
<1>8. PieceEnd(f, s, end) = x
  <2>1. ~(x <= s)
    BY <1>4, <1>5
  <2>2. FloorBoundary(f, LeastOf(s + MaxChunk, end)) = x
    BY DEF x, m
  <2> QED BY <1>6, <1>7, <2>1, <2>2 DEF PieceEnd
<1> QED BY <1>3, <1>4, <1>5, <1>8

\* The pieces of one unit go on where the units before it end.
LEMMA PiecesAre ==
  ASSUME NEW f, FileIs(f), NEW from, NEW start \in Nat, NEW end \in Nat, start <= end, end <= Len(f),
         IsBoundary(f, start), IsBoundary(f, end), NEW units, Chain(units, from, start, f, MaxChunk)
  PROVE  Chain(Pieces(f, start, end, units), from, end, f, MaxChunk)
<1> DEFINE N == end - start
           S == Scan
           Z == [start |-> start, units |-> units]
           Body(n, s) == LET before == s
                             e == PieceEnd(f, before.start, end)
                         IN  IF before.start >= end THEN before
                             ELSE [start |-> e, units |-> Append(before.units, <<before.start, e>>)]
           Fine(n, s) == /\ s \in S /\ Chain(s.units, from, s.start, f, MaxChunk) /\ s.start <= end
                         /\ s.start = end \/ s.start >= start + n
                         /\ IsBoundary(f, s.start)
           R == {s \in S : s.start <= end}
           step == [n \in 1 .. N |-> [s \in R |-> Body(n, s)]]
           Eq(h) == h = [n \in 0 .. N |-> IF n = 0 THEN Z ELSE Body(n, h[n - 1])]
           g == CHOOSE h : Eq(h)
<1>1. Pieces(f, start, end, units) = g[N].units
  BY DEF Pieces
<1>2. N \in Nat /\ Z \in R /\ MaxChunk \in Nat
  BY ChunksAssumption DEF Scan, Chain
<1>3. ASSUME NEW s \in S, s.start < end, NEW n
      PROVE  \E e \in Nat :
               /\ Body(n, s) = [start |-> e, units |-> Append(s.units, <<s.start, e>>)] /\ Body(n, s) \in S
               /\ s.start < e /\ e <= end /\ e - s.start <= MaxChunk /\ IsBoundary(f, e)
  <2> DEFINE a == s.start
             u == s.units
             e == PieceEnd(f, a, end)
  <2>1. a \in Nat /\ u \in Seq(Nat \X Nat) /\ a < end
    BY <1>3 DEF Scan
  <2>2. Body(n, s) = IF a >= end THEN s ELSE [start |-> e, units |-> Append(u, <<a, e>>)]
    OBVIOUS
  <2> HIDE DEF a, u, Body
  <2>3. e \in Nat /\ a < e /\ e <= end /\ e - a <= MaxChunk /\ IsBoundary(f, e)
    BY <2>1, PieceIs
  <2> HIDE DEF e
  <2>4. Body(n, s) = [start |-> e, units |-> Append(u, <<a, e>>)]
    BY <2>1, <2>2
  <2>5. <<a, e>> \in Nat \X Nat
    BY <2>1, <2>3
  <2>6. Append(u, <<a, e>>) \in Seq(Nat \X Nat)
    BY <2>1, <2>5
  <2>7. Body(n, s) \in S
    BY <2>3, <2>4, <2>6 DEF Scan
  <2> QED BY <2>3, <2>4, <2>7 DEF a, u
<1>4. ASSUME NEW s \in S, s.start = end, NEW n PROVE Body(n, s) = s
  BY <1>4
<1> HIDE DEF Body
<1>5. \A n \in 1 .. N, s \in R : Body(n, s) \in R
  <2> TAKE n \in 1 .. N, s \in R
  <2>1. s \in S /\ s.start \in Nat /\ (s.start < end \/ s.start = end)
    BY DEF Scan
  <2>2. CASE s.start = end
    BY <1>4, <2>1, <2>2
  <2>3. CASE s.start < end
    BY <1>3, <2>1, <2>3
  <2> QED BY <2>1, <2>2, <2>3
<1> HIDE DEF N, R, Z
<1>6. IsStep(step, N, R) /\ \A n \in 1 .. N, s \in R : step[n][s] = Body(n, s)
  BY <1>5 DEF IsStep
<1> HIDE DEF step
<1>7. PICK h : Iterates(h, N, R, Z, step)
  BY Zenon, <1>2, <1>6, Recursion
<1>8. h \in [0 .. N -> R] /\ h[0] = Z /\ \A n \in 1 .. N : h[n] = Body(n, h[n - 1])
  <2>1. h \in [0 .. N -> R] /\ h[0] = Z /\ \A n \in 1 .. N : h[n] = step[n][h[n - 1]]
    BY <1>7 DEF Iterates
  <2>2. \A n \in 1 .. N : h[n - 1] \in R
    BY <1>2, <2>1
  <2> QED BY <1>6, <2>1, <2>2
<1>9. Eq(h)
  BY <1>2, <1>8
<1>10. Eq(g)
  BY <1>9
<1> HIDE DEF g
<1>11. g[0] = Z /\ \A n \in 1 .. N : g[n] = Body(n, g[n - 1])
  BY <1>2, <1>10
<1> DEFINE T == {n \in 0 .. N : Fine(n, g[n])}
<1>12. 0 \in T
  <2>1. g[0].units = units /\ g[0].start = start /\ g[0] \in S
    BY <1>2, <1>11 DEF Z, R
  <2>2. 0 \in 0 .. N /\ start >= start + 0
    BY <1>2
  <2> QED BY <2>1, <2>2
<1>13. ASSUME NEW n \in 1 .. N, n - 1 \in T PROVE n \in T
  <2> DEFINE s == g[n - 1]
  <2>1. Fine(n - 1, s) /\ n \in 0 .. N /\ n \in Nat /\ g[n] = Body(n, s)
    BY <1>2, <1>11, <1>13
  <2> HIDE DEF s
  <2>2. s \in S /\ s.start \in Nat
    BY <2>1 DEF Scan
  <2>3. CASE s.start = end
    <3>1. g[n] = s
      BY <1>4, <2>1, <2>2, <2>3
    <3> QED BY <2>1, <2>3, <3>1
  <2>4. CASE s.start # end
    <3>1. s.start < end /\ s.start >= start + (n - 1)
      BY <2>1, <2>2, <2>4
    <3>2. PICK e \in Nat : /\ g[n] = [start |-> e, units |-> Append(s.units, <<s.start, e>>)] /\ g[n] \in S
                           /\ s.start < e /\ e <= end /\ e - s.start <= MaxChunk /\ IsBoundary(f, e)
      BY <1>3, <2>1, <2>2, <3>1
    <3>3. Chain(Append(s.units, <<s.start, e>>), from, e, f, MaxChunk)
      BY <1>2, <2>1, <3>2, ChainGrows
    <3>4. e >= start + n
      BY <2>1, <2>2, <3>1, <3>2
    <3>5. g[n].start = e /\ g[n].units = Append(s.units, <<s.start, e>>)
      BY <3>2
    <3>6. Fine(n, g[n])
      BY <3>2, <3>3, <3>4, <3>5
    <3> QED BY <2>1, <3>6
  <2> QED BY <2>3, <2>4
<1> HIDE DEF T
<1>14. \A n \in 0 .. N : n \in T
  BY <1>2, <1>12, <1>13, UpTo
<1>15. Fine(N, g[N])
  BY <1>2, <1>14 DEF T
<1>16. g[N].start = end
  <2>1. g[N].start \in Nat
    BY <1>15 DEF Scan
  <2> QED BY <1>15, <2>1 DEF N
<1> QED BY <1>1, <1>15, <1>16

\* Cut to the bound, a chain of units is a chain still.
LEMMA BoundedUnitsAre ==
  ASSUME NEW f, FileIs(f), NEW from, NEW to, to <= Len(f), NEW units, Chain(units, from, to, f, Len(f)), Len(units) > 0
  PROVE  Chain(BoundedUnits(f, units), from, to, f, MaxChunk) /\ Len(BoundedUnits(f, units)) > 0
<1> DEFINE N == Len(units)
           S == Seq(Nat \X Nat)
           Body(n, s) == Pieces(f, units[n][1], units[n][2], s)
           At(n) == IF n = 0 THEN from ELSE units[n][2]
           Eq(h) == h = [n \in 0 .. N |-> IF n = 0 THEN <<>> ELSE Body(n, h[n - 1])]
           step == [n \in 1 .. N |-> [s \in S |-> IF Body(n, s) \in S THEN Body(n, s) ELSE <<>>]]
           g == CHOOSE h : Eq(h)
<1>1. BoundedUnits(f, units) = g[N]
  BY DEF BoundedUnits
<1>2. /\ N \in Nat /\ N > 0 /\ from \in Nat /\ to \in Nat /\ from <= to /\ from # to
      /\ units[1][1] = from /\ units[N][2] = to
      /\ \A i \in 1 .. N : IsBoundary(f, units[i][1]) /\ IsBoundary(f, units[i][2])
      /\ \A i \in 1 .. N : units[i][1] < units[i][2]
      /\ \A i \in 1 .. N : i > 1 => units[i][1] = units[i - 1][2]
  <2>1. /\ units \in Seq(Nat \X Nat) /\ N > 0 /\ from \in Nat /\ to \in Nat /\ from <= to
        /\ units[1][1] = from /\ units[N][2] = to
        /\ \A i \in 1 .. N : IsBoundary(f, units[i][1]) /\ IsBoundary(f, units[i][2])
        /\ \A i \in 1 .. N : units[i][1] < units[i][2]
        /\ \A i \in 1 .. N : i > 1 => units[i][1] = units[i - 1][2]
    BY DEF Chain
  <2>2. N \in Nat /\ 1 \in 1 .. N
    BY <2>1
  <2>3. units[1][1] \in Nat /\ units[1][2] \in Nat /\ units[1][2] <= to
    BY <2>2, ChainOrdered
  <2>4. from # to
    BY <2>1, <2>2, <2>3
  <2> QED BY <2>1, <2>2, <2>4
<1>3. \A i \in 1 .. N : units[i][1] \in Nat /\ units[i][2] \in Nat /\ units[i][2] <= to
  BY ChainOrdered
<1>4. Len(f) \in Nat
  BY DEF FileIs
<1> HIDE DEF N
<1>5. \A n \in 1 .. N : At(n - 1) = units[n][1] /\ At(n) = units[n][2]
  <2> TAKE n \in 1 .. N
  <2>1. CASE n = 1
    BY <1>2, <2>1
  <2>2. CASE n # 1
    <3>1. n > 1 /\ n - 1 # 0 /\ n # 0
      BY <1>2, <2>2
    <3> QED BY <1>2, <3>1
  <2> QED BY <1>2, <2>1, <2>2
<1> HIDE DEF At
<1>6. ASSUME NEW n \in 1 .. N, NEW s, Chain(s, from, At(n - 1), f, MaxChunk)
      PROVE  Chain(Body(n, s), from, At(n), f, MaxChunk)
  <2> DEFINE a == units[n][1]
             b == units[n][2]
  <2>1. a \in Nat /\ b \in Nat /\ a < b /\ b <= Len(f) /\ IsBoundary(f, a) /\ IsBoundary(f, b)
    BY <1>2, <1>3, <1>4
  <2>2. At(n - 1) = a /\ At(n) = b
    BY <1>5
  <2> HIDE DEF a, b
  <2>3. a <= b /\ Chain(s, from, a, f, MaxChunk)
    BY <1>6, <2>1, <2>2
  <2>4. Chain(Pieces(f, a, b, s), from, b, f, MaxChunk)
    BY <2>1, <2>3, PiecesAre
  <2> QED BY <2>2, <2>4 DEF a, b
<1> HIDE DEF Body
<1>7. Chain(<<>>, from, At(0), f, MaxChunk)
  BY <1>2, EmptyChain DEF At
<1>8. \A n \in 0 .. N : \A s : Chain(s, from, At(n), f, MaxChunk) => s \in S
  BY DEF Chain
<1> HIDE DEF S
<1>9. <<>> \in S
  BY DEF S
<1>10. IsStep(step, N, S) /\ \A n \in 1 .. N, s \in S : step[n][s] = IF Body(n, s) \in S THEN Body(n, s) ELSE <<>>
  BY <1>9 DEF IsStep
<1> HIDE DEF step
<1>11. PICK h : Iterates(h, N, S, <<>>, step)
  BY Zenon, <1>2, <1>9, <1>10, Recursion
<1>12. h \in [0 .. N -> S] /\ h[0] = <<>> /\ \A n \in 1 .. N : h[n] = step[n][h[n - 1]]
  BY <1>11 DEF Iterates
<1> DEFINE Good(n, s) == Chain(s, from, At(n), f, MaxChunk)
<1>13. ASSUME NEW n \in 1 .. N, Good(n - 1, h[n - 1]) PROVE Good(n, h[n]) /\ h[n] = Body(n, h[n - 1])
  <2>1. n - 1 \in 0 .. N /\ n \in 0 .. N
    BY <1>2
  <2>2. Good(n, Body(n, h[n - 1]))
    BY <1>6, <1>13
  <2>3. Body(n, h[n - 1]) \in S /\ h[n - 1] \in S
    BY <1>8, <1>12, <2>1, <2>2
  <2>4. h[n] = Body(n, h[n - 1])
    BY <1>10, <1>12, <2>3
  <2> QED BY <2>2, <2>4
<1> DEFINE T == {n \in 0 .. N : Good(n, h[n])}
<1>14. 0 \in T
  BY <1>2, <1>7, <1>12
<1>15. ASSUME NEW n \in 1 .. N, n - 1 \in T PROVE n \in T
  <2>1. n \in 0 .. N
    BY <1>2
  <2> QED BY <1>13, <1>15, <2>1
<1> HIDE DEF T
<1>16. \A n \in 0 .. N : n \in T
  BY <1>2, <1>14, <1>15, UpTo
<1>17. \A n \in 1 .. N : h[n] = Body(n, h[n - 1])
  <2> TAKE n \in 1 .. N
  <2>1. n - 1 \in 0 .. N
    BY <1>2
  <2>2. Good(n - 1, h[n - 1])
    BY <1>16, <2>1 DEF T
  <2> QED BY <1>13, <2>2
<1>18. Eq(h)
  BY <1>2, <1>12, <1>17
<1>19. Eq(g)
  BY <1>18
<1> HIDE DEF g
<1>20. g[0] = <<>> /\ \A n \in 1 .. N : g[n] = Body(n, g[n - 1])
  BY <1>2, <1>19
<1> DEFINE U == {n \in 0 .. N : Good(n, g[n])}
<1>21. 0 \in U
  BY <1>2, <1>7, <1>20
<1>22. ASSUME NEW n \in 1 .. N, n - 1 \in U PROVE n \in U
  <2>1. n \in 0 .. N /\ Good(n - 1, g[n - 1])
    BY <1>2, <1>22
  <2>2. Good(n, Body(n, g[n - 1]))
    BY <1>6, <2>1
  <2> QED BY <1>20, <2>1, <2>2
<1> HIDE DEF U
<1>23. \A n \in 0 .. N : n \in U
  BY <1>2, <1>21, <1>22, UpTo
<1>24. N \in 0 .. N /\ At(N) = to
  BY <1>2 DEF At
<1>25. Chain(g[N], from, to, f, MaxChunk)
  BY <1>23, <1>24 DEF U
<1>26. Len(g[N]) > 0
  <2>1. g[N] \in Seq(Nat \X Nat) /\ (Len(g[N]) = 0 => from = to)
    BY <1>25 DEF Chain
  <2> QED BY <1>2, <2>1
<1> QED BY <1>1, <1>25, <1>26

\* Spans of symbols, regions of units, and where a region begins and ends.
Span == [start : Nat, end : Nat]
Region == [units : Seq(Nat \X Nat), symbol : Seq(Span)]
From(r) == r.units[1][1]
To(r) == r.units[Len(r.units)][2]

\* A region is a chain of units; one of a symbol lies inside it.
RegionIs(r, f, most) ==
  /\ r \in Region /\ Len(r.units) > 0 /\ Chain(r.units, From(r), To(r), f, most) /\ To(r) <= Len(f)
  /\ r.symbol # <<>> => r.symbol[1].start <= From(r) /\ To(r) <= r.symbol[1].end

\* Regions from one offset to another, without a gap.
Paved(rs, from, to, f, most) ==
  /\ rs \in Seq(Region) /\ from \in Nat /\ to \in Nat
  /\ Len(rs) = 0 => from = to
  /\ Len(rs) > 0 => From(rs[1]) = from /\ To(rs[Len(rs)]) = to
  /\ \A i \in 1 .. Len(rs) : RegionIs(rs[i], f, most)
  /\ \A i \in 1 .. Len(rs) : i > 1 => From(rs[i]) = To(rs[i - 1])

\* No region leads from the start to the start.
LEMMA NothingPaved ==
  ASSUME NEW f, NEW most
  PROVE  Paved(<<>>, 0, 0, f, most)
BY DEF Paved

\* One region more.
LEMMA PavedGrows ==
  ASSUME NEW rs, NEW from, NEW mid, NEW to \in Nat, NEW f, NEW most, Paved(rs, from, mid, f, most),
         NEW r, RegionIs(r, f, most), From(r) = mid, To(r) = to
  PROVE  Paved(Append(rs, r), from, to, f, most)
<1> DEFINE v == Append(rs, r)
           L == Len(rs)
<1>1. rs \in Seq(Region) /\ from \in Nat /\ mid \in Nat /\ L \in Nat /\ r \in Region
  BY DEF Paved, RegionIs
<1>2. v \in Seq(Region) /\ Len(v) = L + 1 /\ v[L + 1] = r /\ \A i \in 1 .. L : v[i] = rs[i]
  BY <1>1
<1>3. /\ L = 0 => from = mid
      /\ L > 0 => From(rs[1]) = from /\ To(rs[L]) = mid
      /\ \A i \in 1 .. L : RegionIs(rs[i], f, most)
      /\ \A i \in 1 .. L : i > 1 => From(rs[i]) = To(rs[i - 1])
  BY DEF Paved
<1> HIDE DEF v, L
<1>4. \A i \in 1 .. L + 1 : i = L + 1 \/ i \in 1 .. L
  BY <1>1
<1>5. From(v[1]) = from /\ To(v[L + 1]) = to
  <2>1. CASE L = 0
    BY <1>2, <1>3, <2>1
  <2>2. CASE L > 0
    <3>1. 1 \in 1 .. L
      BY <1>1, <2>2
    <3> QED BY <1>2, <1>3, <2>2, <3>1
  <2> QED BY <1>1, <2>1, <2>2
<1>6. \A i \in 1 .. L + 1 : RegionIs(v[i], f, most)
  <2> TAKE i \in 1 .. L + 1
  <2>1. CASE i = L + 1
    BY <1>2, <2>1
  <2>2. CASE i \in 1 .. L
    BY <1>2, <1>3, <2>2
  <2> QED BY <1>4, <2>1, <2>2
<1>7. \A i \in 1 .. L + 1 : i > 1 => From(v[i]) = To(v[i - 1])
  <2> SUFFICES ASSUME NEW i \in 1 .. L + 1, i > 1 PROVE From(v[i]) = To(v[i - 1])
    OBVIOUS
  <2>1. i - 1 \in 1 .. L
    BY <1>1
  <2>2. CASE i = L + 1
    <3>1. i - 1 = L /\ L > 0
      BY <1>1, <2>2
    <3> QED BY <1>2, <1>3, <2>1, <2>2, <3>1
  <2>3. CASE i \in 1 .. L
    BY <1>2, <1>3, <2>1, <2>3
  <2> QED BY <1>4, <2>2, <2>3
<1> DEFINE M == L + 1
<1>8. Len(v) = M /\ From(v[1]) = from /\ To(v[M]) = to /\ M > 0 /\ M # 0
  BY <1>1, <1>2, <1>5
<1> HIDE DEF M
<1>9. Paved(v, from, to, f, most)
  BY <1>1, <1>2, <1>6, <1>7, <1>8 DEF Paved, M
<1> QED BY <1>9 DEF v

\* The lines of a gap go on where the regions before it end.
LEMMA GapPaves ==
  ASSUME NEW f, FileIs(f), NEW rs, NEW mid \in Nat, NEW to \in Nat, mid <= to, to <= Len(f),
         IsBoundary(f, mid), IsBoundary(f, to), Paved(rs, 0, mid, f, Len(f))
  PROVE  Paved(rs \o Gap(f, mid, to), 0, to, f, Len(f))
<1>1. CASE mid = to
  <2>1. Gap(f, mid, to) = <<>>
    BY <1>1 DEF Gap
  <2>2. rs \in Seq(Region)
    BY DEF Paved
  <2>3. rs \o <<>> = rs
    BY <2>2
  <2> QED BY <1>1, <2>1, <2>3
<1>2. CASE mid < to
  <2> DEFINE u == LineUnits(f, mid, to)
             r == [units |-> u, symbol |-> <<>>]
  <2>1. Chain(u, mid, to, f, Len(f)) /\ Len(u) > 0
    BY <1>2, LineUnitsAre
  <2>2. Gap(f, mid, to) = <<r>>
    BY <1>2 DEF Gap
  <2> HIDE DEF u
  <2>3. u \in Seq(Nat \X Nat) /\ u[1][1] = mid /\ u[Len(u)][2] = to
    BY <2>1 DEF Chain
  <2>4. r \in Region /\ r.symbol = <<>> /\ r.units = u
    BY <2>3 DEF Region
  <2> HIDE DEF r
  <2>5. From(r) = mid /\ To(r) = to
    BY <2>3, <2>4 DEF From, To
  <2>6. RegionIs(r, f, Len(f))
    BY <2>1, <2>4, <2>5 DEF RegionIs
  <2>7. Paved(Append(rs, r), 0, to, f, Len(f))
    BY <2>5, <2>6, PavedGrows
  <2>8. rs \o <<r>> = Append(rs, r)
    <3>1. rs \in Seq(Region)
      BY DEF Paved
    <3> QED BY <2>4, <3>1
  <2> QED BY <2>2, <2>7, <2>8
<1> QED BY <1>1, <1>2

\* The span of a symbol goes on where the regions before it end.
LEMMA SymbolPaves ==
  ASSUME NEW f, FileIs(f), NEW rs, NEW s \in Span, s.start < s.end, s.end <= Len(f),
         IsBoundary(f, s.start), IsBoundary(f, s.end), Paved(rs, 0, s.start, f, Len(f))
  PROVE  Paved(rs \o <<[units |-> <<<<s.start, s.end>>>>, symbol |-> <<s>>]>>, 0, s.end, f, Len(f))
<1> DEFINE a == s.start
           b == s.end
           e == <<a, b>>
           u == <<e>>
           r == [units |-> u, symbol |-> <<s>>]
<1>1. a \in Nat /\ b \in Nat /\ Len(f) \in Nat
  BY DEF Span, FileIs
<1>2. e \in Nat \X Nat /\ e[1] = a /\ e[2] = b
  BY <1>1
<1> HIDE DEF e
<1>3. u \in Seq(Nat \X Nat) /\ Len(u) = 1 /\ u[1] = e
  BY <1>2
<1>4. r \in Region /\ r.units = u /\ r.symbol = <<s>> /\ r.symbol[1] = s
  BY <1>3 DEF Region
<1>5. a < b /\ b - a <= Len(f) /\ a <= b /\ IsBoundary(f, a) /\ IsBoundary(f, b) /\ b <= Len(f)
  BY <1>1
<1> HIDE DEF u
<1>6. Chain(u, a, b, f, Len(f))
  <2>1. \A i \in 1 .. Len(u) : i = 1
    BY <1>3
  <2> HIDE DEF a, b
  <2> QED BY <1>1, <1>2, <1>3, <1>5, <2>1 DEF Chain
<1> HIDE DEF r
<1>7. From(r) = a /\ To(r) = b
  BY <1>2, <1>3, <1>4 DEF From, To
<1>8. RegionIs(r, f, Len(f))
  <2>1. Len(r.units) > 0
    <3>1. r.units = u /\ Len(u) = 1
      BY <1>3, <1>4
    <3>2. Len(u) > 0
      BY <3>1
    <3> QED BY Zenon, <3>1, <3>2
  <2>2. a <= a /\ b <= b
    BY <1>1
  <2>3. r.symbol[1].start <= From(r) /\ To(r) <= r.symbol[1].end
    BY <1>4, <1>7, <2>2
  <2> QED BY <1>4, <1>5, <1>6, <1>7, <2>1, <2>3 DEF RegionIs
<1>9. Paved(Append(rs, r), 0, b, f, Len(f))
  BY <1>1, <1>7, <1>8, PavedGrows
<1>10. rs \o <<r>> = Append(rs, r)
  <2>1. rs \in Seq(Region)
    BY DEF Paved
  <2> QED BY <1>4, <2>1
<1> QED BY <1>9, <1>10 DEF r, u, e

\* A clamped span is one of whole characters inside the file.
LEMMA ClampedAre ==
  ASSUME NEW f, FileIs(f), NEW symbols \in SymbolSets[f], NEW s \in Clamped(f, symbols)
  PROVE  s \in Span /\ s.start < s.end /\ s.end <= Len(f) /\ IsBoundary(f, s.start) /\ IsBoundary(f, s.end)
<1>1. PICK t \in symbols : s = Clamp(f, t) /\ s.end > s.start
  BY DEF Clamped
<1>2. t \in [start : Nat, end : Nat] /\ Len(f) \in Nat
  BY DEF FileIs
<1>3. t.start \in Nat /\ t.end \in Nat
  BY <1>2
<1>4. IsBoundary(f, LeastOf(t.start, Len(f))) /\ IsBoundary(f, LeastOf(t.end, Len(f)))
  BY DEF FileIs
<1> DEFINE a == LeastOf(t.start, Len(f))
           b == LeastOf(t.end, Len(f))
<1>5. a \in Nat /\ b \in Nat /\ a <= Len(f) /\ b <= Len(f) /\ IsBoundary(f, a) /\ IsBoundary(f, b)
  BY <1>2, <1>3, <1>4 DEF LeastOf
<1>6. s = [start |-> a, end |-> MostOf(b, a)]
  BY <1>1 DEF Clamp
<1> HIDE DEF a, b
<1>7. MostOf(b, a) \in Nat /\ MostOf(b, a) <= Len(f) /\ IsBoundary(f, MostOf(b, a))
  BY <1>2, <1>5 DEF MostOf
<1> QED BY <1>1, <1>5, <1>6, <1>7 DEF Span

\* The walk takes a span that starts at the cursor or after it, if there is one.
LEMMA NextSpanIs ==
  ASSUME NEW spans \in SUBSET Span, NEW cursor \in Nat, NEW t \in spans, t.start >= cursor
  PROVE  NextSpan(spans, cursor) \in spans /\ NextSpan(spans, cursor).start >= cursor
<1>1. \A s \in spans : s.start \in Nat /\ s.end \in Nat
  BY DEF Span
<1> DEFINE A == {n \in Nat : \E s \in spans : s.start >= cursor /\ s.start = n}
<1>2. A \in SUBSET Nat /\ A # {}
  BY <1>1
<1>3. PICK a \in A : \A y \in A : a <= y
  BY <1>2, LeastNumber
<1> DEFINE B == {n \in Nat : \E s \in spans : s.start >= cursor /\ s.start = a /\ s.end = n}
<1>4. B \in SUBSET Nat /\ B # {}
  <2>1. PICK s \in spans : s.start >= cursor /\ s.start = a
    BY <1>3
  <2>2. s.end \in B
    BY <1>1, <2>1
  <2> QED BY <2>2
<1>5. PICK b \in B : \A y \in B : b <= y
  BY <1>4, LeastNumber
<1>6. PICK s \in spans : s.start >= cursor /\ s.start = a /\ s.end = b
  BY <1>5
<1>7. \A r \in spans : r.start >= cursor => s.start < r.start \/ (s.start = r.start /\ s.end <= r.end)
  <2> SUFFICES ASSUME NEW r \in spans, r.start >= cursor
               PROVE  s.start < r.start \/ (s.start = r.start /\ s.end <= r.end)
    OBVIOUS
  <2>1. r.start \in A
    BY <1>1
  <2>2. a <= r.start
    BY <1>3, <2>1
  <2>3. CASE r.start = a
    <3>1. r.end \in B
      BY <1>1, <2>3
    <3> QED BY <1>5, <1>6, <2>3, <3>1
  <2> QED BY <1>1, <1>6, <2>2, <2>3
<1> QED BY <1>6, <1>7 DEF NextSpan

\* Where SymbolRegions is: an offset, and the regions before it.
Walk == [start : Nat, out : Seq(Region)]

\* The regions along symbols pave the file.
LEMMA SymbolRegionsAre ==
  ASSUME NEW f, FileIs(f), NEW symbols \in SymbolSets[f]
  PROVE  Paved(SymbolRegions(f, symbols), 0, Len(f), f, Len(f))
<1> DEFINE spans == Clamped(f, symbols)
           N == Len(f)
           Z == [start |-> 0, out |-> <<>>]
           Done(s) == \A t \in spans : t.start < s.start
           Body(n, s) == LET before == s
                             sp == NextSpan(spans, before.start)
                         IN  IF \A t \in spans : t.start < before.start THEN before
                             ELSE [start |-> sp.end,
                                   out |-> before.out \o Gap(f, before.start, sp.start)
                                           \o <<[units |-> <<<<sp.start, sp.end>>>>, symbol |-> <<sp>>]>>]
           S == {s \in Walk : s.start <= N /\ IsBoundary(f, s.start) /\ Paved(s.out, 0, s.start, f, N)}
           step == [n \in 1 .. N |-> [s \in S |-> Body(n, s)]]
           Eq(h) == h = [n \in 0 .. N |-> IF n = 0 THEN Z ELSE Body(n, h[n - 1])]
           g == CHOOSE h : Eq(h)
<1>1. SymbolRegions(f, symbols) = g[N].out \o Gap(f, g[N].start, N)
  BY DEF SymbolRegions
<1>2. N \in Nat /\ IsBoundary(f, 0) /\ IsBoundary(f, N)
  BY FileEnds DEF FileIs
<1>3. Z \in S
  <2>1. Z \in Walk /\ Z.start = 0 /\ Z.out = <<>>
    BY DEF Walk
  <2>2. Paved(<<>>, 0, 0, f, N) /\ 0 <= N
    BY <1>2, NothingPaved
  <2> HIDE DEF Z, N
  <2> QED BY <1>2, <2>1, <2>2
<1>4. spans \in SUBSET Span
  BY ClampedAre
<1>5. ASSUME NEW n, NEW s \in S PROVE Body(n, s) \in S
  <2> DEFINE a == s.start
             o == s.out
             sp == NextSpan(spans, a)
             new == [units |-> <<<<sp.start, sp.end>>>>, symbol |-> <<sp>>]
             o2 == o \o Gap(f, a, sp.start) \o <<new>>
  <2>1. a \in Nat /\ o \in Seq(Region) /\ a <= N /\ IsBoundary(f, a) /\ Paved(o, 0, a, f, N)
    BY DEF Walk
  <2>2. CASE Done(s)
    BY <2>2
  <2>3. CASE ~Done(s)
    <3>1. Body(n, s) = [start |-> sp.end, out |-> o2]
      BY <2>3
    <3> HIDE DEF spans, a, o, Body
    <3>2. PICK t \in spans : ~(t.start < a)
      BY <2>3 DEF a
    <3>3. t.start \in Nat
      BY <1>4, <3>2 DEF Span
    <3>4. sp \in spans /\ sp.start >= a
      BY <1>4, <2>1, <3>2, <3>3, NextSpanIs
    <3>5. sp \in Span /\ sp.start < sp.end /\ sp.end <= N /\ IsBoundary(f, sp.start) /\ IsBoundary(f, sp.end)
      BY <3>4, ClampedAre DEF spans
    <3> HIDE DEF sp
    <3>6. sp.start \in Nat /\ sp.end \in Nat
      BY <3>5 DEF Span
    <3> DEFINE o1 == o \o Gap(f, a, sp.start)
    <3>7. a <= sp.start /\ sp.start <= N
      BY <1>2, <2>1, <3>4, <3>5, <3>6
    <3>8. Paved(o1, 0, sp.start, f, N)
      BY <2>1, <3>5, <3>6, <3>7, GapPaves
    <3> HIDE DEF o1
    <3>9. Paved(o1 \o <<new>>, 0, sp.end, f, N)
      BY <3>5, <3>8, SymbolPaves
    <3>10. o2 = o1 \o <<new>>
      BY DEF o1
    <3> HIDE DEF o2
    <3>11. o2 \in Seq(Region) /\ Paved(o2, 0, sp.end, f, N)
      BY <3>9, <3>10 DEF Paved
    <3>12. [start |-> sp.end, out |-> o2] \in Walk
      BY <3>6, <3>11 DEF Walk
    <3> QED BY <3>1, <3>5, <3>11, <3>12
  <2> QED BY <2>2, <2>3
<1> HIDE DEF Body, S, Z, N
<1>6. IsStep(step, N, S) /\ \A n \in 1 .. N, s \in S : step[n][s] = Body(n, s)
  BY <1>5 DEF IsStep
<1> HIDE DEF step
<1>7. PICK h : Iterates(h, N, S, Z, step)
  BY Zenon, <1>2, <1>3, <1>6, Recursion
<1>8. h \in [0 .. N -> S] /\ h[0] = Z /\ \A n \in 1 .. N : h[n] = Body(n, h[n - 1])
  <2>1. h \in [0 .. N -> S] /\ h[0] = Z /\ \A n \in 1 .. N : h[n] = step[n][h[n - 1]]
    BY <1>7 DEF Iterates
  <2>2. \A n \in 1 .. N : h[n - 1] \in S
    BY <1>2, <2>1
  <2> QED BY <1>6, <2>1, <2>2
<1>9. Eq(h)
  BY <1>2, <1>8
<1>10. Eq(g)
  BY <1>9
<1> HIDE DEF g
<1>11. g[0] = Z /\ g = [n \in 0 .. N |-> g[n]] /\ \A n \in 1 .. N : g[n] = Body(n, g[n - 1])
  <2>1. 0 \in 0 .. N /\ \A n \in 1 .. N : n \in 0 .. N /\ n # 0
    BY <1>2
  <2>2. g = [n \in 0 .. N |-> IF n = 0 THEN Z ELSE Body(n, g[n - 1])]
    BY <1>10
  <2>3. g[0] = Z
    BY <2>1, <2>2
  <2>4. g = [n \in 0 .. N |-> g[n]]
    BY <2>2
  <2>5. \A n \in 1 .. N : g[n] = Body(n, g[n - 1])
    BY <2>1, <2>2
  <2> QED BY <2>3, <2>4, <2>5
<1>12. Iterates(g, N, S, Z, step)
  <2>1. \A n \in 1 .. N : g[n - 1] \in S => g[n] = step[n][g[n - 1]]
    BY <1>6, <1>11
  <2> QED BY Zenon, <1>2, <1>3, <1>6, <1>11, <2>1, Unfolds
<1>13. g[N] \in S
  BY <1>2, <1>12 DEF Iterates
<1> DEFINE a == g[N].start
           o == g[N].out
<1>14. a \in Nat /\ a <= N /\ IsBoundary(f, a) /\ Paved(o, 0, a, f, N)
  BY <1>13 DEF S, Walk
<1> HIDE DEF a, o
<1>15. Paved(o \o Gap(f, a, N), 0, N, f, N)
  BY <1>2, <1>14, GapPaves DEF N
<1> QED BY <1>1, <1>15 DEF a, o, N

\* Cut to the bound, regions pave the file still.
LEMMA BoundedPave ==
  ASSUME NEW f, FileIs(f), NEW raw, Paved(raw, 0, Len(f), f, Len(f)), NEW rs,
         rs = [i \in DOMAIN raw |-> [raw[i] EXCEPT !.units = BoundedUnits(f, @)]]
  PROVE  Paved(rs, 0, Len(f), f, MaxChunk)
<1> DEFINE L == Len(raw)
<1>1. raw \in Seq(Region) /\ L \in Nat /\ DOMAIN raw = 1 .. L /\ Len(f) \in Nat
  BY DEF Paved, FileIs
<1>2. /\ L = 0 => 0 = Len(f)
      /\ L > 0 => From(raw[1]) = 0 /\ To(raw[L]) = Len(f)
      /\ \A i \in 1 .. L : RegionIs(raw[i], f, Len(f))
      /\ \A i \in 1 .. L : i > 1 => From(raw[i]) = To(raw[i - 1])
  BY DEF Paved
<1> HIDE DEF L
<1>3. ASSUME NEW i \in 1 .. L
      PROVE  RegionIs(rs[i], f, MaxChunk) /\ From(rs[i]) = From(raw[i]) /\ To(rs[i]) = To(raw[i])
  <2> DEFINE r == raw[i]
             u == r.units
             w == BoundedUnits(f, u)
             q == rs[i]
             a == From(r)
             b == To(r)
  <2>1. /\ r \in Region /\ Len(u) > 0 /\ Chain(u, a, b, f, Len(f)) /\ b <= Len(f)
        /\ r.symbol # <<>> => r.symbol[1].start <= a /\ b <= r.symbol[1].end
    BY <1>2 DEF RegionIs
  <2>2. q = [r EXCEPT !.units = w]
    BY <1>1
  <2> HIDE DEF r, q, u
  <2>3. r.symbol \in Seq(Span)
    BY <2>1 DEF Region
  <2>4. Chain(w, a, b, f, MaxChunk) /\ Len(w) > 0
    BY <2>1, BoundedUnitsAre
  <2> HIDE DEF w, a, b
  <2>5. w \in Seq(Nat \X Nat) /\ w[1][1] = a /\ w[Len(w)][2] = b
    BY <2>4 DEF Chain
  <2>6. q.units = w /\ q.symbol = r.symbol /\ q \in Region
    BY <2>1, <2>2, <2>5 DEF Region
  <2>7. From(q) = a /\ To(q) = b
    BY <2>5, <2>6 DEF From, To
  <2>8. RegionIs(q, f, MaxChunk)
    BY <2>1, <2>4, <2>6, <2>7 DEF RegionIs
  <2> QED BY <2>7, <2>8 DEF q, a, b, r
<1>4. rs \in Seq(Region) /\ Len(rs) = L
  <2>1. \A i \in 1 .. L : rs[i] \in Region
    BY <1>3 DEF RegionIs
  <2>2. rs = [i \in 1 .. L |-> rs[i]]
    BY <1>1
  <2> QED BY <1>1, <2>1, <2>2
<1>5. L > 0 => From(rs[1]) = 0 /\ To(rs[L]) = Len(f)
  <2>1. L > 0 => 1 \in 1 .. L /\ L \in 1 .. L
    BY <1>1
  <2> QED BY <1>2, <1>3, <2>1
<1>6. \A i \in 1 .. L : i > 1 => From(rs[i]) = To(rs[i - 1])
  <2>1. \A i \in 1 .. L : i > 1 => i - 1 \in 1 .. L
    BY <1>1
  <2> QED BY <1>2, <1>3, <2>1
<1> QED BY <1>1, <1>2, <1>3, <1>4, <1>5, <1>6 DEF Paved

\* The regions a file is cut into.
LEMMA RegionsAre ==
  ASSUME NEW f \in Files, NEW symbols \in {{}} \cup SymbolSets[f]
  PROVE  Paved(Regions(f, symbols), 0, Len(f), f, MaxChunk)
<1> DEFINE raw == IF symbols = {} THEN Gap(f, 0, Len(f)) ELSE SymbolRegions(f, symbols)
           rs == [i \in DOMAIN raw |-> [raw[i] EXCEPT !.units = BoundedUnits(f, @)]]
<1>1. FileIs(f) /\ Len(f) \in Nat
  BY FilesAre DEF FileIs
<1>2. Paved(raw, 0, Len(f), f, Len(f))
  <2>1. CASE symbols = {}
    <3>1. Paved(<<>>, 0, 0, f, Len(f)) /\ IsBoundary(f, 0) /\ IsBoundary(f, Len(f)) /\ 0 <= Len(f) /\ Len(f) <= Len(f)
      BY <1>1, NothingPaved, FileEnds
    <3>2. Paved(<<>> \o Gap(f, 0, Len(f)), 0, Len(f), f, Len(f))
      BY <1>1, <3>1, GapPaves
    <3>3. <<>> \o Gap(f, 0, Len(f)) = Gap(f, 0, Len(f))
      BY DEF Gap
    <3> QED BY <2>1, <3>2, <3>3
  <2>2. CASE symbols # {}
    BY <1>1, <2>2, SymbolRegionsAre
  <2> QED BY <2>1, <2>2
<1>3. Regions(f, symbols) = rs
  BY DEF Regions
<1> HIDE DEF raw
<1>4. Paved(rs, 0, Len(f), f, MaxChunk)
  BY <1>1, <1>2, BoundedPave
<1> QED BY <1>3, <1>4

\* Chunks, and what is asked of one.
Piece == [start : Nat, end : Nat, symbol : Seq(Span)]
PieceOf(c, f) ==
  /\ c \in Piece /\ c.start < c.end /\ c.end <= c.start + MaxChunk
  /\ IsBoundary(f, c.start) /\ IsBoundary(f, c.end)
  /\ c.symbol # <<>> => c.symbol[1].start <= c.start /\ c.end <= c.symbol[1].end

\* The chunks made when the next one starts at pos: in order, and every byte
\* up to there in one of them, unless a region was given up.
Indexed(all, pos, full, f) ==
  /\ all \in Seq(Piece) /\ pos \in Nat
  /\ \A i \in 1 .. Len(all) : PieceOf(all[i], f) /\ all[i].start < pos
  /\ \A i, j \in 1 .. Len(all) : i < j => all[i].start < all[j].start
  /\ full \/ \A b \in 1 .. pos : \E i \in 1 .. Len(all) : all[i].start < b /\ b <= all[i].end

\* Before the first chunk nothing is asked for.
LEMMA NothingIndexed ==
  ASSUME NEW f, NEW full
  PROVE  Indexed(<<>>, 0, full, f)
BY DEF Indexed

\* One chunk more, from where the next one was to start.
LEMMA IndexedGrows ==
  ASSUME NEW all, NEW pos, NEW full, NEW f, Indexed(all, pos, full, f), NEW c, PieceOf(c, f), c.start = pos,
         NEW next \in Nat, pos < next, next <= c.end
  PROVE  Indexed(Append(all, c), next, full, f)
<1> DEFINE v == Append(all, c)
           L == Len(all)
<1>1. all \in Seq(Piece) /\ L \in Nat /\ c \in Piece /\ pos \in Nat
  BY DEF Indexed, PieceOf
<1>2. v \in Seq(Piece) /\ Len(v) = L + 1 /\ v[L + 1] = c /\ \A i \in 1 .. L : v[i] = all[i]
  BY <1>1
<1>3. /\ \A i \in 1 .. L : PieceOf(all[i], f) /\ all[i].start < pos /\ all[i].start \in Nat
      /\ \A i, j \in 1 .. L : i < j => all[i].start < all[j].start
      /\ full \/ \A b \in 1 .. pos : \E i \in 1 .. L : all[i].start < b /\ b <= all[i].end
  BY DEF Indexed, PieceOf, Piece
<1>4. c.end \in Nat
  BY <1>1 DEF Piece
<1> HIDE DEF v, L
<1>5. \A i \in 1 .. L + 1 : i = L + 1 \/ i \in 1 .. L
  BY <1>1
<1>6. \A i \in 1 .. L + 1 : PieceOf(v[i], f) /\ v[i].start < next
  <2> TAKE i \in 1 .. L + 1
  <2>1. CASE i = L + 1
    BY <1>2, <2>1
  <2>2. CASE i \in 1 .. L
    <3>1. v[i] = all[i] /\ PieceOf(all[i], f) /\ all[i].start < pos /\ all[i].start \in Nat
      BY <1>2, <1>3, <2>2
    <3>2. all[i].start < next
      BY <1>1, <3>1
    <3> QED BY <3>1, <3>2
  <2> QED BY <1>5, <2>1, <2>2
<1>7. \A i, j \in 1 .. L + 1 : i < j => v[i].start < v[j].start
  <2> SUFFICES ASSUME NEW i \in 1 .. L + 1, NEW j \in 1 .. L + 1, i < j PROVE v[i].start < v[j].start
    OBVIOUS
  <2>1. i \in 1 .. L
    BY <1>1
  <2>2. CASE j = L + 1
    BY <1>2, <1>3, <2>1, <2>2
  <2>3. CASE j \in 1 .. L
    BY <1>2, <1>3, <2>1, <2>3
  <2> QED BY <1>5, <2>2, <2>3
<1>8. full \/ \A b \in 1 .. next : \E i \in 1 .. L + 1 : v[i].start < b /\ b <= v[i].end
  <2> SUFFICES ASSUME ~full, NEW b \in 1 .. next PROVE \E i \in 1 .. L + 1 : v[i].start < b /\ b <= v[i].end
    OBVIOUS
  <2>1. CASE b <= pos
    <3>1. b \in 1 .. pos
      BY <1>1, <2>1
    <3>2. PICK i \in 1 .. L : all[i].start < b /\ b <= all[i].end
      BY <1>3, <3>1
    <3>3. i \in 1 .. L + 1
      BY <1>1
    <3> QED BY <1>2, <3>2, <3>3
  <2>2. CASE b > pos
    <3>1. L + 1 \in 1 .. L + 1 /\ c.start < b /\ b <= c.end
      BY <1>1, <1>4, <2>2
    <3> QED BY <1>2, <3>1
  <2> QED BY <1>1, <2>1, <2>2
<1>9. Indexed(v, next, full, f)
  <2> DEFINE M == L + 1
  <2>1. Len(v) = M
    BY <1>2
  <2> HIDE DEF M
  <2> QED BY <1>2, <1>6, <1>7, <1>8, <2>1 DEF Indexed, M
<1> QED BY <1>9 DEF v

\* The end of a region, reached or given up.
LEMMA IndexedSkips ==
  ASSUME NEW all, NEW pos, NEW full, NEW f, Indexed(all, pos, full, f), NEW next \in Nat, pos <= next,
         NEW given, full => given, pos = next \/ given
  PROVE  Indexed(all, next, given, f)
<1> DEFINE L == Len(all)
<1>1. /\ all \in Seq(Piece) /\ pos \in Nat
      /\ \A i \in 1 .. L : PieceOf(all[i], f) /\ all[i].start < pos /\ all[i].start \in Nat
      /\ \A i, j \in 1 .. L : i < j => all[i].start < all[j].start
      /\ full \/ \A b \in 1 .. pos : \E i \in 1 .. L : all[i].start < b /\ b <= all[i].end
  BY DEF Indexed, PieceOf, Piece
<1>2. \A i \in 1 .. L : all[i].start < next
  BY <1>1
<1> QED BY <1>1, <1>2 DEF Indexed

\* The regions after the first one start where it ends.
LEMMA TailPaved ==
  ASSUME NEW rs, NEW from, NEW to, NEW f, NEW most, Paved(rs, from, to, f, most), rs # <<>>
  PROVE  /\ RegionIs(rs[1], f, most) /\ From(rs[1]) = from /\ From(rs[1]) \in Nat /\ To(rs[1]) \in Nat
         /\ Paved(Tail(rs), To(rs[1]), to, f, most)
<1> DEFINE L == Len(rs)
           t == Tail(rs)
<1>1. /\ rs \in Seq(Region) /\ from \in Nat /\ to \in Nat /\ L \in Nat
      /\ L > 0 => From(rs[1]) = from /\ To(rs[L]) = to
      /\ \A i \in 1 .. L : RegionIs(rs[i], f, most)
      /\ \A i \in 1 .. L : i > 1 => From(rs[i]) = To(rs[i - 1])
  BY DEF Paved
<1>2. L > 0 /\ 1 \in 1 .. L
  BY <1>1
<1>3. t \in Seq(Region) /\ Len(t) = L - 1 /\ \A i \in 1 .. L - 1 : t[i] = rs[i + 1]
  BY <1>1
<1>4. RegionIs(rs[1], f, most) /\ From(rs[1]) = from
  BY <1>1, <1>2
<1>5. To(rs[1]) \in Nat
  BY <1>4 DEF RegionIs, Chain
<1> HIDE DEF t, L
<1> DEFINE M == L - 1
<1>6. M \in Nat /\ Len(t) = M
  BY <1>1, <1>2, <1>3
<1>7. M = 0 => To(rs[1]) = to
  BY <1>1, <1>2
<1>8. M > 0 => From(t[1]) = To(rs[1]) /\ To(t[M]) = to
  <2> SUFFICES ASSUME M > 0 PROVE From(t[1]) = To(rs[1]) /\ To(t[M]) = to
    OBVIOUS
  <2>1. 1 \in 1 .. M /\ M \in 1 .. M /\ M + 1 = L /\ 2 \in 1 .. L /\ 2 > 1 /\ 2 - 1 = 1 /\ 1 + 1 = 2
    BY <1>1, <1>2
  <2>2. t[1] = rs[2] /\ t[M] = rs[L]
    BY <1>3, <2>1
  <2>3. From(rs[2]) = To(rs[2 - 1])
    BY <1>1, <2>1
  <2>4. From(rs[2]) = To(rs[1])
    BY <2>1, <2>3
  <2> QED BY <1>1, <1>2, <2>2, <2>4
<1>9. \A i \in 1 .. M : RegionIs(t[i], f, most)
  <2> TAKE i \in 1 .. M
  <2>1. i + 1 \in 1 .. L
    BY <1>1, <1>2
  <2> QED BY <1>1, <1>3, <2>1
<1>10. \A i \in 1 .. M : i > 1 => From(t[i]) = To(t[i - 1])
  <2> SUFFICES ASSUME NEW i \in 1 .. M, i > 1 PROVE From(t[i]) = To(t[i - 1])
    OBVIOUS
  <2>1. i + 1 \in 1 .. L /\ i + 1 > 1 /\ (i + 1) - 1 = i /\ i - 1 \in 1 .. M /\ (i - 1) + 1 = i
    BY <1>1, <1>2
  <2>2. t[i] = rs[i + 1] /\ t[i - 1] = rs[i]
    BY <1>3, <2>1
  <2>3. From(rs[i + 1]) = To(rs[(i + 1) - 1])
    BY <1>1, <2>1
  <2>4. From(rs[i + 1]) = To(rs[i])
    BY <2>1, <2>3
  <2> QED BY <2>2, <2>4
<1> HIDE DEF M
<1>11. Paved(t, To(rs[1]), to, f, most)
  BY <1>1, <1>3, <1>5, <1>6, <1>7, <1>8, <1>9, <1>10 DEF Paved
<1> QED BY <1>1, <1>4, <1>5, <1>11 DEF t

\* The units a chunk joins, and where the next one starts.
LEMMA JoinedIs ==
  ASSUME NEW u, NEW from, NEW to, NEW f, Chain(u, from, to, f, MaxChunk), NEW i \in 1 .. Len(u), sizes.target \in 1 .. MaxChunk
  PROVE  JoinedTo(u, i) \in i .. Len(u) /\ u[JoinedTo(u, i)][2] - u[i][1] <= MaxChunk
<1> DEFINE L == Len(u)
           J == {i} \cup {j \in i + 1 .. L : u[j][2] - u[i][1] <= sizes.target}
<1>1. L \in Nat /\ MaxChunk \in Nat /\ u[i][2] - u[i][1] <= MaxChunk
  BY ChunksAssumption DEF Chain
<1>2. \A k \in 1 .. L : u[k][1] \in Nat /\ u[k][2] \in Nat
  BY ChainOrdered
<1>3. JoinedTo(u, i) = Max(J)
  BY DEF JoinedTo
<1> HIDE DEF L
<1>4. i \in Nat /\ i \in 1 .. L
  BY DEF L
<1>5. J \in SUBSET (0 .. L) /\ J # {}
  BY <1>1, <1>4
<1>6. Max(J) \in J
  <2> HIDE DEF J
  <2> QED BY <1>1, <1>5, MaxIs
<1>7. CASE Max(J) = i
  <2>1. i \in i .. L
    BY <1>1, <1>4
  <2> QED BY <1>1, <1>3, <1>7, <2>1 DEF L
<1>8. CASE Max(J) # i
  <2> DEFINE j == Max(J)
  <2>1. j \in i + 1 .. L /\ u[j][2] - u[i][1] <= sizes.target
    BY <1>6, <1>8
  <2> HIDE DEF j
  <2>2. j \in i .. L /\ j \in 1 .. L
    BY <1>1, <1>4, <2>1
  <2>3. u[j][2] \in Nat /\ u[i][1] \in Nat
    BY <1>2, <1>4, <2>2
  <2>4. u[j][2] - u[i][1] <= MaxChunk
    <3> DEFINE d == u[j][2] - u[i][1]
    <3>1. d \in Int /\ d <= sizes.target
      BY <2>1, <2>3
    <3> HIDE DEF d
    <3>2. d <= MaxChunk
      BY <1>1, <3>1
    <3> QED BY <3>2 DEF d
  <2> QED BY <1>3, <2>2, <2>4 DEF j, L
<1> QED BY <1>7, <1>8

\* The next chunk starts further on, and no further than this one reaches.
LEMMA NextUnitIs ==
  ASSUME NEW u, NEW i \in Nat, NEW j \in Nat, i <= j
  PROVE  NextUnit(u, i, j) \in i + 1 .. j + 1
<1> DEFINE back == {k \in i + 1 .. j : u[k][1] >= u[j][2] - sizes.overlap /\ u[k][1] > u[i][1]}
<1>1. NextUnit(u, i, j) = IF back = {} THEN j + 1 ELSE Min(back)
  BY DEF NextUnit
<1>2. back \in SUBSET Nat /\ \A k \in back : k \in i + 1 .. j
  OBVIOUS
<1> HIDE DEF back
<1>3. CASE back = {}
  BY <1>1, <1>3
<1>4. CASE back # {}
  <2>1. Min(back) \in back
    BY <1>2, <1>4, MinIs
  <2>2. Min(back) \in i + 1 .. j
    BY <1>2, <2>1
  <2> QED BY <1>1, <1>4, <2>2
<1> QED BY <1>3, <1>4

\* The offset of a unit, or the end of the region after the last.
OffsetOf(r, i) == IF i <= Len(r.units) THEN r.units[i][1] ELSE To(r)

\* The offset of a unit lies in its region.
LEMMA OffsetIs ==
  ASSUME NEW r, NEW f, RegionIs(r, f, MaxChunk), NEW i \in 1 .. Len(r.units) + 1
  PROVE  OffsetOf(r, i) \in Nat /\ OffsetOf(r, i) <= To(r)
<1> DEFINE u == r.units
<1>1. Chain(u, From(r), To(r), f, MaxChunk) /\ Len(u) \in Nat /\ To(r) \in Nat
  BY DEF RegionIs, Chain
<1>2. \A k \in 1 .. Len(u) : u[k][1] \in Nat /\ u[k][2] \in Nat /\ u[k][2] <= To(r)
  BY <1>1, ChainOrdered
<1>3. \A k \in 1 .. Len(u) : u[k][1] < u[k][2]
  BY <1>1 DEF Chain
<1>4. CASE i <= Len(u)
  <2>1. i \in 1 .. Len(u)
    BY <1>1, <1>4
  <2>2. OffsetOf(r, i) = u[i][1]
    BY <1>4 DEF OffsetOf
  <2>3. u[i][1] \in Nat /\ u[i][2] \in Nat /\ u[i][1] < u[i][2] /\ u[i][2] <= To(r)
    BY <1>2, <1>3, <2>1
  <2> QED BY <1>1, <2>2, <2>3
<1>5. CASE ~(i <= Len(u))
  BY <1>1, <1>5 DEF OffsetOf
<1> QED BY <1>4, <1>5

\* A chunk is whole characters of its region, and the next one starts in it or at its end.
LEMMA ChunkIs ==
  ASSUME NEW r, NEW f, RegionIs(r, f, MaxChunk), NEW i \in 1 .. Len(r.units), sizes.target \in 1 .. MaxChunk,
         NEW j, j = JoinedTo(r.units, i), NEW c, c = [start |-> r.units[i][1], end |-> r.units[j][2], symbol |-> r.symbol],
         NEW k, k = NextUnit(r.units, i, j)
  PROVE  /\ PieceOf(c, f) /\ c.start = OffsetOf(r, i) /\ k \in 1 .. Len(r.units) + 1
         /\ OffsetOf(r, i) < OffsetOf(r, k) /\ OffsetOf(r, k) <= c.end
<1> DEFINE u == r.units
           L == Len(u)
<1>1. /\ Chain(u, From(r), To(r), f, MaxChunk) /\ L \in Nat /\ r \in Region
      /\ r.symbol # <<>> => r.symbol[1].start <= From(r) /\ To(r) <= r.symbol[1].end
  <2>1. /\ Chain(u, From(r), To(r), f, MaxChunk) /\ r \in Region
        /\ r.symbol # <<>> => r.symbol[1].start <= From(r) /\ To(r) <= r.symbol[1].end
    BY Zenon DEF RegionIs
  <2>2. L \in Nat
    <3>1. u \in Seq(Nat \X Nat)
      BY <2>1 DEF Chain
    <3> HIDE DEF u
    <3> QED BY <3>1
  <2> QED BY <2>1, <2>2
<1>2. j \in i .. L /\ u[j][2] - u[i][1] <= MaxChunk
  BY <1>1, JoinedIs
<1>3. i \in Nat /\ j \in Nat /\ i <= j /\ j \in 1 .. L /\ MaxChunk \in Nat
  BY <1>1, <1>2, ChunksAssumption
<1>4. k \in i + 1 .. j + 1
  BY <1>3, NextUnitIs
<1>5. /\ \A m, n \in 1 .. L : m < n => u[m][2] <= u[n][1]
      /\ \A n \in 1 .. L : u[n][1] \in Nat /\ u[n][2] \in Nat /\ From(r) <= u[n][1] /\ u[n][2] <= To(r)
  BY <1>1, ChainOrdered
<1>6. /\ \A n \in 1 .. L : u[n][1] < u[n][2] /\ IsBoundary(f, u[n][1]) /\ IsBoundary(f, u[n][2])
      /\ \A n \in 1 .. L : n > 1 => u[n][1] = u[n - 1][2]
      /\ L > 0 => u[L][2] = To(r)
      /\ From(r) \in Nat /\ To(r) \in Nat
  BY <1>1 DEF Chain
<1>7. r.symbol \in Seq(Span)
  BY <1>1 DEF Region
<1> DEFINE a == u[i][1]
           b == u[j][2]
<1>11. c = [start |-> a, end |-> b, symbol |-> r.symbol] /\ i \in 1 .. L
  OBVIOUS
<1>0. \A n \in Nat : OffsetOf(r, n) = IF n <= L THEN u[n][1] ELSE To(r)
  BY DEF OffsetOf
<1> HIDE DEF u, L
<1>8. a \in Nat /\ b \in Nat /\ IsBoundary(f, a) /\ IsBoundary(f, b) /\ From(r) <= a /\ b <= To(r) /\ b - a <= MaxChunk
  BY <1>2, <1>3, <1>5, <1>6, <1>11
<1>9. u[i][2] <= b /\ a < u[i][2] /\ u[i][2] \in Nat
  <2>1. a < u[i][2] /\ u[i][2] \in Nat /\ u[j][1] \in Nat /\ u[j][1] < u[j][2]
    BY <1>3, <1>5, <1>6, <1>11
  <2>2. i = j \/ u[i][2] <= u[j][1]
    BY <1>3, <1>5, <1>11
  <2>3. CASE i = j
    BY <2>1, <2>3
  <2>4. CASE u[i][2] <= u[j][1]
    BY ONLY <1>8, <2>1, <2>4
  <2> QED BY <2>1, <2>2, <2>3, <2>4
<1>10. a < b
  BY <1>8, <1>9
<1>12. OffsetOf(r, i) = a
  BY <1>0, <1>1, <1>3, <1>11
<1>13. k \in 1 .. L + 1
  BY <1>1, <1>3, <1>4
<1>14. a < OffsetOf(r, k) /\ OffsetOf(r, k) <= b
  <2>1. CASE k <= L
    <3>1. k \in 1 .. L /\ i < k /\ k \in Nat
      BY <1>1, <1>3, <1>4, <2>1
    <3>2. OffsetOf(r, k) = u[k][1] /\ u[k][1] \in Nat /\ u[k][2] \in Nat /\ u[k][1] < u[k][2]
      BY <1>0, <1>5, <1>6, <2>1, <3>1
    <3>3. u[i][2] <= u[k][1]
      BY <1>5, <1>11, <3>1
    <3>4. a < u[k][1]
      BY ONLY <1>8, <1>9, <3>2, <3>3
    <3>5. u[k][1] <= b
      <4>1. CASE k = j + 1
        <5>1. k > 1 /\ k - 1 = j
          BY <1>3, <4>1
        <5>2. u[k][1] = u[k - 1][2]
          BY <1>6, <3>1, <5>1
        <5> QED BY <1>8, <5>1, <5>2
      <4>2. CASE k # j + 1
        <5>1. k = j \/ k < j
          BY <1>3, <1>4, <4>2
        <5>2. k = j \/ u[k][2] <= u[j][1]
          BY <1>3, <1>5, <3>1, <5>1
        <5>3. u[j][1] \in Nat /\ u[j][1] < u[j][2]
          BY <1>3, <1>5, <1>6
        <5>4. CASE k = j
          BY <3>2, <5>4
        <5>5. CASE u[k][2] <= u[j][1]
          <6> DEFINE w == u[k][1]  x == u[k][2]  y == u[j][1]
          <6>1. w \in Nat /\ x \in Nat /\ y \in Nat /\ b \in Nat /\ w < x /\ x <= y /\ y < b
            BY <1>8, <3>2, <5>3, <5>5
          <6> HIDE DEF w, x, y, b
          <6>2. w <= b
            BY <6>1
          <6> QED BY <6>2 DEF w
        <5> QED BY <5>2, <5>4, <5>5
      <4> QED BY <4>1, <4>2
    <3> QED BY <3>2, <3>4, <3>5
  <2>2. CASE ~(k <= L)
    <3>1. k = L + 1 /\ j = L /\ L > 0
      BY <1>1, <1>2, <1>3, <1>4, <2>2
    <3>2. OffsetOf(r, k) = To(r) /\ To(r) = b
      BY <1>0, <1>1, <1>6, <2>2, <3>1
    <3> QED BY <1>8, <1>10, <3>2
  <2> QED BY <2>1, <2>2
<1> HIDE DEF a, b
<1>15. c \in Piece /\ c.start = a /\ c.end = b /\ c.symbol = r.symbol
  BY <1>7, <1>8, <1>11 DEF Piece
<1>16. b <= a + MaxChunk
  BY <1>3, <1>8
<1>17. r.symbol # <<>> => r.symbol[1].start <= a /\ b <= r.symbol[1].end
  <2> SUFFICES ASSUME r.symbol # <<>> PROVE r.symbol[1].start <= a /\ b <= r.symbol[1].end
    OBVIOUS
  <2>1. r.symbol[1] \in Span
    BY <1>7
  <2>2. r.symbol[1].start \in Nat /\ r.symbol[1].end \in Nat
    BY <2>1 DEF Span
  <2>3. r.symbol[1].start <= From(r) /\ To(r) <= r.symbol[1].end
    BY <1>1
  <2>4. From(r) \in Nat /\ To(r) \in Nat
    BY <1>6
  <2> QED BY ONLY <1>8, <2>2, <2>3, <2>4
<1>18. PieceOf(c, f)
  BY <1>8, <1>10, <1>15, <1>16, <1>17 DEF PieceOf
<1> QED BY <1>12, <1>13, <1>14, <1>15, <1>18 DEF L, u

\* How far the file is cut.
Position == IF regions = <<>> THEN Len(file) ELSE OffsetOf(regions[1], unit)

\* What holds while a file is being cut.
Cutting ==
  \/ file = <<>> /\ regions = <<>> /\ made = <<>> /\ chunks = <<>>
  \/ /\ file \in Files /\ sizes.target \in 1 .. MaxChunk
     /\ \E from \in Nat : Paved(regions, from, Len(file), file, MaxChunk)
     /\ regions = <<>> => made = <<>>
     /\ regions # <<>> => unit \in 1 .. Len(regions[1].units) + 1
     /\ made \in Seq(Piece) /\ chunks \in Seq(Piece)
     /\ Indexed(chunks \o made, Position, Len(chunks) >= PerFile, file)

\* Chunker::chunk begins with regions that pave the file.
LEMMA ChunkKeepsCutting ==
  ASSUME NEW f \in Files, NEW symbols \in {{}} \cup SymbolSets[f], NEW target \in Targets, NEW overlap, NEW first,
         Chunk(f, symbols, target, overlap, first)
  PROVE  Cutting'
<1>1. /\ file' = f /\ sizes' = ChunkerSizes(target, overlap, first) /\ regions' = Regions(f, symbols)
      /\ unit' = 1 /\ made' = <<>> /\ chunks' = <<>>
  BY DEF Chunk
<1>2. sizes'.target \in 1 .. MaxChunk
  <2>1. target \in Nat /\ MaxChunk \in Nat \ {0}
    BY ChunksAssumption
  <2>2. sizes'.target = MostOf(1, LeastOf(target, MaxChunk))
    BY <1>1 DEF ChunkerSizes
  <2> QED BY <2>1, <2>2 DEF MostOf, LeastOf
<1> DEFINE rs == Regions(f, symbols)
<1>3. Paved(rs, 0, Len(f), f, MaxChunk)
  BY RegionsAre
<1>4. Len(f) \in Nat /\ Len(f) > 0
  BY FilesAre DEF FileIs
<1> HIDE DEF rs
<1>5. rs # <<>>
  <2>1. Len(rs) = 0 => 0 = Len(f)
    BY <1>3 DEF Paved
  <2> QED BY <1>4, <2>1
<1>6. RegionIs(rs[1], f, MaxChunk) /\ From(rs[1]) = 0
  BY <1>3, <1>5, TailPaved
<1>7. Len(rs[1].units) \in Nat /\ Len(rs[1].units) > 0
  <2>1. Len(rs[1].units) > 0 /\ rs[1].units \in Seq(Nat \X Nat)
    BY <1>6 DEF RegionIs, Chain
  <2> QED BY <2>1
<1>8. OffsetOf(rs[1], 1) = 0
  BY <1>6, <1>7 DEF OffsetOf, From
<1>9. Position' = 0
  BY <1>1, <1>5, <1>8 DEF Position, rs
<1>10. Indexed((chunks \o made)', 0, (Len(chunks) >= PerFile)', f)
  <2>1. (chunks \o made)' = <<>>
    BY <1>1
  <2> QED BY <2>1, NothingIndexed
<1>11. unit' \in 1 .. Len(rs[1].units) + 1
  BY <1>1, <1>7
<1>12. 0 \in Nat /\ <<>> \in Seq(Piece)
  OBVIOUS
<1> QED BY <1>1, <1>2, <1>3, <1>9, <1>10, <1>11, <1>12 DEF Cutting, rs

\* Chunker::assemble adds a chunk, or goes on to the next region.
LEMMA AssembleKeepsCutting ==
  ASSUME Cutting, AssembleOne
  PROVE  Cutting'
<1> DEFINE r == regions[1]
           all == chunks \o made
           j == JoinedTo(r.units, unit)
           c == [start |-> r.units[unit][1], end |-> r.units[j][2], symbol |-> r.symbol]
           full == Len(chunks) >= PerFile
           finish == unit > Len(r.units) \/ Len(made) >= PerFile
<1>1. /\ regions # <<>> /\ file' = file /\ sizes' = sizes
      /\ IF finish THEN chunks' = all /\ made' = <<>> /\ unit' = 1 /\ regions' = Tail(regions)
         ELSE made' = Append(made, c) /\ unit' = NextUnit(r.units, unit, j) /\ chunks' = chunks /\ regions' = regions
  BY DEF AssembleOne
<1>2. /\ file \in Files /\ sizes.target \in 1 .. MaxChunk
      /\ unit \in 1 .. Len(r.units) + 1
      /\ made \in Seq(Piece) /\ chunks \in Seq(Piece)
      /\ Indexed(all, OffsetOf(r, unit), full, file)
  BY <1>1 DEF Cutting, Position
<1>3. PICK from \in Nat : Paved(regions, from, Len(file), file, MaxChunk)
  BY <1>1 DEF Cutting
<1>4. /\ RegionIs(r, file, MaxChunk) /\ To(r) \in Nat
      /\ Paved(Tail(regions), To(r), Len(file), file, MaxChunk)
  BY <1>1, <1>3, TailPaved
<1>5. Len(file) \in Nat /\ PerFile \in Nat
  BY <1>2, FilesAre, ChunksAssumption DEF FileIs
<1> HIDE DEF r, j, c
<1>6. all \in Seq(Piece) /\ Len(all) = Len(chunks) + Len(made) /\ Len(chunks) \in Nat /\ Len(made) \in Nat
  BY <1>2
<1>7. Len(r.units) \in Nat
  <2>1. r.units \in Seq(Nat \X Nat)
    BY <1>4 DEF RegionIs, Chain
  <2> QED BY <2>1
<1>8. CASE finish
  <2> DEFINE rs == Tail(regions)
             given == Len(all) >= PerFile
  <2>1. chunks' = all /\ made' = <<>> /\ unit' = 1 /\ regions' = rs
    BY <1>1, <1>8
  <2>2. (chunks \o made)' = all
    BY <1>6, <2>1
  <2>3. Position' = To(r)
    <3> HIDE DEF rs
    <3>1. CASE rs = <<>>
      <4>1. Len(rs) = 0
        BY <3>1
      <4>2. To(r) = Len(file)
        BY <1>4, <4>1 DEF Paved, rs
      <4> QED BY <1>1, <2>1, <3>1, <4>2 DEF Position
    <3>2. CASE rs # <<>>
      <4>1. RegionIs(rs[1], file, MaxChunk) /\ From(rs[1]) = To(r)
        BY <1>4, <3>2, TailPaved DEF rs
      <4>2. Len(rs[1].units) > 0 /\ rs[1].units \in Seq(Nat \X Nat)
        BY <4>1 DEF RegionIs, Chain
      <4>3. 1 <= Len(rs[1].units)
        BY <4>2
      <4>4. OffsetOf(rs[1], 1) = To(r)
        BY <4>1, <4>3 DEF OffsetOf, From
      <4> QED BY <2>1, <3>2, <4>4 DEF Position
    <3> QED BY <3>1, <3>2
  <2>4. Indexed(all, To(r), given, file)
    <3>1. OffsetOf(r, unit) <= To(r)
      BY <1>2, <1>4, OffsetIs
    <3>2. full => given
      BY <1>5, <1>6
    <3>3. OffsetOf(r, unit) = To(r) \/ given
      <4>1. CASE unit > Len(r.units)
        <5>1. ~(unit <= Len(r.units))
          BY <1>2, <1>7, <4>1
        <5> QED BY <5>1 DEF OffsetOf
      <4>2. CASE Len(made) >= PerFile
        BY <1>5, <1>6, <4>2
      <4> QED BY <1>8, <4>1, <4>2
    <3> HIDE DEF all, full, given
    <3> QED BY <1>2, <1>4, <3>1, <3>2, <3>3, IndexedSkips
  <2>5. rs # <<>> => unit' \in 1 .. Len(rs[1].units) + 1
    <3> SUFFICES ASSUME rs # <<>> PROVE unit' \in 1 .. Len(rs[1].units) + 1
      OBVIOUS
    <3>1. RegionIs(rs[1], file, MaxChunk)
      BY <1>4, TailPaved
    <3> HIDE DEF rs
    <3>2. rs[1].units \in Seq(Nat \X Nat)
      BY <3>1 DEF RegionIs, Chain
    <3>3. Len(rs[1].units) \in Nat
      BY <3>2
    <3> QED BY <2>1, <3>3
  <2>6. <<>> \in Seq(Piece)
    OBVIOUS
  <2>7. (Len(chunks) >= PerFile)' = given
    BY <2>1
  <2>8. Indexed((chunks \o made)', Position', (Len(chunks) >= PerFile)', file')
    BY <1>1, <2>2, <2>3, <2>4, <2>7
  <2>9. \E m \in Nat : Paved(regions', m, Len(file'), file', MaxChunk)
    BY <1>1, <1>4, <2>1
  <2> HIDE DEF all, rs
  <2> QED BY <1>1, <1>2, <1>6, <2>1, <2>5, <2>6, <2>8, <2>9 DEF Cutting
<1>9. CASE ~finish
  <2>1. made' = Append(made, c) /\ unit' = NextUnit(r.units, unit, j) /\ chunks' = chunks /\ regions' = regions
    BY <1>1, <1>9
  <2>2. unit \in 1 .. Len(r.units)
    BY <1>2, <1>7, <1>9
  <2>3. /\ PieceOf(c, file) /\ c.start = OffsetOf(r, unit) /\ unit' \in 1 .. Len(r.units) + 1
        /\ OffsetOf(r, unit) < OffsetOf(r, unit') /\ OffsetOf(r, unit') <= c.end
    BY <1>2, <1>4, <2>1, <2>2, ChunkIs DEF j, c
  <2>4. OffsetOf(r, unit') \in Nat
    BY <1>4, <2>3, OffsetIs
  <2>5. Indexed(Append(all, c), OffsetOf(r, unit'), full, file)
    <3> HIDE DEF all, full
    <3> QED BY <1>2, <2>3, <2>4, IndexedGrows
  <2>6. c \in Piece
    BY <2>3 DEF PieceOf
  <2>7. (chunks \o made)' = Append(all, c) /\ made' \in Seq(Piece)
    BY <1>2, <2>1, <2>6
  <2>8. Position' = OffsetOf(r, unit')
    BY <1>1, <2>1 DEF Position, r
  <2>9. Indexed((chunks \o made)', Position', (Len(chunks) >= PerFile)', file')
    BY <1>1, <2>1, <2>5, <2>7, <2>8
  <2>10. regions' # <<>> /\ unit' \in 1 .. Len(regions'[1].units) + 1
    BY <1>1, <2>1, <2>3 DEF r
  <2>11. \E m \in Nat : Paved(regions', m, Len(file'), file', MaxChunk)
    BY <1>1, <1>3, <2>1
  <2> QED BY <1>1, <1>2, <2>1, <2>7, <2>9, <2>10, <2>11 DEF Cutting
<1> QED BY <1>8, <1>9

\* Every step of the chunker keeps what holds while a file is cut.
LEMMA CuttingStep ==
  ASSUME Cutting, ChunksNext \/ UNCHANGED chunkVars
  PROVE  Cutting'
<1>1. ASSUME NEW f \in Files, NEW t \in Targets, NEW o \in Overlaps, NEW first \in BOOLEAN,
             NEW symbols \in {{}} \cup SymbolSets[f], Chunk(f, symbols, t, o, first)
      PROVE  Cutting'
  BY <1>1, ChunkKeepsCutting
<1>2. CASE AssembleOne
  BY <1>2, AssembleKeepsCutting
<1>3. CASE HandOver
  BY <1>3 DEF HandOver, Cutting
<1>4. CASE UNCHANGED chunkVars
  <2>1. /\ file' = file /\ sizes' = sizes /\ regions' = regions /\ unit' = unit /\ made' = made /\ chunks' = chunks
    BY <1>4 DEF chunkVars
  <2> QED BY <2>1 DEF Cutting, Position
<1> QED BY <1>1, <1>2, <1>3, <1>4 DEF ChunksNext

\* What holds while a file is cut is enough.
LEMMA CutBytesAreIndexed ==
  ASSUME Cutting
  PROVE  EveryByteIsIndexed
<1> DEFINE all == chunks \o made
<1>1. CASE file = <<>> /\ regions = <<>> /\ made = <<>> /\ chunks = <<>>
  <2>1. all = <<>> /\ DOMAIN <<>> = {}
    BY <1>1
  <2> QED BY <1>1, <2>1 DEF EveryByteIsIndexed
<1>2. CASE file \in Files /\ (regions = <<>> => made = <<>>) /\ made \in Seq(Piece) /\ chunks \in Seq(Piece)
           /\ Indexed(all, Position, Len(chunks) >= PerFile, file)
  <2>1. /\ all \in Seq(Piece)
        /\ \A i \in 1 .. Len(all) : PieceOf(all[i], file)
        /\ \A i, k \in 1 .. Len(all) : i < k => all[i].start < all[k].start
        /\ Len(chunks) >= PerFile \/ \A b \in 1 .. Position : \E i \in 1 .. Len(all) : all[i].start < b /\ b <= all[i].end
    BY <1>2 DEF Indexed
  <2> HIDE DEF all
  <2>a. DOMAIN all = 1 .. Len(all) /\ \A i \in 1 .. Len(all) : all[i] \in Piece
    BY <2>1
  <2>2. DOMAIN all = 1 .. Len(all) /\ \A i \in 1 .. Len(all) : all[i].start \in Nat /\ all[i].end \in Nat
    BY <2>a DEF Piece
  <2>3. \A i \in 1 .. Len(all) :
           /\ all[i].end \in all[i].start + 1 .. all[i].start + MaxChunk
           /\ IsBoundary(file, all[i].start) /\ IsBoundary(file, all[i].end)
           /\ all[i].symbol # <<>> => all[i].symbol[1].start <= all[i].start /\ all[i].end <= all[i].symbol[1].end
    <3> TAKE i \in 1 .. Len(all)
    <3>1. PieceOf(all[i], file) /\ all[i].start \in Nat /\ all[i].end \in Nat /\ MaxChunk \in Nat
      BY <2>1, <2>2, ChunksAssumption
    <3> QED BY <3>1 DEF PieceOf
  <2>4. \A i, k \in 1 .. Len(all) : i # k => <<all[i].start, all[i].end>> # <<all[k].start, all[k].end>>
    <3> SUFFICES ASSUME NEW i \in 1 .. Len(all), NEW k \in 1 .. Len(all), i # k PROVE all[i].start # all[k].start
      BY Zenon
    <3>1. i < k \/ k < i
      OBVIOUS
    <3> QED BY <2>1, <2>2, <3>1
  <2>5. ASSUME regions = <<>>, Len(chunks) < PerFile, NEW b \in DOMAIN file
        PROVE  \E i \in DOMAIN chunks : all[i].start < b /\ b <= all[i].end
    <3>1. all = chunks /\ Len(chunks) \in Nat /\ DOMAIN chunks = 1 .. Len(all)
      BY <1>2, <2>5 DEF all
    <3>2. Position = Len(file) /\ file \in Seq({"a", "n", "h", "c"})
      BY <1>2, <2>5, ChunksAssumption DEF Position
    <3>3. b \in 1 .. Position /\ PerFile \in Nat
      BY <3>2, ChunksAssumption
    <3> QED BY <2>1, <2>5, <3>1, <3>3
  <2> QED BY <2>2, <2>3, <2>4, <2>5 DEF EveryByteIsIndexed, all
<1> QED BY <1>1, <1>2 DEF Cutting

(***************************************************************************)
(* Remembering and retrieving.                                             *)
(***************************************************************************)
Memory == [kind : {"failure", "command"}, key : MemKeys]
\* A snapshot is never longer than what it is to hold.
MemoryKept ==
  /\ memories \in Seq(Memory) /\ (memSaving => memFile # <<>>)
  /\ memFile = <<>> \/ \E e \in Seq(Memory), w \in Nat : w <= Len(e) /\ memFile = <<[entries |-> e, written |-> w]>>
  /\ memLoaded.got = (IF memLoaded.result = "ok" THEN memLoaded.meant ELSE <<>>)
VectorsKept == ann \in Seq(Seq(Int)) /\ AnnAgreesWithExact
\* Every resolver holds chunks; so does what it knows of a namespace.
ContextKept ==
  /\ seq \in Nat /\ (ragFile # <<>> => ragFile[1].seq \in Nat)
  /\ \A n \in DOMAIN resolvers : resolvers[n] \in SUBSET ChunkRecord
  /\ RetrievedIsCurrent
RetrievalInv == MemoryKept /\ VectorsKept /\ ContextKept /\ Cutting

\* No step of the memory store, a crash in the middle of a save included, breaks it.
LEMMA MemoryStep ==
  ASSUME MemoryKept, MemoryNext \/ UNCHANGED memVars
  PROVE  MemoryKept'
<1>1. ASSUME NEW kind \in {"failure", "command"}, NEW key \in MemKeys, Put(kind, key) PROVE MemoryKept'
  <2>1. /\ memories' = Append(memories, [kind |-> kind, key |-> key]) /\ memLoaded' = NoLoad
        /\ memFile' = memFile /\ memSaving' = memSaving
    BY <1>1 DEF Put
  <2>2. [kind |-> kind, key |-> key] \in Memory
    BY DEF Memory
  <2>3. memories' \in Seq(Memory)
    BY <2>1, <2>2 DEF MemoryKept
  <2> QED BY <2>1, <2>3 DEF MemoryKept, NoLoad
<1>2. CASE BeginSave
  <2>1. /\ memFile' = <<[entries |-> memories, written |-> 0]>> /\ memories' = memories /\ memLoaded' = NoLoad
        /\ memories \in Seq(Memory) /\ 0 <= Len(memories) /\ 0 \in Nat
    BY <1>2 DEF BeginSave, MemoryKept
  <2> QED BY <2>1 DEF MemoryKept, NoLoad
<1>3. CASE WriteSnapshot
  <2>0. memFile # <<>> /\ memories' = memories /\ memLoaded' = memLoaded
    BY <1>3 DEF WriteSnapshot, MemoryKept
  <2>1. PICK e \in Seq(Memory), w \in Nat : w <= Len(e) /\ memFile = <<[entries |-> e, written |-> w]>>
    BY <2>0 DEF MemoryKept
  <2>2. memFile[1].entries = e /\ memFile[1].written = w /\ Len(e) \in Nat
    BY <2>1
  <2>3. CASE w < Len(e)
    <3>1. memFile' = <<[memFile[1] EXCEPT !.written = @ + 1]>>
      BY <1>3, <2>2, <2>3 DEF WriteSnapshot
    <3>2. memFile[1] = [entries |-> e, written |-> w]
      BY <2>1
    <3>3. [memFile[1] EXCEPT !.written = @ + 1] = [entries |-> e, written |-> w + 1]
      BY <3>2
    <3>4. memFile' = <<[entries |-> e, written |-> w + 1]>> /\ w + 1 \in Nat /\ w + 1 <= Len(e)
      BY <2>2, <2>3, <3>1, <3>3
    <3>5. memFile' # <<>>
      BY <3>4
    <3> QED BY <2>0, <3>4, <3>5 DEF MemoryKept
  <2>4. CASE ~(w < Len(e))
    <3>1. memFile' = memFile
      BY <1>3, <2>2, <2>4 DEF WriteSnapshot
    <3> QED BY <2>0, <3>1 DEF MemoryKept
  <2> QED BY <2>3, <2>4
<1>4. CASE RestartAndLoad
  <2>0. memFile # <<>> /\ memFile' = memFile
    BY <1>4 DEF RestartAndLoad
  <2>1. PICK e \in Seq(Memory), w \in Nat : w <= Len(e) /\ memFile = <<[entries |-> e, written |-> w]>>
    BY <2>0 DEF MemoryKept
  <2> DEFINE result == DecodeSnapshot(memFile[1])
  <2>2. memFile[1].entries = e /\ memFile[1].written = w /\ Len(e) \in Nat
    BY <2>1
  <2>3. result = "ok" => w = Len(e)
    BY <2>1, <2>2 DEF DecodeSnapshot
  <2>4. SubSeq(e, 1, Len(e)) = e
    OBVIOUS
  <2>5. /\ memories' = IF result = "ok" THEN SubSeq(memFile[1].entries, 1, memFile[1].written) ELSE <<>>
        /\ memLoaded' = [result |-> result, got |-> memories', meant |-> memFile[1].entries]
    BY <1>4 DEF RestartAndLoad
  <2> HIDE DEF result
  <2>6. memories' = IF result = "ok" THEN e ELSE <<>>
    BY <2>2, <2>3, <2>4, <2>5
  <2>7. memories' \in Seq(Memory)
    BY <2>6
  <2>8. memLoaded'.result = result /\ memLoaded'.got = memories' /\ memLoaded'.meant = e
    BY <2>2, <2>5
  <2> QED BY <2>0, <2>6, <2>7, <2>8 DEF MemoryKept
<1>5. CASE UNCHANGED memVars
  BY <1>5 DEF memVars, MemoryKept
<1> QED BY <1>1, <1>2, <1>3, <1>4, <1>5 DEF MemoryNext

\* Neither a new vector nor a query lets the two indexes disagree.
LEMMA VectorsStep ==
  ASSUME VectorsKept, VectorNext \/ UNCHANGED annVars
  PROVE  VectorsKept'
<1>1. ASSUME NEW v \in Vectors, AnnPut(v) PROVE VectorsKept'
  <2>1. ann' = Append(ann, v) /\ annAsked' = [annAsked EXCEPT !.q = <<>>] /\ v \in Seq(Int)
    BY <1>1, RecallAssumption DEF AnnPut
  <2>2. ann' \in Seq(Seq(Int))
    BY <2>1 DEF VectorsKept
  <2> QED BY <2>1, <2>2 DEF VectorsKept, AnnAgreesWithExact
<1>2. ASSUME NEW q \in Vectors, NEW k \in {0, 1, 2}, NEW radius \in {0, 1}, AskNearest(q, k, radius) PROVE VectorsKept'
  <2> DEFINE e == VectorNearest(q, k)
             a == AnnNearest(q, k, radius)
  <2>1. annAsked' = [q |-> q, exact |-> e, approx |-> a] /\ ann' = ann
    BY <1>2 DEF AskNearest
  <2>2. q \in Seq(Int) /\ k \in Nat /\ radius \in Nat /\ ann \in Seq(Seq(Int))
    BY RecallAssumption DEF VectorsKept
  <2>3. Agrees(q, e, a)
    BY <2>2, AskedAgrees
  <2> HIDE DEF e, a
  <2>4. annAsked'.q = q /\ annAsked'.exact = e /\ annAsked'.approx = a
    BY <2>1
  <2>5. AnnAgreesWithExact'
    BY <2>1, <2>3, <2>4 DEF Agrees, AnnAgreesWithExact
  <2> QED BY <2>1, <2>2, <2>5 DEF VectorsKept
<1>3. CASE UNCHANGED annVars
  BY <1>3 DEF annVars, VectorsKept, AnnAgreesWithExact
<1> QED BY <1>1, <1>2, <1>3 DEF VectorNext

\* Every step but a query leaves no context behind.
LEMMA NoContext ==
  ASSUME bundle' = NoBundle, remote'.sent => (remote'.requires => remote'.key)
  PROVE  RetrievedIsCurrent'
<1>0. NoBundle.fragments = <<>>
  BY DEF NoBundle
<1>1. bundle'.fragments = <<>> /\ DOMAIN <<>> = {} /\ Len(<<>>) = 0
  BY <1>0
<1>2. BundleBytes(<<>>) = 0 /\ FragmentsMax \in Nat /\ BundleMax \in Nat
  BY NoBytes, RecallAssumption
<1> QED BY <1>1, <1>2 DEF RetrievedIsCurrent

\* A step that asks no remote store sends nothing.
LEMMA NotRemote ==
  ASSUME remote' = NoRemote
  PROVE  remote'.sent => (remote'.requires => remote'.key)
BY DEF NoRemote

\* A planned query ends in a context of what its namespace knows, whatever the hits.
LEMMA QueryKeepsContext ==
  ASSUME ContextKept, NEW ns, NEW q \in Seq(Int), NEW hits, Len(hits) \in Nat,
         bundle' = Planned(ns, q, hits), remote' = NoRemote, seq' = seq, resolvers' = resolvers, ragFile' = ragFile
  PROVE  ContextKept'
<1> DEFINE p == Planned(ns, q, hits)
<1>1. Known(ns) \in SUBSET ChunkRecord
  BY DEF ContextKept, Known
<1>2. /\ p.space = ns /\ p.q = q /\ Context(p.fragments, Known(ns), q)
      /\ Len(p.fragments) <= FragmentsMax /\ BundleBytes(p.fragments) <= BundleMax
  BY <1>1, PlannedIs
<1> HIDE DEF p
<1>3. bundle' = p
  BY DEF p
<1> DEFINE f == p.fragments
<1>4. /\ DOMAIN f = 1 .. Len(f) /\ \A i \in 1 .. Len(f) : f[i] \in Known(ns)
      /\ \A i, j \in 1 .. Len(f) : i < j => f[i].id # f[j].id /\ ~Nearer(q, f[j].vec, f[i].vec)
  BY <1>2 DEF Context
<1> HIDE DEF f
<1>5. \A i \in DOMAIN f : ns \in DOMAIN resolvers' /\ f[i] \in resolvers'[ns]
  BY <1>4 DEF Known
<1>6. bundle'.fragments = f /\ bundle'.space = ns /\ bundle'.q = q /\ Len(f) <= FragmentsMax /\ BundleBytes(f) <= BundleMax
  BY <1>2, <1>3 DEF f
<1>7. RetrievedIsCurrent'
  BY <1>4, <1>5, <1>6, NotRemote DEF RetrievedIsCurrent
<1> QED BY <1>7 DEF ContextKept

\* A store answers with a sequence, whatever is in it.
LEMMA NearestHasLength ==
  ASSUME seq \in Nat, NEW ns, NEW q, NEW k \in Nat, NEW floor
  PROVE  Len(StoreNearest(ns, q, k, floor)) \in Nat
<1> DEFINE at == {c.seq + 1 : c \in StoredIn(ns)}
           chunk == [n \in at |-> CHOOSE c \in StoredIn(ns) : c.seq + 1 = n]
           vectors == [n \in at |-> chunk[n].vec]
           above == {n \in at : Len(chunk[n].vec) = Len(q) /\ Scores(q, chunk[n].vec, floor)}
           order == Ranked(q, vectors, above, seq)
           hits == Take(order, k)
<1>1. StoreNearest(ns, q, k, floor) = [i \in DOMAIN hits |-> chunk[hits[i]].id]
  BY DEF StoreNearest
<1> HIDE DEF at, chunk, vectors, above
<1>2. order \in Seq(Nat)
  <2>1. PICK f : RankSteps(f, q, vectors, above, seq) /\ order = f[seq]
    BY RankedIs
  <2> QED BY <2>1 DEF RankSteps
<1> HIDE DEF order
<1>3. hits \in Seq(Nat)
  BY <1>2, TakeIs
<1> HIDE DEF hits
<1>4. DOMAIN hits = 1 .. Len(hits) /\ Len(hits) \in Nat
  BY <1>3
<1> QED BY <1>1, <1>4

\* Every step on the chunk store, local or remote, keeps the context current.
LEMMA ContextStep ==
  ASSUME ContextKept, ChunkNext \/ RemoteNext \/ UNCHANGED ragVars
  PROVE  ContextKept'
<1>1. ASSUME NEW ns \in Spaces, NEW t \in Trees, IndexRepo(ns, t) PROVE ContextKept'
  <2> DEFINE taken == Take(t, ChunksMax)
  <2>1. /\ seq' = seq + Len(taken) /\ bundle' = NoBundle /\ remote' = NoRemote /\ ragFile' = ragFile
        /\ resolvers' = [n \in DOMAIN resolvers \cup {ns} |-> IF n = ns THEN Range(taken) ELSE resolvers[n]]
    BY <1>1 DEF IndexRepo
  <2>2. t \in Seq(ChunkRecord) /\ ChunksMax \in Nat
    BY RecallAssumption DEF ChunkRecord
  <2>3. taken \in Seq(ChunkRecord)
    BY <2>2, TakeIs
  <2> HIDE DEF taken
  <2>4. Range(taken) \in SUBSET ChunkRecord /\ Len(taken) \in Nat
    BY <2>3 DEF Range
  <2>5. \A n \in DOMAIN resolvers' : resolvers'[n] \in SUBSET ChunkRecord
    BY <2>1, <2>4 DEF ContextKept
  <2>6. RetrievedIsCurrent'
    BY <2>1, NoContext, NotRemote
  <2> QED BY <2>1, <2>4, <2>5, <2>6 DEF ContextKept
<1>2. ASSUME NEW id \in ChunkIds, DeleteChunk(id) PROVE ContextKept'
  <2>1. seq' = seq /\ bundle' = NoBundle /\ remote' = NoRemote /\ ragFile' = ragFile /\ resolvers' = resolvers
    BY <1>2 DEF DeleteChunk
  <2> QED BY <2>1, NoContext, NotRemote DEF ContextKept
<1>3. CASE SaveChunks
  <2>1. seq' = seq /\ bundle' = NoBundle /\ remote' = NoRemote /\ resolvers' = resolvers
    BY <1>3 DEF SaveChunks
  <2>2. ragFile'[1].seq \in Nat
    <3>1. \/ ragFile' = <<[spaces |-> spaces, active |-> active, seq |-> seq, whole |-> TRUE]>>
          \/ ragFile' = <<TornChunks>>
      BY <1>3 DEF SaveChunks
    <3> DEFINE full == [spaces |-> spaces, active |-> active, seq |-> seq, whole |-> TRUE]
    <3>2. full.seq = seq /\ TornChunks.seq = 0
      BY DEF TornChunks
    <3> HIDE DEF full
    <3>3. ragFile'[1] = full \/ ragFile'[1] = TornChunks
      <4>1. ragFile' = <<full>> \/ ragFile' = <<TornChunks>>
        BY <3>1 DEF full
      <4> QED BY <4>1
    <3> QED BY <3>2, <3>3 DEF ContextKept
  <2> QED BY <2>1, <2>2, NoContext, NotRemote DEF ContextKept
<1>4. CASE LoadChunks
  <2>1. /\ ragFile # <<>> /\ (seq' = ragFile[1].seq \/ seq' = 0) /\ bundle' = NoBundle /\ remote' = NoRemote
        /\ ragFile' = ragFile /\ resolvers' = <<>> /\ DOMAIN <<>> = {}
    BY <1>4 DEF LoadChunks
  <2> QED BY <2>1, NoContext, NotRemote DEF ContextKept
<1>5. ASSUME NEW ns \in Spaces, NEW q \in Queries, NEW floor \in Floors, Query(ns, q, 3, floor)
      PROVE  ContextKept'
  <2> DEFINE k == ClampK(3)
             hits == StoreNearest(ns, q, k, floor)
  <2>1. /\ bundle' = Planned(ns, q, hits) /\ remote' = NoRemote /\ seq' = seq /\ resolvers' = resolvers
        /\ ragFile' = ragFile
    BY <1>5 DEF Query
  <2>2. k \in Nat /\ seq \in Nat /\ q \in Seq(Int)
    BY RecallAssumption DEF ContextKept, ClampK
  <2> HIDE DEF k
  <2>3. Len(hits) \in Nat
    BY <2>2, NearestHasLength
  <2> HIDE DEF hits
  <2> QED BY <2>1, <2>2, <2>3, QueryKeepsContext
<1>6. ASSUME NEW ns \in Spaces, NEW q \in Queries, NEW hits \in Forgeries, QueryForged(ns, q, hits) PROVE ContextKept'
  <2>1. /\ bundle' = Planned(ns, q, hits) /\ remote' = NoRemote /\ seq' = seq /\ resolvers' = resolvers
        /\ ragFile' = ragFile
    BY <1>6 DEF QueryForged
  <2>2. Len(hits) \in Nat /\ q \in Seq(Int)
    BY RecallAssumption
  <2> QED BY <2>1, <2>2, QueryKeepsContext
<1>7. ASSUME NEW table, NEW requires \in BOOLEAN, NEW unlocked \in BOOLEAN, NEW status, NEW items,
             remote' = Sent(table, requires, unlocked, status, items), bundle' = NoBundle,
             seq' = seq, resolvers' = resolvers, ragFile' = ragFile
      PROVE  ContextKept'
  <2>1. /\ remote'.sent = ApplyAuth(requires, unlocked) /\ remote'.requires = requires
        /\ remote'.key = (requires /\ unlocked)
    BY <1>7 DEF Sent
  <2>2. remote'.sent => (remote'.requires => remote'.key)
    BY <2>1 DEF ApplyAuth
  <2> QED BY <1>7, <2>2, NoContext DEF ContextKept
<1>8. CASE RemoteNext
  <2>1. PICK ns \in {"", "a"}, requires \in BOOLEAN, unlocked \in BOOLEAN, status \in {200, 401},
             items \in {<<"", "x", "y", "z">>} :
          \/ SendRemote(ns, requires, unlocked, status, items)
          \/ SendLanceDb(ns, requires, unlocked, status, <<[id |-> <<"x">>], [id |-> <<>>], [id |-> <<"y">>]>>)
    BY <1>8 DEF RemoteNext
  <2>2. /\ \E table, some : remote' = Sent(table, requires, unlocked, status, some)
        /\ bundle' = NoBundle /\ seq' = seq /\ resolvers' = resolvers /\ ragFile' = ragFile
    BY Zenon, <2>1 DEF SendRemote, SendLanceDb
  <2> QED BY Zenon, <1>7, <2>2
<1>9. CASE UNCHANGED ragVars
  BY <1>9 DEF ragVars, ContextKept, RetrievedIsCurrent
<1> QED BY <1>1, <1>2, <1>3, <1>4, <1>5, <1>6, <1>8, <1>9 DEF ChunkNext

\* One step touches one part and leaves the others as they are.
LEMMA RetrievalStep ==
  ASSUME RetrievalInv, [RetrievalNext]_<<recallVars, chunkVars>>
  PROVE  RetrievalInv'
<1>1. MemoryNext => UNCHANGED <<annVars, ragVars>>
  BY DEF MemoryNext, Put, BeginSave, WriteSnapshot, RestartAndLoad
<1>2. VectorNext => UNCHANGED <<memVars, ragVars>>
  BY DEF VectorNext, AnnPut, AskNearest
<1>3. ChunkNext => UNCHANGED <<memVars, annVars>>
  BY DEF ChunkNext, IndexRepo, DeleteChunk, SaveChunks, LoadChunks, Query, QueryForged
<1>4. RemoteNext => UNCHANGED <<memVars, annVars>>
  BY DEF RemoteNext, SendRemote, SendLanceDb
<1>5. UNCHANGED recallVars => UNCHANGED <<memVars, annVars, ragVars>>
  BY DEF recallVars, memVars, annVars, ragVars
<1>6. /\ MemoryNext \/ UNCHANGED memVars
      /\ VectorNext \/ UNCHANGED annVars
      /\ ChunkNext \/ RemoteNext \/ UNCHANGED ragVars
      /\ ChunksNext \/ UNCHANGED chunkVars
  BY <1>1, <1>2, <1>3, <1>4, <1>5 DEF RetrievalNext
<1> QED BY <1>6, MemoryStep, VectorsStep, ContextStep, CuttingStep DEF RetrievalInv

\* What is remembered and retrieved is what was stored, for every snapshot,
\* vector, hyperplane, chunk and file and every bound on them (MemoryStore::save
\* and load, AnnIndex::nearest, QueryPlanner::run, Chunker::chunk).
THEOREM RetrievalHolds == RetrievalSpec => []RetrievalIsFaithful
<1>1. RecallInit /\ ChunksInit => RetrievalInv
  <2> SUFFICES ASSUME RecallInit, ChunksInit PROVE RetrievalInv
    OBVIOUS
  <2>1. MemoryKept
    BY DEF RecallInit, MemoryKept, NoLoad
  <2>2. VectorsKept
    BY DEF RecallInit, VectorsKept, AnnAgreesWithExact
  <2>3. RetrievedIsCurrent
    <3>0. NoBundle.fragments = <<>> /\ ~NoRemote.sent
      BY DEF NoBundle, NoRemote
    <3>1. bundle.fragments = <<>> /\ DOMAIN <<>> = {} /\ Len(<<>>) = 0 /\ ~remote.sent
      BY <3>0 DEF RecallInit
    <3>2. BundleBytes(<<>>) = 0 /\ FragmentsMax \in Nat /\ BundleMax \in Nat
      BY NoBytes, RecallAssumption
    <3> QED BY <3>1, <3>2 DEF RetrievedIsCurrent
  <2>4. ContextKept
    <3>1. seq = 0 /\ ragFile = <<>> /\ resolvers = <<>> /\ DOMAIN <<>> = {}
      BY DEF RecallInit
    <3> QED BY <2>3, <3>1 DEF ContextKept
  <2>5. Cutting
    BY DEF ChunksInit, Cutting
  <2> QED BY <2>1, <2>2, <2>4, <2>5 DEF RetrievalInv
<1>2. RetrievalInv /\ [RetrievalNext]_<<recallVars, chunkVars>> => RetrievalInv'
  BY RetrievalStep
<1>3. RetrievalInv => RetrievalIsFaithful
  <2> SUFFICES ASSUME RetrievalInv PROVE RetrievalIsFaithful
    OBVIOUS
  <2>1. MemoryIsAllOrNothing
    BY DEF RetrievalInv, MemoryKept, MemoryIsAllOrNothing
  <2>2. AnnAgreesWithExact /\ RetrievedIsCurrent /\ EveryByteIsIndexed
    BY CutBytesAreIndexed DEF RetrievalInv, VectorsKept, ContextKept
  <2> QED BY <2>1, <2>2 DEF RetrievalIsFaithful
<1> QED BY <1>1, <1>2, <1>3, PTL DEF RetrievalSpec

=============================================================================
