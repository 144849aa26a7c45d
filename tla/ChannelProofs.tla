---------------------------- MODULE ChannelProofs ---------------------------
(***************************************************************************)
(* Theorems about the channels: the long-poll loop of Poller loses no      *)
(* update and dispatches none twice, the flow engine of Flow ends as       *)
(* honestly as it says, the GitHub side of Hosted takes no delivery twice  *)
(* and lets nothing past its gates, and the development server of Dev      *)
(* grants only what it shows.  What runs from a conversation is what was   *)
(* approved, and a tool of another server is called only past the gateway. *)
(***************************************************************************)
EXTENDS
  Poller, Conversation, Flow, Hosted, Mcp, Dev, FiniteSetTheorems, SequenceTheorems,
  WellFoundedInduction, TLAPS

-----------------------------------------------------------------------------
(* Sequences and maxima.                                                   *)

\* What the fold over two numbers is.
LEMMA MaxOfTwo ==
  ASSUME NEW x \in Int, NEW y \in Int
  PROVE  Max({x, y}) = IF x >= y THEN x ELSE y
<1>1. \E z \in {x, y} : \A w \in {x, y} : z >= w
  OBVIOUS
<1>2. Max({x, y}) \in {x, y} /\ Max({x, y}) >= x /\ Max({x, y}) >= y
  BY <1>1 DEF Max
<1> QED
  BY <1>2

LEMMA MinOfTwo ==
  ASSUME NEW x \in Int, NEW y \in Int
  PROVE  Min({x, y}) = IF x <= y THEN x ELSE y
<1>1. \E z \in {x, y} : \A w \in {x, y} : z <= w
  OBVIOUS
<1>2. Min({x, y}) \in {x, y} /\ Min({x, y}) <= x /\ Min({x, y}) <= y
  BY <1>1 DEF Min
<1> QED
  BY <1>2

LEMMA RangeOfAppend ==
  ASSUME NEW S, NEW s \in Seq(S), NEW x \in S
  PROVE  Append(s, x) \in Seq(S) /\ Range(Append(s, x)) = Range(s) \union {x}
<1>1. /\ Append(s, x) \in Seq(S) /\ DOMAIN Append(s, x) = 1 .. Len(s) + 1 /\ DOMAIN s = 1 .. Len(s)
      /\ Append(s, x)[Len(s) + 1] = x /\ \A i \in 1 .. Len(s) : Append(s, x)[i] = s[i]
      /\ Len(s) \in Nat
  OBVIOUS
<1> QED
  BY <1>1 DEF Range

LEMMA RangeOfTail ==
  ASSUME NEW S, NEW s \in Seq(S), s # << >>
  PROVE  /\ Head(s) \in S /\ Tail(s) \in Seq(S)
         /\ Range(s) = Range(Tail(s)) \union {Head(s)}
<1>1. \A i \in 1 .. Len(s) : i = 1 \/ (s[i] = Tail(s)[i - 1] /\ i - 1 \in 1 .. Len(Tail(s)))
  OBVIOUS
<1>2. \A i \in 1 .. Len(Tail(s)) : Tail(s)[i] = s[i + 1] /\ i + 1 \in 1 .. Len(s)
  OBVIOUS
<1>3. /\ Head(s) = s[1] /\ Tail(s) \in Seq(S) /\ s[1] \in S /\ 1 \in 1 .. Len(s)
      /\ DOMAIN s = 1 .. Len(s) /\ DOMAIN Tail(s) = 1 .. Len(Tail(s))
  OBVIOUS
<1>4. /\ \A v : v \in Range(s) <=> \E i \in 1 .. Len(s) : s[i] = v
      /\ \A v : v \in Range(Tail(s)) <=> \E i \in 1 .. Len(Tail(s)) : Tail(s)[i] = v
  BY <1>3 DEF Range
<1>5. Range(s) \subseteq Range(Tail(s)) \union {Head(s)}
  BY <1>1, <1>3, <1>4
<1>6. Range(Tail(s)) \union {Head(s)} \subseteq Range(s)
  BY <1>2, <1>3, <1>4
<1> QED
  BY <1>3, <1>5, <1>6

-----------------------------------------------------------------------------
(* The poller.                                                             *)

Updates == 1 .. sent

PollShapes ==
  /\ inOrder \in BOOLEAN /\ sent \in Nat /\ confirmed \in Nat /\ offset \in Nat /\ floor \in Nat
  /\ answer \in Seq(Updates) /\ window \in Seq(Nat) /\ events \in Seq(Nat) /\ dispatched \in Seq(Nat)

\* The deduper has every update that was taken, in its window or below its
\* floor, and all of it is below the offset.
Remembers ==
  /\ \A id \in Range(events) \union Range(dispatched) : id \in Range(window) \/ id <= floor
  /\ \A id \in Range(window) : id < offset
  /\ floor = 0 \/ floor < offset

\* No update is queued or dispatched twice.
TakenOnce ==
  /\ \A i, j \in 1 .. Len(dispatched) : dispatched[i] = dispatched[j] => i = j
  /\ \A i, j \in 1 .. Len(events) : events[i] = events[j] => i = j
  /\ Range(events) \intersect Range(dispatched) = {}

\* An answer in order goes on where the poller or, after a restart, Telegram
\* is.
Resume == IF offset >= confirmed THEN offset ELSE confirmed
InSequence ==
  inOrder => \A i \in 1 .. Len(answer) :
    answer[i] = (IF Resume = 0 THEN 1 ELSE Resume) + i - 1

\* In order, what is below the offset is dropped, dispatched or queued, and
\* what Telegram has forgotten is not only queued.
Followed ==
  inOrder =>
    /\ \A id \in Nat \ {0} : id < confirmed =>
         id \in Dropped \union earlier \union Range(dispatched)
    /\ \A id \in Nat \ {0} : id < offset =>
         id \in Dropped \union earlier \union Range(dispatched) \union Range(events)

PollInv == PollShapes /\ Remembers /\ TakenOnce /\ InSequence /\ Followed

LEMMA PollInitially == PollInit => PollInv
<1> SUFFICES ASSUME PollInit PROVE PollInv
  OBVIOUS
<1>1. PollShapes
  BY DEF PollInit, PollShapes
<1>2. Range(<< >>) = {}
  BY DEF Range
<1> QED
  BY <1>1, <1>2 DEF PollInit, PollInv, Remembers, TakenOnce, InSequence, Followed

\* The deduper's memory only grows: an accepted id is added, and one that
\* leaves the window falls below the floor.
LEMMA RecordRemembers ==
  ASSUME window \in Seq(Nat), floor \in Nat, NEW id \in Nat, Record(id)
  PROVE  /\ window' \in Seq(Nat) /\ floor' \in Nat
         /\ floor' = floor \/ floor' \in Range(window) \union {id}
         /\ Range(window') \subseteq Range(window) \union {id}
         /\ floor' >= floor
         /\ \A old \in Range(window) \union {id} : old \in Range(window') \/ old <= floor'
<1> DEFINE w == Append(window, id)
<1>1. w \in Seq(Nat) /\ Range(w) = Range(window) \union {id} /\ w # << >>
  <2>1. w \in Seq(Nat) /\ Range(w) = Range(window) \union {id}
    BY RangeOfAppend
  <2>2. Len(w) = Len(window) + 1 /\ Len(window) \in Nat
    BY AppendProperties, LenProperties
  <2>3. w # << >>
    BY <2>2
  <2> QED BY <2>1, <2>3
<1>2. Head(w) \in Nat /\ Tail(w) \in Seq(Nat) /\ Range(w) = Range(Tail(w)) \union {Head(w)}
  <2> HIDE DEF w
  <2> QED BY <1>1, RangeOfTail
<1>3. CASE Len(w) <= DedupeWindow
  <2>1. window' = w /\ floor' = floor
    BY <1>3 DEF Record
  <2> QED
    BY <1>1, <2>1
<1>4. CASE ~(Len(w) <= DedupeWindow)
  <2>1. window' = Tail(w) /\ floor' = Max({floor, Head(w)})
    BY <1>4 DEF Record
  <2> HIDE DEF w
  <2>2. floor' \in {floor, Head(w)} /\ floor' >= floor /\ floor' >= Head(w)
    <3>1. floor \in Int /\ Head(w) \in Int
      BY <1>2
    <3> QED
      BY <2>1, <3>1, MaxOfTwo
  <2> QED
    BY <2>1, <2>2, <1>1, <1>2
<1> QED
  BY <1>3, <1>4

LEMMA ArriveKeeps ==
  ASSUME PollInv, Arrive
  PROVE  PollInv'
<1>1. sent \in Nat /\ sent' = sent + 1 /\ Updates \subseteq Updates'
  BY DEF PollInv, PollShapes, Arrive, Updates
<1>2. UNCHANGED <<inOrder, confirmed, offset, window, floor, answer, events, dispatched, earlier>>
  BY DEF Arrive, poller
<1>3. PollShapes'
  <2>1. answer' \in Seq(Updates')
    BY <1>1, <1>2 DEF PollInv, PollShapes
  <2> QED
    BY <1>1, <1>2, <2>1 DEF PollInv, PollShapes
<1>4. Remembers' /\ TakenOnce' /\ InSequence' /\ Followed'
  BY <1>2 DEF PollInv, Remembers, TakenOnce, InSequence, Followed, Resume
<1> QED
  BY <1>3, <1>4 DEF PollInv

\* Nothing of the last batch is left when the next one is asked for, so that
\* what the offset acknowledges has been dispatched.
LEMMA PollKeeps ==
  ASSUME PollInv, answer = << >>, events = << >>, confirmed' = Max({confirmed, offset}),
         UNCHANGED <<inOrder, sent, offset, window, floor, events, dispatched, earlier, restarts>>,
         \/ answer' = << >>
         \/ answer' \in Batches(Max({offset, confirmed}))
  PROVE  PollInv'
<1>1. confirmed \in Nat /\ offset \in Nat /\ sent \in Nat
  BY DEF PollInv, PollShapes
<1>2. /\ confirmed' \in {confirmed, offset} /\ confirmed' >= confirmed /\ confirmed' >= offset
      /\ Max({offset, confirmed}) = confirmed'
  <2>1. confirmed \in Int /\ offset \in Int
    BY <1>1
  <2>2. Max({confirmed, offset}) = IF confirmed >= offset THEN confirmed ELSE offset
    BY <2>1, MaxOfTwo
  <2>3. Max({offset, confirmed}) = IF offset >= confirmed THEN offset ELSE confirmed
    BY <2>1, MaxOfTwo
  <2> QED
    BY <1>1, <2>2, <2>3
<1>3. /\ answer' \in Seq(Updates)
      /\ inOrder => \A i \in 1 .. Len(answer') :
           answer'[i] = (IF confirmed' = 0 THEN 1 ELSE confirmed') + i - 1
  <2>1. CASE answer' = << >>
    BY <2>1
  <2>2. CASE answer' \in Batches(confirmed')
    <3>1. CASE inOrder
      <4> DEFINE from == Max({confirmed', 1})
      <4>1. from = (IF confirmed' = 0 THEN 1 ELSE confirmed') /\ from \in Nat
        <5>1. confirmed' \in Nat /\ confirmed' \in Int /\ 1 \in Int
          BY <1>1, <1>2
        <5>2. from = IF confirmed' >= 1 THEN confirmed' ELSE 1
          BY <5>1, MaxOfTwo
        <5> QED
          BY <5>1, <5>2
      <4>2. answer' \in NextUpdates(from)
        BY <2>2, <3>1 DEF Batches
      <4> HIDE DEF from
      <4>3. PICK n \in 0 .. Min({BatchLimit, sent - from + 1}) :
              answer' = [i \in 1 .. n |-> from + i - 1]
        BY <4>2 DEF NextUpdates
      <4>4. n \in Nat /\ n <= sent - from + 1
        <5>1. /\ BatchLimit \in Int /\ sent - from + 1 \in Int
          BY <1>1, <4>1, PollAssumption
        <5>2. /\ Min({BatchLimit, sent - from + 1}) \in Int
              /\ Min({BatchLimit, sent - from + 1}) <= sent - from + 1
          BY <5>1, MinOfTwo
        <5> QED
          BY <5>2, <5>1
      <4>5. answer' \in Seq(Updates) /\ Len(answer') = n
        BY <1>1, <4>1, <4>3, <4>4 DEF Updates
      <4> QED
        BY <4>1, <4>3, <4>5
    <3>2. CASE ~inOrder
      <4>1. PICK n \in 0 .. BatchLimit : answer' \in [1 .. n -> 1 .. sent]
        BY <2>2, <3>2 DEF Batches
      <4>2. n \in Nat /\ answer' \in [1 .. n -> Updates]
        BY <4>1, PollAssumption DEF Updates
      <4> QED
        BY <3>2, <4>2
    <3> QED
      BY <3>1, <3>2
  <2> QED
    BY <1>2, <2>1, <2>2
<1>4. Updates' = Updates
  BY DEF Updates
<1>5. PollShapes'
  BY <1>1, <1>2, <1>3, <1>4 DEF PollInv, PollShapes
<1>6. Range(events) = {}
  BY DEF Range
<1>7. Remembers' /\ TakenOnce'
  BY DEF PollInv, Remembers, TakenOnce
<1>8. Followed'
  BY <1>1, <1>2, <1>6 DEF PollInv, Followed
<1>9. InSequence'
  <2>1. Resume' = confirmed'
    BY <1>1, <1>2 DEF Resume
  <2> QED
    BY <1>3, <2>1 DEF InSequence
<1> QED
  BY <1>5, <1>7, <1>8, <1>9 DEF PollInv

\* One update of the answer: what the deduper refuses was taken before, and an
\* answer in order holds nothing it refuses.
LEMMA TakeKeeps ==
  ASSUME PollInv, TakeUpdate
  PROVE  PollInv'
<1> DEFINE id == Head(answer)
<1>1. /\ sent \in Nat /\ confirmed \in Nat /\ offset \in Nat /\ floor \in Nat
      /\ answer \in Seq(Updates) /\ window \in Seq(Nat) /\ events \in Seq(Nat)
      /\ dispatched \in Seq(Nat) /\ answer # << >> /\ answer' = Tail(answer)
      /\ UNCHANGED <<inOrder, sent, confirmed, dispatched, earlier, restarts>>
      /\ inOrder \in BOOLEAN
  BY DEF PollInv, PollShapes, TakeUpdate
<1>2. /\ id \in Nat /\ id >= 1 /\ id = answer[1] /\ answer' \in Seq(Updates) /\ Len(answer') = Len(answer) - 1
      /\ \A i \in 1 .. Len(answer') : answer'[i] = answer[i + 1] /\ i + 1 \in 1 .. Len(answer)
      /\ 1 \in 1 .. Len(answer)
  BY <1>1 DEF Updates
<1>3. offset' \in Nat /\ offset' >= offset /\ offset' > id /\ offset' \in {offset, id + 1}
  <2>1. offset' = Max({offset, id + 1}) /\ offset \in Int /\ id + 1 \in Int
    BY <1>1, <1>2 DEF TakeUpdate
  <2>2. offset' = IF offset >= id + 1 THEN offset ELSE id + 1
    BY <2>1, MaxOfTwo
  <2> QED
    BY <1>1, <1>2, <2>2
<1>4. Updates' = Updates
  BY <1>1 DEF Updates
<1>5. inOrder => /\ id = (IF Resume = 0 THEN 1 ELSE Resume)
                 /\ IsNew(id) /\ offset' = id + 1 /\ offset' > confirmed
  <2> SUFFICES ASSUME inOrder
               PROVE  /\ id = (IF Resume = 0 THEN 1 ELSE Resume)
                      /\ IsNew(id) /\ offset' = id + 1 /\ offset' > confirmed
    OBVIOUS
  <2>1. id = (IF Resume = 0 THEN 1 ELSE Resume) + 1 - 1
    BY <1>2 DEF PollInv, InSequence
  <2>2. id = (IF Resume = 0 THEN 1 ELSE Resume) /\ id >= offset /\ id >= confirmed
    BY <1>1, <1>2, <2>1 DEF Resume
  <2>3. IsNew(id)
    BY <1>1, <1>2, <2>2 DEF PollInv, Remembers, IsNew
  <2> QED
    BY <1>1, <1>2, <1>3, <2>2, <2>3
<1>6. InSequence'
  <2> SUFFICES ASSUME inOrder, NEW i \in 1 .. Len(answer')
               PROVE  answer'[i] = (IF Resume' = 0 THEN 1 ELSE Resume') + i - 1
    BY <1>1 DEF InSequence
  <2>1. Resume' = id + 1 /\ Resume' # 0
    BY <1>1, <1>2, <1>5 DEF Resume
  <2>2. answer'[i] = (IF Resume = 0 THEN 1 ELSE Resume) + (i + 1) - 1 /\ i \in Nat
    BY <1>1, <1>2 DEF PollInv, InSequence
  <2>3. (IF Resume = 0 THEN 1 ELSE Resume) = id
    BY <1>5
  <2> HIDE DEF id
  <2> QED
    BY <2>1, <2>2, <2>3, <1>2
<1>7. CASE ~IsNew(id)
  <2>1. UNCHANGED <<window, floor, events>> /\ ~inOrder
    BY <1>5, <1>7 DEF TakeUpdate
  <2> HIDE DEF id
  <2>2. PollShapes'
    BY <1>1, <1>2, <1>3, <1>4, <2>1 DEF PollShapes
  <2>3. Remembers'
    <3>1. \A x \in Range(window) : x \in Nat
      BY <1>1 DEF Range
    <3> QED
      BY <1>1, <1>3, <2>1, <3>1 DEF PollInv, Remembers
  <2>4. TakenOnce' /\ Followed'
    BY <1>1, <2>1 DEF PollInv, TakenOnce, Followed
  <2> QED
    BY <1>6, <2>2, <2>3, <2>4 DEF PollInv
<1>8. CASE IsNew(id)
  <2>1. Record(id) /\ events' = IF id \in Dropped THEN events ELSE Append(events, id)
    BY <1>8 DEF TakeUpdate
  <2>0. id \notin Range(window) /\ id > floor
    BY <1>8 DEF IsNew
  <2> HIDE DEF id
  <2>2. /\ window' \in Seq(Nat) /\ floor' \in Nat
        /\ floor' = floor \/ floor' \in Range(window) \union {id}
        /\ Range(window') \subseteq Range(window) \union {id}
        /\ floor' >= floor
        /\ \A old \in Range(window) \union {id} : old \in Range(window') \/ old <= floor'
    BY <1>1, <1>2, <2>1, RecordRemembers
  <2>3. /\ events' \in Seq(Nat)
        /\ Range(events') = (IF id \in Dropped THEN Range(events) ELSE Range(events) \union {id})
    <3>1. Append(events, id) \in Seq(Nat) /\ Range(Append(events, id)) = Range(events) \union {id}
      <4>1. events \in Seq(Nat) /\ id \in Nat
        BY <1>1, <1>2
      <4> QED
        BY <4>1, RangeOfAppend
    <3> QED
      BY <1>1, <2>1, <3>1
  <2>4. PollShapes'
    <3>1. window' \in Seq(Nat) /\ floor' \in Nat /\ events' \in Seq(Nat)
      BY <2>2, <2>3
    <3> QED BY <1>1, <1>2, <1>3, <1>4, <3>1 DEF PollShapes
  <2>5. /\ \A x \in Range(window) : x \in Nat
        /\ \A x \in Range(events) \union Range(dispatched) : x \in Nat
    BY <1>1 DEF Range
  <2>6. Remembers'
    <3>1. \A x \in Range(events') \union Range(dispatched') : x \in Range(window') \/ x <= floor'
      BY <1>1, <1>2, <2>2, <2>3, <2>5 DEF PollInv, Remembers
    <3>2. \A x \in Range(window') : x < offset'
      BY <1>1, <1>2, <1>3, <2>2, <2>5 DEF PollInv, Remembers
    <3>3. floor' = 0 \/ floor' < offset'
      BY <1>1, <1>2, <1>3, <2>2, <2>5 DEF PollInv, Remembers
    <3> QED
      BY <3>1, <3>2, <3>3 DEF Remembers
  <2>7. id \notin Range(events) \union Range(dispatched)
    BY <1>1, <1>2, <2>0, <2>5 DEF PollInv, Remembers
  <2>8. TakenOnce'
    <3>1. Range(events') \intersect Range(dispatched') = {}
      BY <1>1, <2>3, <2>7 DEF PollInv, TakenOnce
    <3>2. \A i, j \in 1 .. Len(events') : events'[i] = events'[j] => i = j
      <4>1. \A i \in 1 .. Len(events) : events[i] # id
        BY <1>1, <2>7 DEF Range
      <4>2. \A i, j \in 1 .. Len(events) : events[i] = events[j] => i = j
        BY <1>1 DEF PollInv, TakenOnce
      <4>3. CASE id \in Dropped
        BY <2>1, <4>2, <4>3
      <4>4. CASE id \notin Dropped
        <5>1. /\ events' = Append(events, id) /\ Len(events') = Len(events) + 1 /\ Len(events) \in Nat
              /\ events'[Len(events) + 1] = id /\ \A i \in 1 .. Len(events) : events'[i] = events[i]
          BY <1>1, <1>2, <2>1, <4>4
        <5>2. \A i \in 1 .. Len(events') : i \in 1 .. Len(events) \/ i = Len(events) + 1
          BY <5>1
        <5> QED BY <5>1, <5>2, <4>1, <4>2
      <4> QED BY <4>3, <4>4
    <3> QED
      BY <1>1, <3>1, <3>2 DEF PollInv, TakenOnce
  <2>9. Followed'
    <3> SUFFICES ASSUME inOrder' PROVE Followed'
      BY DEF Followed
    <3>1. /\ inOrder /\ confirmed' = confirmed /\ dispatched' = dispatched /\ earlier' = earlier
          /\ offset' = id + 1 /\ id = (IF Resume = 0 THEN 1 ELSE Resume)
          /\ confirmed \in Nat /\ offset \in Nat /\ id \in Nat
      BY <1>1, <1>2, <1>5
    <3>2. /\ \A x \in Nat \ {0} : x < confirmed => x \in Dropped \union earlier \union Range(dispatched)
          /\ \A x \in Nat \ {0} : x < offset =>
               x \in Dropped \union earlier \union Range(dispatched) \union Range(events)
      BY <3>1 DEF PollInv, Followed
    <3>3. ASSUME NEW x \in Nat \ {0}, x < id + 1
          PROVE  x \in Dropped \union earlier \union Range(dispatched) \union Range(events')
      <4>1. x = id \/ x < confirmed \/ x < offset
        BY <3>1, <3>3 DEF Resume
      <4> QED BY <4>1, <3>2, <3>3, <2>3
    <3> QED BY <3>1, <3>2, <3>3 DEF Followed
  <2> QED
    BY <1>6, <2>4, <2>6, <2>8, <2>9 DEF PollInv
<1> QED
  BY <1>7, <1>8

LEMMA DispatchKeeps ==
  ASSUME PollInv, DispatchUpdate
  PROVE  PollInv'
<1> DEFINE id == Head(events)
<1>1. /\ events \in Seq(Nat) /\ dispatched \in Seq(Nat) /\ events # << >>
      /\ events' = Tail(events) /\ dispatched' = Append(dispatched, id)
      /\ UNCHANGED <<inOrder, sent, confirmed, offset, window, floor, answer, earlier, restarts>>
      /\ Updates' = Updates
  BY DEF PollInv, PollShapes, DispatchUpdate, Updates
<1>2. id \in Nat /\ events' \in Seq(Nat) /\ Range(events) = Range(events') \union {id}
  BY <1>1, RangeOfTail
<1>3. dispatched' \in Seq(Nat) /\ Range(dispatched') = Range(dispatched) \union {id}
  BY <1>1, <1>2, RangeOfAppend
<1>4. /\ \A i \in 1 .. Len(events') : events'[i] = events[i + 1] /\ i + 1 \in 1 .. Len(events)
      /\ id = events[1] /\ 1 \in 1 .. Len(events)
  BY <1>1
<1>5. PollShapes'
  BY <1>1, <1>2, <1>3 DEF PollInv, PollShapes
<1>6. Remembers' /\ InSequence' /\ Followed'
  BY <1>1, <1>2, <1>3 DEF PollInv, Remembers, InSequence, Followed, Resume
<1>7. TakenOnce'
  <2>1. \A i, j \in 1 .. Len(events') : events'[i] = events'[j] => i = j
    BY <1>4 DEF PollInv, TakenOnce
  <2>2. id \notin Range(dispatched)
    BY <1>2 DEF PollInv, TakenOnce
  <2>3. \A i \in 1 .. Len(dispatched) : dispatched[i] # id
    BY <1>1, <2>2 DEF Range
  <2>4. \A i, j \in 1 .. Len(dispatched') : dispatched'[i] = dispatched'[j] => i = j
    BY <1>1, <1>2, <2>3 DEF PollInv, TakenOnce
  <2>5. id \notin Range(events')
    <3>1. \A i \in 1 .. Len(events') : events'[i] # id
      BY <1>1, <1>4 DEF PollInv, TakenOnce
    <3> QED
      BY <1>2, <3>1 DEF Range
  <2>6. Range(events') \intersect Range(dispatched') = {}
    BY <1>2, <1>3, <2>5 DEF PollInv, TakenOnce
  <2> QED
    BY <2>1, <2>4, <2>6 DEF TakenOnce
<1> QED
  BY <1>5, <1>6, <1>7 DEF PollInv

LEMMA RestartKeepsPoll ==
  ASSUME PollInv, Restart
  PROVE  PollInv'
<1>1. /\ offset' = 0 /\ window' = << >> /\ floor' = 0 /\ answer' = << >> /\ events' = << >>
      /\ dispatched' = << >> /\ earlier' = earlier \union Range(dispatched)
      /\ UNCHANGED <<inOrder, sent, confirmed>>
  BY DEF Restart
<1>2. Range(<< >>) = {}
  BY DEF Range
<1>3. PollShapes'
  BY <1>1 DEF PollInv, PollShapes
<1>4. Remembers' /\ TakenOnce' /\ InSequence'
  BY <1>1, <1>2 DEF Remembers, TakenOnce, InSequence
<1>5. Followed'
  BY <1>1, <1>2 DEF PollInv, Followed
<1> QED
  BY <1>3, <1>4, <1>5 DEF PollInv

LEMMA PollStepKeeps == PollInv /\ [PollNext]_pollVars => PollInv'
<1> SUFFICES ASSUME PollInv, [PollNext]_pollVars PROVE PollInv'
  OBVIOUS
<1>1. ASSUME NEW batch \in Batches(Max({offset, confirmed})), Poll(batch) PROVE PollInv'
  BY <1>1, PollKeeps DEF Poll
<1>2. CASE PollError
  <2>1. UNCHANGED <<inOrder, sent, offset, window, floor, events, dispatched, earlier, restarts>> /\ answer' = << >>
    BY <1>2 DEF PollError, poller
  <2> QED
    BY <1>2, <2>1, PollKeeps DEF PollError
<1>3. CASE UNCHANGED pollVars
  BY <1>3 DEF pollVars, poller, PollInv, PollShapes, Remembers, TakenOnce, InSequence, Followed,
     Resume, Updates
<1> QED
  BY <1>1, <1>2, <1>3, ArriveKeeps, TakeKeeps, DispatchKeeps, RestartKeepsPoll DEF PollNext

\* No update is dispatched twice by one process, whatever Telegram redelivers,
\* and a Telegram that answers in order forgets none before it is dispatched:
\* lost answers, full windows and restarts in the middle of a batch included
\* (TelegramPoller::poll_routed, Deduper, run_serve_loop).
THEOREM UpdatesAreKept == PollSpec => []PollerLosesNothing
<1>1. PollInv => PollerLosesNothing
  BY DEF PollInv, PollShapes, TakenOnce, Followed, PollerLosesNothing, DispatchedOnce,
     ForgottenIsDispatched
<1> QED
  BY PollInitially, PollStepKeeps, <1>1, PTL DEF PollSpec

-----------------------------------------------------------------------------
(* The flow engine.                                                        *)

\* A flow that goes on, or ended well, has booked exactly what its calls cost,
\* within its budget; one that completed was verified, outside every child.
Booked ==
  /\ {"cost", "steps", "fanout"} \subseteq DOMAIN usage
  /\ plan = << >> => usage.cost = 0 /\ spent = 0 /\ outcome = "none"
  /\ plan # << >> => plan[1] \in Plans
  /\ spent \in Nat
  /\ plan # << >> /\ outcome \in {"none", "completed", "finished"} =>
       usage.cost = spent /\ spent <= plan[1].cost
  /\ outcome = "completed" => answered = "verified" /\ ~InParallelChild

LEMMA BookedInitially == FlowInit => Booked
BY DEF FlowInit, Booked

LEMMA FlowStepBooks == Booked /\ [FlowNext]_flowVars => Booked'
<1> SUFFICES ASSUME Booked, [FlowNext]_flowVars PROVE Booked'
  OBVIOUS
<1>1. CASE Start
  <2>1. PICK p \in Plans : plan' = <<p>> /\ outcome' \in {"none", "bad-plan"}
    BY <1>1 DEF Start
  <2>2. /\ UNCHANGED <<usage, spent>> /\ plan = << >> /\ plan' # << >> /\ plan'[1] = p /\ p.cost \in Nat
    BY <1>1, <2>1, FlowAssumption DEF Start
  <2>3. usage.cost = 0 /\ spent = 0 /\ {"cost", "steps", "fanout"} \subseteq DOMAIN usage
    BY <2>2 DEF Booked
  <2>4. outcome' # "completed" /\ spent' \in Nat /\ usage'.cost = spent' /\ spent' <= plan'[1].cost
    BY <2>1, <2>2, <2>3
  <2> QED
    BY <2>1, <2>2, <2>3, <2>4 DEF Booked
<1>2. CASE Enter
  BY <1>2 DEF Enter, Booked, Running, Fail, ChargeStep
<1>3. CASE Model
  <2>1. Running /\ plan' = plan
    BY <1>3 DEF Model, On
  <2>2. CASE outcome' = "driver" /\ UNCHANGED <<usage, spent>>
    BY <2>1, <2>2 DEF Booked, Running
  <2>3. ASSUME NEW cost \in CallCosts, spent' = spent + cost,
               IF ChargeModel(cost) = << >> THEN outcome' = "over-cost" /\ UNCHANGED usage
               ELSE usage' = ChargeModel(cost)[1] /\ UNCHANGED outcome
        PROVE  Booked'
    <3>1. cost \in Nat /\ spent \in Nat /\ plan[1].cost \in Nat /\ usage.cost = spent /\ plan # << >>
          /\ outcome = "none" /\ "cost" \in DOMAIN usage
      BY <2>1, FlowAssumption DEF Booked, Running
    <3>2. CASE usage.cost + cost > plan[1].cost
      <4>1. outcome' = "over-cost" /\ UNCHANGED usage
        BY <2>3, <3>2 DEF ChargeModel
      <4>2. spent' \in Nat /\ outcome' \notin {"none", "completed", "finished"} /\ plan' # << >>
        BY <2>1, <2>3, <3>1, <4>1
      <4> QED
        BY <2>1, <4>1, <4>2 DEF Booked, Running
    <3>3. CASE ~(usage.cost + cost > plan[1].cost)
      <4>1. usage' = [usage EXCEPT !.cost = @ + cost] /\ UNCHANGED outcome
        BY <2>3, <3>3 DEF ChargeModel
      <4>2. usage'.cost = spent' /\ spent' <= plan'[1].cost /\ DOMAIN usage' = DOMAIN usage
        BY <2>1, <2>3, <3>1, <3>3, <4>1
      <4> QED
        BY <2>1, <2>3, <3>1, <4>1, <4>2 DEF Booked
    <3> QED
      BY <3>2, <3>3
  <2> QED
    BY <1>3, <2>2, <2>3 DEF Model, Fail
<1>4. CASE Tool \/ Review \/ LoopUntil \/ Route \/ Join \/ End
  <2>1. Running /\ UNCHANGED <<plan, usage, spent>> /\ outcome' # "completed"
    BY <1>4 DEF Tool, Review, LoopUntil, Route, Join, End, On, Running, Fail, GateTool
  <2> QED
    BY <2>1 DEF Booked, Running
<1>5. CASE VerifyNode
  BY <1>5 DEF VerifyNode, On, Running, Booked, Completed, Fail, InParallelChild, Nodes, depth
<1>6. CASE Parallel
  BY <1>6 DEF Parallel, On, Running, Booked, Fail, ChargeFanout
<1>7. CASE UNCHANGED flowVars
  BY <1>7 DEF flowVars, Booked, InParallelChild, Nodes, depth
<1> QED
  BY <1>1, <1>2, <1>3, <1>4, <1>5, <1>6, <1>7 DEF FlowNext

\* A flow completes only on the verifier's pass, outside every parallel child,
\* and whichever way it ends well it reports every model call it paid for,
\* within its budget (engine.rs run_from, charge_model).
THEOREM FlowsAreHonest == FlowSpec => []FlowsEndHonestly
<1>1. Booked => FlowsEndHonestly
  BY DEF Booked, FlowsEndHonestly
<1> QED
  BY BookedInitially, FlowStepBooks, <1>1, PTL DEF FlowSpec

-----------------------------------------------------------------------------
(* Webhooks and pull requests.                                             *)

Ids == {req.id : req \in Deliveries}

\* The guard g holds the last of the a deliveries that were taken, in their
\* order and up to its bound; h and t are the histories of authentic deliveries.
Recent(g, h, t, a) ==
  /\ Len(t) = Len(h)
  /\ Len(g) <= a /\ Len(g) <= GuardMax /\ (Len(g) < GuardMax => Len(g) = a)
  /\ \A i \in 1..Len(h) : t[i] <= a
  /\ \A k \in 1..Len(g) : \E i \in 1..Len(h) : h[i] = g[k] /\ t[i] # 0
  /\ \A i \in 1..Len(h) : t[i] > a - Len(g) => g[t[i] - (a - Len(g))] = h[i]

Spaced(h, t) ==
  \A i \in 1..Len(h) :
    /\ t[i] # 0 => \A j \in 1..(i - 1) : h[j] = h[i] /\ t[j] # 0 => t[i] - t[j] > GuardMax
    /\ t[i] = 0 => \E j \in 1..(i - 1) : h[j] = h[i] /\ t[j] # 0

HookShapes ==
  /\ connection = <<>> \/ \E req \in Deliveries : connection = <<req>>
  /\ genuine \in Seq(Ids) /\ guard \in Seq(Ids) /\ taken \in Seq(Nat) /\ accepted \in Nat
HooksInv ==
  /\ HookShapes /\ Recent(guard, genuine, taken, accepted) /\ Spaced(genuine, taken)
  /\ \A c \in commands : SignatureOk(c.of)

\* The guard after one more, seen through its places.
LEMMA PushedOut ==
  ASSUME NEW S, NEW g \in Seq(S), NEW id \in S, Len(g) <= GuardMax,
         NEW g1, g1 = Append(IF Len(g) >= GuardMax THEN Tail(g) ELSE g, id)
  PROVE  /\ g1 \in Seq(S)
         /\ Len(g) = GuardMax => /\ Len(g1) = Len(g) /\ g1[Len(g)] = id
                                 /\ \A k \in 1..Len(g) - 1 : g1[k] = g[k + 1]
         /\ Len(g) < GuardMax => /\ Len(g1) = Len(g) + 1 /\ g1[Len(g) + 1] = id
                                 /\ \A k \in 1..Len(g) : g1[k] = g[k]
<1>0. Len(g) \in Nat /\ GuardMax \in Nat /\ GuardMax >= 1
  BY HostedAssumption
<1>1. CASE Len(g) = GuardMax
  <2>1. g # <<>>
    BY <1>0, <1>1
  <2>2. Tail(g) \in Seq(S) /\ Len(Tail(g)) = Len(g) - 1 /\ \A k \in 1..Len(Tail(g)) : Tail(g)[k] = g[k + 1]
    BY <2>1, HeadTailProperties
  <2>3. g1 = Append(Tail(g), id)
    BY <1>0, <1>1
  <2> QED BY <1>0, <1>1, <2>2, <2>3
<1>2. CASE Len(g) < GuardMax
  <2>1. g1 = Append(g, id)
    BY <1>0, <1>2
  <2> QED BY <1>0, <1>2, <2>1
<1> QED BY <1>0, <1>1, <1>2

\* The places of a guard of length n before and of length n1 after id came in.
Shifted(g, n, g1, n1, id) ==
  /\ n = GuardMax => n1 = n /\ g1[n] = id /\ \A k \in 1..(n - 1) : g1[k] = g[k + 1]
  /\ n < GuardMax => n1 = n + 1 /\ g1[n + 1] = id /\ \A k \in 1..n : g1[k] = g[k]
\* The sequence s1 of length n + 1 extends s by e.
Extended(s, n, s1, e) == s1[n + 1] = e /\ \A i \in 1..n : s1[i] = s[i]
\* Parts of Recent, for histories of length m.
FromHistory(g, n, h, t, m) == \A k \in 1..n : \E i \in 1..m : h[i] = g[k] /\ t[i] # 0
InOrder(g, n, h, t, m, a) == \A i \in 1..m : t[i] > a - n => g[t[i] - (a - n)] = h[i]
Numbered(t, m, a) == \A i \in 1..m : t[i] \in Nat /\ t[i] <= a
Without(g, n, id) == \A k \in 1..n : g[k] # id

LEMMA GuardIsFromHistory ==
  ASSUME NEW g, NEW n \in Nat, NEW g1, NEW n1 \in Nat, NEW id, Shifted(g, n, g1, n1, id), n <= GuardMax,
         NEW h, NEW m \in Nat, NEW h1, Extended(h, m, h1, id), NEW t, NEW t1, NEW a \in Nat, Extended(t, m, t1, a + 1),
         FromHistory(g, n, h, t, m)
  PROVE  FromHistory(g1, n1, h1, t1, m + 1)
<1> USE DEF FromHistory
<1> SUFFICES ASSUME NEW k \in 1..n1 PROVE \E i \in 1..(m + 1) : h1[i] = g1[k] /\ t1[i] # 0
  OBVIOUS
<1>0. GuardMax \in Nat /\ GuardMax >= 1
  BY HostedAssumption
<1>1. g1[k] = id \/ \E l \in 1..n : g1[k] = g[l]
  <2>1. CASE n = GuardMax
    <3>1. k = n \/ (k \in 1..(n - 1) /\ k + 1 \in 1..n)
      BY <2>1, <1>0 DEF Shifted
    <3> QED BY <3>1, <2>1 DEF Shifted
  <2>2. CASE n < GuardMax
    <3>1. k = n + 1 \/ k \in 1..n
      BY <2>2 DEF Shifted
    <3> QED BY <3>1, <2>2 DEF Shifted
  <2> QED BY <2>1, <2>2, <1>0
<1>2. CASE g1[k] = id
  <2>1. m + 1 \in 1..(m + 1) /\ h1[m + 1] = id /\ t1[m + 1] # 0
    BY DEF Extended
  <2> QED BY <2>1, <1>2
<1>3. CASE \E l \in 1..n : g1[k] = g[l]
  <2>1. PICK i \in 1..m : h[i] = g1[k] /\ t[i] # 0
    BY <1>3
  <2>2. i \in 1..(m + 1) /\ h1[i] = h[i] /\ t1[i] = t[i]
    BY DEF Extended
  <2> QED BY <2>1, <2>2
<1> QED BY <1>1, <1>2, <1>3

LEMMA GuardKeepsOrder ==
  ASSUME NEW g, NEW n \in Nat, NEW g1, NEW n1 \in Nat, NEW id, Shifted(g, n, g1, n1, id), n <= GuardMax,
         NEW h, NEW m \in Nat, NEW h1, Extended(h, m, h1, id), NEW t, NEW t1, NEW a \in Nat, Extended(t, m, t1, a + 1),
         n <= a, Numbered(t, m, a), InOrder(g, n, h, t, m, a)
  PROVE  InOrder(g1, n1, h1, t1, m + 1, a + 1)
<1> USE DEF Numbered, InOrder
<1> SUFFICES ASSUME NEW i \in 1..(m + 1), t1[i] > (a + 1) - n1 PROVE g1[t1[i] - ((a + 1) - n1)] = h1[i]
  OBVIOUS
<1>0. GuardMax \in Nat /\ GuardMax >= 1
  BY HostedAssumption
<1>1. CASE i = m + 1
  <2>1. g1[n1] = id
    BY <1>0 DEF Shifted
  <2>2. t1[i] = a + 1 /\ h1[i] = id
    BY <1>1 DEF Extended
  <2>3. t1[i] - ((a + 1) - n1) = n1
    BY <2>2
  <2> QED BY <2>1, <2>2, <2>3
<1>2. CASE i # m + 1
  <2>1. i \in 1..m
    BY <1>2
  <2>2. t1[i] = t[i] /\ h1[i] = h[i] /\ t[i] \in Nat /\ t[i] <= a
    BY <2>1 DEF Extended
  <2>3. CASE n = GuardMax
    <3>1. n1 = n
      BY <2>3 DEF Shifted
    <3>2. PICK k \in Int : k = t[i] - ((a + 1) - n)
      BY <2>2
    <3>3. k \in 1..(n - 1) /\ k + 1 = t[i] - (a - n) /\ t[i] > a - n
      BY <3>1, <3>2, <2>2
    <3>4. g1[k] = g[k + 1] /\ g[k + 1] = h[i]
      BY <3>3, <2>1, <2>3 DEF Shifted
    <3> QED BY <3>1, <3>2, <3>4, <2>2
  <2>4. CASE n < GuardMax
    <3>1. n1 = n + 1
      BY <2>4 DEF Shifted
    <3>2. PICK k \in Int : k = t[i] - (a - n)
      BY <2>2
    <3>3. k \in 1..n /\ k = t[i] - ((a + 1) - n1) /\ t[i] > a - n
      BY <3>1, <3>2, <2>2
    <3>4. g1[k] = g[k] /\ g[k] = h[i]
      BY <3>2, <3>3, <2>1, <2>4 DEF Shifted
    <3> QED BY <3>3, <3>4, <2>2
  <2> QED BY <2>3, <2>4, <1>0
<1> QED BY <1>1, <1>2

LEMMA TakenIsApart ==
  ASSUME NEW g, NEW n \in Nat, NEW id, Without(g, n, id),
         NEW h, NEW m \in Nat, NEW t, NEW a \in Nat, n <= a, n < GuardMax => n = a, n <= GuardMax,
         Numbered(t, m, a), InOrder(g, n, h, t, m, a),
         NEW j \in 1..m, h[j] = id, t[j] # 0
  PROVE  (a + 1) - t[j] > GuardMax
<1> USE DEF Numbered, InOrder, Without
<1>0. GuardMax \in Nat /\ GuardMax >= 1 /\ t[j] \in Nat /\ t[j] <= a
  BY HostedAssumption
<1>1. ~(t[j] > a - n)
  <2> SUFFICES ASSUME t[j] > a - n PROVE FALSE
    OBVIOUS
  <2>1. t[j] - (a - n) \in 1..n
    BY <1>0
  <2>2. g[t[j] - (a - n)] = id
    OBVIOUS
  <2> QED BY <2>1, <2>2
<1> QED BY <1>0, <1>1

\* An id the guard does not hold was taken long enough ago, if ever, and taking
\* it keeps the guard recent.
LEMMA TakenIsNew ==
  ASSUME NEW g \in Seq(Ids), NEW h \in Seq(Ids), NEW t \in Seq(Nat), NEW a \in Nat, NEW id \in Ids,
         Recent(g, h, t, a), Spaced(h, t), \A k \in 1..Len(g) : g[k] # id,
         NEW g1, g1 = Append(IF Len(g) >= GuardMax THEN Tail(g) ELSE g, id)
  PROVE  /\ g1 \in Seq(Ids)
         /\ Recent(g1, Append(h, id), Append(t, a + 1), a + 1)
         /\ Spaced(Append(h, id), Append(t, a + 1))
<1> DEFINE n == Len(g)
           n1 == Len(g1)
           m == Len(h)
           h1 == Append(h, id)
           t1 == Append(t, a + 1)
<1>1. /\ n \in Nat /\ m \in Nat /\ Len(t) = m /\ n <= a /\ n <= GuardMax /\ (n < GuardMax => n = a)
      /\ Numbered(t, m, a) /\ FromHistory(g, n, h, t, m) /\ InOrder(g, n, h, t, m, a) /\ Without(g, n, id)
      /\ GuardMax \in Nat /\ GuardMax >= 1
  <2>1. n \in Nat /\ m \in Nat /\ GuardMax \in Nat /\ GuardMax >= 1
    BY HostedAssumption, LenProperties
  <2>2. Len(t) = m /\ n <= a /\ n <= GuardMax /\ (n < GuardMax => n = a)
    BY DEF Recent
  <2>3. FromHistory(g, n, h, t, m)
    BY DEF Recent, FromHistory
  <2>4. Numbered(t, m, a)
    BY DEF Recent, Numbered
  <2>5. InOrder(g, n, h, t, m, a)
    BY DEF Recent, InOrder
  <2>6. Without(g, n, id)
    BY DEF Without
  <2> QED BY <2>1, <2>2, <2>3, <2>4, <2>5, <2>6
<1>2. g1 \in Seq(Ids) /\ n1 \in Nat /\ Shifted(g, n, g1, n1, id)
  BY <1>1, PushedOut DEF Shifted
<1>3. h1 \in Seq(Ids) /\ Len(h1) = m + 1 /\ Extended(h, m, h1, id)
  BY DEF Extended
<1>4. t1 \in Seq(Nat) /\ Len(t1) = m + 1 /\ Extended(t, m, t1, a + 1)
  BY <1>1 DEF Extended
<1>5. /\ \A i \in 1..m : /\ t[i] # 0 => \A j \in 1..(i - 1) : h[j] = h[i] /\ t[j] # 0 => t[i] - t[j] > GuardMax
                         /\ t[i] = 0 => \E j \in 1..(i - 1) : h[j] = h[i] /\ t[j] # 0
  BY DEF Spaced
<1> HIDE DEF n, n1, m, h1, t1
<1>7. n1 <= a + 1 /\ n1 <= GuardMax /\ (n1 < GuardMax => n1 = a + 1)
  BY <1>1, <1>2 DEF Shifted
<1>8. \A i \in 1..(m + 1) : t1[i] <= a + 1
  BY <1>1, <1>4 DEF Extended, Numbered
<1>9. FromHistory(g1, n1, h1, t1, m + 1)
  BY <1>1, <1>2, <1>3, <1>4, GuardIsFromHistory
<1>10. InOrder(g1, n1, h1, t1, m + 1, a + 1)
  BY <1>1, <1>2, <1>3, <1>4, GuardKeepsOrder
<1>11. \A j \in 1..m : h[j] = id /\ t[j] # 0 => (a + 1) - t[j] > GuardMax
  BY <1>1, TakenIsApart
<1>12. \A i \in 1..(m + 1) :
         /\ t1[i] # 0 => \A j \in 1..(i - 1) : h1[j] = h1[i] /\ t1[j] # 0 => t1[i] - t1[j] > GuardMax
         /\ t1[i] = 0 => \E j \in 1..(i - 1) : h1[j] = h1[i] /\ t1[j] # 0
  <2> SUFFICES ASSUME NEW i \in 1..(m + 1)
               PROVE  /\ t1[i] # 0 => \A j \in 1..(i - 1) : h1[j] = h1[i] /\ t1[j] # 0 => t1[i] - t1[j] > GuardMax
                      /\ t1[i] = 0 => \E j \in 1..(i - 1) : h1[j] = h1[i] /\ t1[j] # 0
    OBVIOUS
  <2>1. CASE i = m + 1
    <3>1. t1[i] = a + 1 /\ h1[i] = id /\ a + 1 # 0
      BY <2>1, <1>3, <1>4 DEF Extended
    <3>2. \A j \in 1..(i - 1) : j \in 1..m /\ h1[j] = h[j] /\ t1[j] = t[j]
      BY <2>1, <1>1, <1>3, <1>4 DEF Extended
    <3> QED BY <3>1, <3>2, <1>11
  <2>2. CASE i # m + 1
    <3>1. i \in 1..m /\ \A j \in 1..i : j \in 1..m
      BY <2>2, <1>1
    <3>2. i \in 1..i /\ \A j \in 1..(i - 1) : j \in 1..i
      BY <3>1
    <3>3. \A j \in 1..i : h1[j] = h[j] /\ t1[j] = t[j]
      BY <3>1, <1>3, <1>4 DEF Extended
    <3> QED BY <3>1, <3>2, <3>3, <1>5
  <2> QED BY <2>1, <2>2
<1>13. Recent(g1, h1, t1, a + 1)
  <2>1. Len(g1) = n1 /\ Len(h1) = m + 1 /\ Len(t1) = m + 1
    BY <1>3, <1>4 DEF n1
  <2>2. \A i \in 1..Len(h1) : t1[i] <= a + 1
    BY <2>1, <1>8
  <2>3. FromHistory(g1, Len(g1), h1, t1, Len(h1)) /\ InOrder(g1, Len(g1), h1, t1, Len(h1), a + 1)
    BY <2>1, <1>9, <1>10
  <2>4. Len(g1) <= a + 1 /\ Len(g1) <= GuardMax /\ (Len(g1) < GuardMax => Len(g1) = a + 1) /\ Len(t1) = Len(h1)
    BY <2>1, <1>7
  <2> QED BY <2>2, <2>3, <2>4, Zenon DEF Recent, FromHistory, InOrder
<1>14. Spaced(h1, t1)
  BY <1>3, <1>12 DEF Spaced
<1> QED BY <1>2, <1>13, <1>14 DEF h1, t1

\* A replay adds an authentic delivery that is not taken, of an id in the guard.
LEMMA ReplayIsKnown ==
  ASSUME NEW g \in Seq(Ids), NEW h \in Seq(Ids), NEW t \in Seq(Nat), NEW a \in Nat, NEW id \in Ids,
         Recent(g, h, t, a), Spaced(h, t), NEW k \in 1..Len(g), g[k] = id
  PROVE  /\ Recent(g, Append(h, id), Append(t, 0), a)
         /\ Spaced(Append(h, id), Append(t, 0))
<1> DEFINE n == Len(g)
           m == Len(h)
           h1 == Append(h, id)
           t1 == Append(t, 0)
<1>1. /\ n \in Nat /\ m \in Nat /\ Len(t) = m /\ n <= a /\ n <= GuardMax /\ (n < GuardMax => n = a)
      /\ Numbered(t, m, a) /\ FromHistory(g, n, h, t, m) /\ InOrder(g, n, h, t, m, a) /\ k \in 1..n
  <2>1. n \in Nat /\ m \in Nat /\ k \in 1..n
    BY LenProperties
  <2>2. Len(t) = m /\ n <= a /\ n <= GuardMax /\ (n < GuardMax => n = a)
    BY DEF Recent
  <2>3. FromHistory(g, n, h, t, m)
    BY DEF Recent, FromHistory
  <2>4. Numbered(t, m, a)
    BY DEF Recent, Numbered
  <2>5. InOrder(g, n, h, t, m, a)
    BY DEF Recent, InOrder
  <2> QED BY <2>1, <2>2, <2>3, <2>4, <2>5
<1>3. h1 \in Seq(Ids) /\ Len(h1) = m + 1 /\ Extended(h, m, h1, id)
  BY DEF Extended
<1>4. t1 \in Seq(Nat) /\ Len(t1) = m + 1 /\ Extended(t, m, t1, 0)
  BY <1>1 DEF Extended
<1>5. /\ \A i \in 1..m : /\ t[i] # 0 => \A j \in 1..(i - 1) : h[j] = h[i] /\ t[j] # 0 => t[i] - t[j] > GuardMax
                         /\ t[i] = 0 => \E j \in 1..(i - 1) : h[j] = h[i] /\ t[j] # 0
  BY DEF Spaced
<1> HIDE DEF n, m, h1, t1
<1>6. \A i \in 1..m : i \in 1..(m + 1) /\ h1[i] = h[i] /\ t1[i] = t[i]
  BY <1>1, <1>3, <1>4 DEF Extended
<1>7. \A i \in 1..(m + 1) : i \in 1..m \/ (i = m + 1 /\ t1[i] = 0 /\ h1[i] = id)
  BY <1>1, <1>3, <1>4 DEF Extended
<1>8. \A i \in 1..(m + 1) : t1[i] <= a
  BY <1>1, <1>6, <1>7 DEF Numbered
<1>9. FromHistory(g, n, h1, t1, m + 1)
  <2> SUFFICES ASSUME NEW q \in 1..n PROVE \E i \in 1..(m + 1) : h1[i] = g[q] /\ t1[i] # 0
    BY DEF FromHistory
  <2>1. PICK i \in 1..m : h[i] = g[q] /\ t[i] # 0
    BY <1>1 DEF FromHistory
  <2>2. i \in 1..(m + 1) /\ h1[i] = g[q] /\ t1[i] # 0
    BY <2>1, <1>6
  <2> QED BY <2>2
<1>10. InOrder(g, n, h1, t1, m + 1, a)
  BY <1>1, <1>6, <1>7 DEF InOrder
<1>11. PICK e \in 1..m : h[e] = id /\ t[e] # 0
  BY <1>1 DEF FromHistory
<1>12. \A i \in 1..(m + 1) :
         /\ t1[i] # 0 => \A j \in 1..(i - 1) : h1[j] = h1[i] /\ t1[j] # 0 => t1[i] - t1[j] > GuardMax
         /\ t1[i] = 0 => \E j \in 1..(i - 1) : h1[j] = h1[i] /\ t1[j] # 0
  <2> SUFFICES ASSUME NEW i \in 1..(m + 1)
               PROVE  /\ t1[i] # 0 => \A j \in 1..(i - 1) : h1[j] = h1[i] /\ t1[j] # 0 => t1[i] - t1[j] > GuardMax
                      /\ t1[i] = 0 => \E j \in 1..(i - 1) : h1[j] = h1[i] /\ t1[j] # 0
    OBVIOUS
  <2>1. CASE i = m + 1
    <3>1. e \in 1..(i - 1) /\ h1[e] = h1[i] /\ t1[e] # 0 /\ t1[i] = 0
      BY <2>1, <1>1, <1>6, <1>7, <1>11
    <3> QED BY <3>1
  <2>2. CASE i # m + 1
    <3>1. i \in 1..m /\ \A j \in 1..(i - 1) : j \in 1..m
      BY <2>2, <1>1
    <3> QED BY <3>1, <1>5, <1>6
  <2> QED BY <2>1, <2>2
<1>13. Recent(g, h1, t1, a)
  BY <1>1, <1>3, <1>4, <1>8, <1>9, <1>10 DEF Recent, n, FromHistory, InOrder
<1>14. Spaced(h1, t1)
  BY <1>3, <1>12 DEF Spaced
<1> QED BY <1>13, <1>14 DEF h1, t1

LEMMA HooksStart == HostedInit => HooksInv
  BY HostedAssumption DEF HostedInit, HooksInv, HookShapes, Recent, Spaced

LEMMA ServeKeeps ==
  ASSUME HooksInv, Serve
  PROVE  HooksInv'
<1> USE DEF HooksInv
<1>1. PICK req \in Deliveries : connection = <<req>>
  BY DEF Serve, HookShapes
<1>2. connection[1] = req /\ req.id \in Ids /\ req.size \in Nat
  BY <1>1, HostedAssumption DEF Ids
<1> DEFINE ok == ParseHttp(req) /\ Verify(req) = "remember"
           real == ParseHttp(req) /\ SignatureOk(req) /\ req.id \notin {"", "long"}
<1>3. /\ guard' = IF ok THEN Remembered(req.id) ELSE guard
      /\ IF real THEN /\ genuine' = Append(genuine, req.id)
                      /\ taken' = Append(taken, IF ok THEN accepted + 1 ELSE 0)
                      /\ accepted' = IF ok THEN accepted + 1 ELSE accepted
                 ELSE UNCHANGED <<genuine, taken, accepted>>
      /\ \A c \in commands' : c \in commands \/ (ok /\ c.of = req)
      /\ connection' = <<>>
  <2>1. /\ guard' = IF ok THEN Remembered(req.id) ELSE guard
        /\ IF real THEN /\ genuine' = Append(genuine, req.id)
                        /\ taken' = Append(taken, IF ok THEN accepted + 1 ELSE 0)
                        /\ accepted' = IF ok THEN accepted + 1 ELSE accepted
                   ELSE UNCHANGED <<genuine, taken, accepted>>
        /\ connection' = <<>>
    BY <1>2, Zenon DEF Serve
  <2>2. PICK more : commands' = commands \cup IF ok /\ ToAction(ParseComment(req.lines)) # <<>>
                                              THEN {[of |-> req, act |-> more]} ELSE {}
    BY <1>2, Zenon DEF Serve
  <2>3. \A c \in commands' : c \in commands \/ (ok /\ c.of = req)
    <3> HIDE DEF ok
    <3> QED BY <2>2
  <2> QED BY <2>1, <2>3
<1>4. ok => real
  BY DEF Verify
<1>5. real /\ ~ok => req.id \in Range(guard)
  <2> SUFFICES ASSUME real, req.id \notin Range(guard) PROVE ok
    OBVIOUS
  <2>1. ~(req.size > BodyMax)
    <3>1. req.size <= BodyMax
      BY Zenon DEF ParseHttp
    <3>2. BodyMax \in Nat
      BY HostedAssumption
    <3> HIDE DEF HooksInv, ok, real
    <3> QED BY <3>1, <3>2, <1>2
  <2>2. req.id # "" /\ req.id # "long" /\ SignatureOk(req)
    OBVIOUS
  <2>3. Verify(req) = "remember"
    BY <2>1, <2>2, Zenon DEF Verify
  <2> QED BY <2>3
<1>6. ok => req.id \notin Range(guard)
  BY DEF Verify
<1>7. \A c \in commands' : SignatureOk(c.of)
  BY <1>3, <1>4 DEF SignatureOk
<1> HIDE DEF ok, real
<1>8. CASE ok
  <2>1. \A k \in 1..Len(guard) : guard[k] # req.id
    BY <1>6, <1>8 DEF Range, HookShapes
  <2>2. guard' = Append(IF Len(guard) >= GuardMax THEN Tail(guard) ELSE guard, req.id)
    BY <1>3, <1>8 DEF Remembered
  <2>3. /\ genuine' = Append(genuine, req.id) /\ taken' = Append(taken, accepted + 1)
        /\ accepted' = accepted + 1
    BY <1>3, <1>4, <1>8
  <2>4. /\ guard' \in Seq(Ids) /\ Recent(guard', genuine', taken', accepted')
        /\ Spaced(genuine', taken')
    BY <2>1, <2>2, <2>3, <1>2, TakenIsNew DEF HookShapes
  <2>5. HookShapes'
    BY <1>2, <1>3, <2>3, <2>4 DEF HookShapes
  <2> QED BY <2>4, <2>5, <1>7
<1>9. CASE ~ok /\ real
  <2>1. PICK k \in 1..Len(guard) : guard[k] = req.id
    <3>1. DOMAIN guard = 1..Len(guard)
      BY LenProperties DEF HookShapes
    <3>2. \E k \in DOMAIN guard : guard[k] = req.id
      BY <1>5, <1>9, Zenon DEF Range
    <3> QED BY <3>1, <3>2, Zenon
  <2>2. /\ guard' = guard /\ genuine' = Append(genuine, req.id) /\ taken' = Append(taken, 0)
        /\ accepted' = accepted
    BY <1>3, <1>9
  <2>3. Recent(guard', genuine', taken', accepted') /\ Spaced(genuine', taken')
    BY <2>1, <2>2, <1>2, ReplayIsKnown DEF HookShapes
  <2>4. HookShapes'
    BY <1>2, <1>3, <2>2 DEF HookShapes
  <2> QED BY <2>3, <2>4, <1>7
<1>10. CASE ~ok /\ ~real
  <2>1. UNCHANGED <<guard, genuine, taken, accepted>>
    BY <1>3, <1>10
  <2> QED BY <2>1, <1>3, <1>7 DEF HookShapes
<1> QED BY <1>8, <1>9, <1>10

\* Pull requests.
PullsInv ==
  /\ HostedGatesHold /\ repairs \in Nat /\ runs = [j \in DOMAIN runs |-> runs[j]]
  /\ \A j \in DOMAIN runs : runs[j] \in {"running", "passed", "failed"}

LEMMA PushKeeps ==
  ASSUME PullsInv, NEW argv \in Argvs, Push(argv)
  PROVE  \A p \in pushes' : p.named => IsPrefix(Prefix, p.at) /\ ~p.force
<1>1. {j \in DOMAIN argv : argv[j].is = "word"} = {j \in DOMAIN argv : ~IsFlag(argv[j])}
  BY HostedAssumption DEF IsFlag
<1>2. ~\E j \in DOMAIN argv : argv[j].is = "flag" /\ argv[j].force
  BY DEF Push, ValidatePush, ParsePushArgv, IsFlag
<1>3. \A i \in AfterFirst({j \in DOMAIN argv : argv[j].is = "word"}) : ~argv[i].force /\ IsPrefix(Prefix, argv[i].dst)
  BY <1>1 DEF Push, ValidatePush, ParsePushArgv, BranchUnderPrefix
<1>4. ASSUME NEW p \in pushes', p.named PROVE IsPrefix(Prefix, p.at) /\ ~p.force
  <2>0. p \in Named(argv)
    <3>1. PICK chosen \in SUBSET [at : Branches, named : {FALSE}, force : BOOLEAN] :
            pushes' = Named(argv) \cup chosen
      BY DEF Push
    <3>2. p \in chosen => p.named = FALSE
      BY <3>1
    <3> QED BY <3>1, <3>2, <1>4
  <2>1. PICK i \in AfterFirst({j \in DOMAIN argv : argv[j].is = "word"}) :
          p = [at |-> argv[i].dst, named |-> TRUE,
               force |-> argv[i].force \/ \E j \in DOMAIN argv : argv[j].is = "flag" /\ argv[j].force]
    BY <2>0 DEF Named
  <2>2. p.at = argv[i].dst /\ (p.force <=> argv[i].force \/ \E j \in DOMAIN argv : argv[j].is = "flag" /\ argv[j].force)
    BY <2>1
  <2> QED BY <2>2, <1>2, <1>3
<1> QED BY <1>4

LEMMA ChecksKeep ==
  ASSUME PullsInv, PollChecks
  PROVE  PullsInv'
<1> USE DEF PullsInv
<1> DEFINE st == AggregateChecks(States(polled'))
           d == MonitorDecision(st, repairs)
<1>0. PICK page \in Pages : polled' = [j \in page |-> runs[j]]
  BY DEF PollChecks
<1>1. /\ monitor' = d /\ UNCHANGED <<pushes, tokens>>
      /\ IF d = "repair" THEN repairs' = repairs + 1 /\ runs' = [j \in DOMAIN runs |-> "running"]
         ELSE UNCHANGED <<repairs, runs>>
  BY DEF PollChecks
<1>2. d = "green" => st = "passed"
  BY DEF MonitorDecision, RepairDecision
<1>3. d = "repair" => repairs < MaxAttempts
  BY DEF MonitorDecision, RepairDecision
<1>4. /\ st = "passed" => States(polled') # {} /\ "running" \notin States(polled') /\ "failed" \notin States(polled')
      /\ st = "failed" => "failed" \in States(polled') /\ "running" \notin States(polled')
  BY DEF AggregateChecks
<1>5. st = "passed" => States(polled') = {"passed"} /\ polled' # <<>>
  <2>0. page \subseteq DOMAIN runs
    BY DEF Pages
  <2>1. States(polled') \subseteq {"running", "passed", "failed"}
    BY <1>0, <2>0 DEF States
  <2>2. polled' = <<>> => States(polled') = {}
    BY DEF States
  <2> QED BY <1>4, <2>1, <2>2
<1>9. d = "repair" => st = "failed"
  BY DEF MonitorDecision, RepairDecision, AggregateChecks
<1>10. Cardinality(DOMAIN runs) <= PageSize => polled' = runs
  <2>1. runs = [j \in DOMAIN runs |-> runs[j]]
    OBVIOUS
  <2>2. Cardinality(DOMAIN runs) <= PageSize => page = DOMAIN runs
    BY DEF Pages
  <2> QED BY <1>0, <2>1, <2>2
<1> HIDE DEF d, st
<1>6. repairs' \in Nat /\ repairs' <= MaxAttempts
  BY <1>1, <1>3, HostedAssumption DEF HostedGatesHold
<1>7. \A j \in DOMAIN runs' : runs'[j] \in {"running", "passed", "failed"}
  BY <1>1
<1>8. monitor' = "green" => polled' # <<>> /\ States(polled') = {"passed"}
  BY <1>1, <1>2, <1>5
<1>11. monitor' = "repair" => "failed" \in States(polled') /\ "running" \notin States(polled')
  BY <1>1, <1>4, <1>9
<1>12. monitor' = "green" /\ Cardinality(DOMAIN runs') <= PageSize => polled' = runs'
  BY <1>1, <1>10
<1>13. runs' = [j \in DOMAIN runs' |-> runs'[j]]
  BY <1>1
<1> QED BY <1>1, <1>6, <1>7, <1>8, <1>11, <1>12, <1>13 DEF HostedGatesHold, States

LEMMA MintKeeps ==
  ASSUME PullsInv, Mint
  PROVE  \A t \in tokens' : t.jwt.iat <= t.theirs /\ t.theirs < t.jwt.exp /\ t.jwt.exp - t.theirs <= 600
<1>1. PICK now \in MintTimes, skew \in Skews :
        now + skew >= 0 /\ tokens' = {[jwt |-> MintJwt(now), theirs |-> now + skew]}
  BY DEF Mint
<1>2. now \in Nat /\ skew \in Int /\ skew >= -30 /\ skew <= 30
  BY HostedAssumption
<1> DEFINE iat == Monus(now, 30)
<1>3. MintJwt(now) = [iat |-> iat, exp |-> iat + 540]
  BY DEF MintJwt, JwtBackdate, JwtTtl
<1>4. /\ iat <= now + skew /\ now + skew < iat + 540
      /\ (iat + 540) - (now + skew) <= 600
  BY <1>1, <1>2 DEF Monus
<1> HIDE DEF iat
<1> QED BY <1>1, <1>3, <1>4

LEMMA HostedStep == HooksInv /\ PullsInv /\ [HooksNext \/ PullsNext]_hostedVars => HooksInv' /\ PullsInv'
<1> SUFFICES ASSUME HooksInv, PullsInv, [HooksNext \/ PullsNext]_hostedVars PROVE HooksInv' /\ PullsInv'
  OBVIOUS
<1>1. UNCHANGED <<connection, guard, genuine, taken, accepted, commands>> => HooksInv'
  BY DEF HooksInv, HookShapes
<1>2. UNCHANGED <<pushes, runs, repairs, polled, monitor, tokens>> => PullsInv'
  BY DEF PullsInv, HostedGatesHold
<1>3. CASE UNCHANGED hostedVars
  BY <1>1, <1>2, <1>3 DEF hostedVars
<1>4. CASE Connect
  BY <1>4, <1>2 DEF Connect, HooksInv, HookShapes
<1>5. CASE Serve
  <2>1. UNCHANGED <<pushes, runs, repairs, polled, monitor, tokens>>
    BY <1>5, Zenon DEF Serve
  <2> QED BY <1>5, <1>2, <2>1, ServeKeeps
<1>6. CASE CiReports
  <2>1. \A j \in DOMAIN runs' : runs'[j] \in {"running", "passed", "failed"}
    BY <1>6 DEF CiReports, PullsInv
  <2>2. monitor' = "none" /\ UNCHANGED <<connection, guard, genuine, taken, accepted, commands, pushes, repairs, tokens>>
    BY <1>6 DEF CiReports
  <2>3. runs' = [j \in DOMAIN runs' |-> runs'[j]]
    BY <1>6 DEF CiReports
  <2> QED BY <1>1, <2>1, <2>2, <2>3 DEF PullsInv, HostedGatesHold
<1>7. CASE PollChecks
  BY <1>7, <1>1, ChecksKeep DEF PollChecks
<1>8. CASE Mint
  BY <1>8, <1>1, MintKeeps DEF Mint, PullsInv, HostedGatesHold
<1>9. ASSUME NEW argv \in Argvs, Push(argv) PROVE HooksInv' /\ PullsInv'
  BY <1>9, <1>1, PushKeeps DEF Push, PullsInv, HostedGatesHold
<1> QED BY <1>3, <1>4, <1>5, <1>6, <1>7, <1>8, <1>9 DEF HooksNext, PullsNext

(***************************************************************************)
(* For any deliveries, push command lines, check runs and bounds: no       *)
(* delivery is taken twice within the guard's memory, none that is         *)
(* authentic and new is refused, and what reaches the repository passed    *)
(* the gates in front of it (WebhookVerifier::verify, validate_push,       *)
(* monitor_pr, mint_app_jwt).                                              *)
(***************************************************************************)
THEOREM HostedGuarded == HostedSpec => []HostedIsGuarded
<1>1. HostedInit => PullsInv
  BY HostedAssumption DEF HostedInit, PullsInv, HostedGatesHold
<1>2. HooksInv /\ PullsInv => HostedIsGuarded
  <2> SUFFICES ASSUME HooksInv, PullsInv PROVE HostedIsGuarded
    OBVIOUS
  <2>1. DOMAIN genuine = 1..Len(genuine)
    BY DEF HooksInv, HookShapes
  <2> QED BY <2>1 DEF HooksInv, Spaced, PullsInv, HostedIsGuarded, DeliveredOnce
<1> QED BY HooksStart, HostedStep, <1>1, <1>2, PTL DEF HostedSpec

-----------------------------------------------------------------------------
(* The development server.                                                  *)

\* Clock, numbers and configuration, and no answer before the server is up.
DevShapes ==
  /\ devNow \in Nat /\ devAsked \in Nat
  /\ devConf \in [host : {"loopback", "public"}, mutation : BOOLEAN, chat : BOOLEAN, off : BOOLEAN, up : BOOLEAN]
  /\ ~devConf.up => devLast = NoResponse
  /\ \A i \in DOMAIN devEngine : devEngine[i].expires \in Nat
  /\ DOMAIN devShown \subseteq 1..devAsked

\* What a response granted was the engine's, within its time, and is used up.
GrantWasDue ==
  /\ devLast.granted # <<>> =>
       LET g == devLast.granted[1]
       IN  /\ g.auth = "bearer-right" /\ g.loopback /\ devConf.mutation /\ devConf.chat
           /\ devNow <= g.was.expires
           /\ g.op = g.was.op
           /\ g.id \notin DOMAIN devEngine
  /\ devLast.status # 200 => devLast.granted = <<>>

\* A row that is shown can still be answered, the newest of its id for what it shows.
RowsAreLive ==
  \A i \in DOMAIN devShown :
    /\ devShown[i].id \in DOMAIN devEngine
    /\ (\A j \in DOMAIN devShown : j > i => devShown[j].id # devShown[i].id)
         => devEngine[devShown[i].id].op = devShown[i].op

DevInv == DevShapes /\ GrantWasDue /\ RowsAreLive

\* An answer without a grant.
LEMMA RespondGrants ==
  ASSUME NEW n, Respond(n) PROVE devLast'.granted = <<>>
  BY DEF Respond, NoResponse

LEMMA DevStart == DevInit => DevInv
  BY DEF DevInit, DevInv, DevShapes, GrantWasDue, RowsAreLive, NoResponse

\* Asking adds the newest row, for what the engine now holds.
LEMMA AskKeeps ==
  ASSUME DevInv, NEW id, NEW op, NEW ttl \in Nat, RequestApproval(id, op, ttl)
  PROVE  DevInv'
<1> USE DEF DevInv
<1> DEFINE n == devAsked + 1
<1>0. /\ devNow' = devNow /\ devConf' = devConf /\ devAsked' = n /\ devLast' = NoResponse /\ devConf.up
      /\ n \in Nat /\ n \notin DOMAIN devShown /\ \A m \in DOMAIN devShown : m \in Nat /\ m < n
  BY DEF RequestApproval, DevShapes
<1>1. /\ DOMAIN devEngine' = DOMAIN devEngine \cup {id}
      /\ devEngine'[id] = [op |-> op, expires |-> devNow + ttl]
      /\ \A i \in DOMAIN devEngine \ {id} : devEngine'[i] = devEngine[i]
  BY DEF RequestApproval
<1>2. /\ DOMAIN devShown' = DOMAIN devShown \cup {n}
      /\ devShown'[n].id = id /\ devShown'[n].op = op
      /\ \A m \in DOMAIN devShown : devShown'[m] = devShown[m]
  BY <1>0 DEF RequestApproval
<1> HIDE DEF n
<1>3. DevShapes'
  <2>1. \A i \in DOMAIN devEngine' : devEngine'[i].expires \in Nat
    BY <1>1 DEF DevShapes
  <2>2. DOMAIN devShown' \subseteq 1..devAsked'
    BY <1>0, <1>2 DEF DevShapes, n
  <2> QED BY <1>0, <2>1, <2>2 DEF DevShapes
<1>4. GrantWasDue'
  BY <1>0 DEF GrantWasDue, NoResponse
<1>5. RowsAreLive'
  <2> SUFFICES ASSUME NEW i \in DOMAIN devShown'
               PROVE  /\ devShown'[i].id \in DOMAIN devEngine'
                      /\ (\A j \in DOMAIN devShown' : j > i => devShown'[j].id # devShown'[i].id)
                           => devEngine'[devShown'[i].id].op = devShown'[i].op
    BY DEF RowsAreLive
  <2>1. CASE i = n
    BY <2>1, <1>1, <1>2
  <2>2. CASE i # n /\ devShown[i].id = id
    <3>1. n > i /\ devShown'[n].id = devShown'[i].id
      BY <2>2, <1>0, <1>2
    <3> QED BY <3>1, <1>1, <1>2, <2>2
  <2>3. CASE i # n /\ devShown[i].id # id
    BY <2>3, <1>1, <1>2 DEF RowsAreLive
  <2> QED BY <2>1, <2>2, <2>3
<1> QED BY <1>3, <1>4, <1>5

\* A resolution takes every row of its id off the list, and the engine loses
\* nothing else.
LEMMA ResolutionKeeps ==
  ASSUME DevInv, NEW d, DispatchResolution(d), devConf.up, UNCHANGED <<devConf, devAsked, devNow>>
  PROVE  DevShapes' /\ RowsAreLive'
<1> USE DEF DevInv
<1>1. /\ DOMAIN devEngine' \subseteq DOMAIN devEngine /\ DOMAIN devEngine \ {d.id} \subseteq DOMAIN devEngine'
      /\ \A i \in DOMAIN devEngine' : devEngine'[i] = devEngine[i]
  BY DEF DispatchResolution, EngineAfter
<1>2. /\ DOMAIN devShown' = {m \in DOMAIN devShown : devShown[m].id # d.id}
      /\ \A m \in DOMAIN devShown' : devShown'[m] = devShown[m]
  BY DEF DispatchResolution
<1>3. DevShapes'
  BY <1>1, <1>2 DEF DevShapes
<1>4. RowsAreLive'
  <2> SUFFICES ASSUME NEW i \in DOMAIN devShown'
               PROVE  /\ devShown'[i].id \in DOMAIN devEngine'
                      /\ (\A j \in DOMAIN devShown' : j > i => devShown'[j].id # devShown'[i].id)
                           => devEngine'[devShown'[i].id].op = devShown'[i].op
    BY DEF RowsAreLive
  <2>1. /\ i \in DOMAIN devShown /\ devShown'[i] = devShown[i] /\ devShown[i].id # d.id
        /\ devShown[i].id \in DOMAIN devEngine'
    BY <1>1, <1>2 DEF RowsAreLive
  <2>2. (\A j \in DOMAIN devShown' : j > i => devShown'[j].id # devShown'[i].id)
          => \A j \in DOMAIN devShown : j > i => devShown[j].id # devShown[i].id
    BY <2>1, <1>2
  <2> QED BY <2>1, <2>2, <1>1 DEF RowsAreLive
<1> QED BY <1>3, <1>4

\* A request that is handled was authenticated, from this machine, and what it
\* grants is the engine's answer.
LEMMA HandleKeeps ==
  ASSUME DevInv, NEW req, Handle(req)
  PROVE  DevInv'
<1> USE DEF DevInv
<1>0. devConf.up /\ UNCHANGED <<devConf, devAsked, devNow>>
  BY DEF Handle
<1>1. ASSUME UNCHANGED <<devEngine, devShown>>, devLast'.granted = <<>> PROVE DevInv'
  BY <1>0, <1>1 DEF DevShapes, GrantWasDue, RowsAreLive
<1>2. CASE Refusal(req) # <<>>
  BY <1>2, <1>1, RespondGrants DEF Handle
<1>3. CASE Refusal(req) = <<>> /\ Lookup(req.method, req.path) = <<"ReadOnly">>
  BY <1>3, <1>1, RespondGrants DEF Handle, HandleRead
<1>4. CASE Refusal(req) = <<>> /\ HandleMutate(req)
  <2> DEFINE d == ParseDispatch(req.body)
  <2>1. req.auth = "bearer-right" /\ req.loopback
    BY <1>4 DEF Refusal, Authenticate
  <2>2. CASE d.error # "" \/ ~devConf.mutation
    BY <1>4, <2>2, <1>1, RespondGrants DEF HandleMutate
  <2>3. CASE d.error = "" /\ devConf.mutation
    <3>1. /\ DispatchResolution(d) /\ devLast'.granted = Granted(req, d)
          /\ devLast'.status = IF EngineOutcome(d) \in {"Approved", "Denied"} THEN 200 ELSE 409
      <4>1. /\ DispatchResolution(d)
            /\ devLast' = [status  |-> IF EngineOutcome(d) \in {"Approved", "Denied"} THEN 200 ELSE 409,
                           granted |-> Granted(req, d)]
        BY <1>4, <2>3, Zenon DEF HandleMutate
      <4> HIDE DEF d
      <4> QED BY <4>1
    <3> HIDE DEF d
    <3>2. DevShapes' /\ RowsAreLive'
      BY <3>1, <1>0, ResolutionKeeps
    <3>3. CASE EngineOutcome(d) # "Approved"
      <4>1. devLast'.granted = <<>>
        BY <3>1, <3>3 DEF Granted
      <4> QED BY <3>2, <4>1 DEF GrantWasDue
    <3>4. CASE EngineOutcome(d) = "Approved"
      <4>1. /\ devConf.chat /\ d.id \in DOMAIN devEngine
            /\ ~(devNow > devEngine[d.id].expires) /\ d.op = devEngine[d.id].op
        BY <3>4 DEF EngineOutcome
      <4>2. devNow <= devEngine[d.id].expires
        BY <4>1 DEF DevShapes
      <4>3. d.id \notin DOMAIN devEngine'
        BY <3>1, <3>4 DEF DispatchResolution, EngineAfter
      <4>4. devLast'.granted = <<[id |-> d.id, auth |-> req.auth, loopback |-> req.loopback, op |-> d.op,
                                  was |-> devEngine[d.id]]>>
        BY <3>1, <3>4 DEF Granted
      <4>5. devLast'.status = 200
        BY <3>1, <3>4
      <4> DEFINE g == devLast'.granted[1]
      <4>6. /\ g.auth = req.auth /\ g.loopback = req.loopback /\ g.op = d.op /\ g.id = d.id
            /\ g.was = devEngine[d.id]
        BY <4>4
      <4>7. /\ g.auth = "bearer-right" /\ g.loopback /\ devConf.mutation' /\ devConf.chat'
            /\ devNow' <= g.was.expires /\ g.op = g.was.op /\ g.id \notin DOMAIN devEngine'
        BY <4>1, <4>2, <4>3, <4>6, <2>1, <2>3, <1>0
      <4>8. GrantWasDue'
        BY <4>5, <4>7 DEF GrantWasDue
      <4> QED BY <3>2, <4>8
    <3> QED BY <3>2, <3>3, <3>4
  <2> QED BY <2>2, <2>3
<1> QED BY <1>2, <1>3, <1>4 DEF Handle

LEMMA DevStep == DevInv /\ [DevNext]_devVars => DevInv'
<1> SUFFICES ASSUME DevInv, [DevNext]_devVars PROVE DevInv'
  OBVIOUS
<1> USE DEF DevInv
<1>1. CASE UNCHANGED devVars
  BY <1>1 DEF devVars, DevShapes, GrantWasDue, RowsAreLive
<1>2. CASE \/ \E host \in {"loopback", "public"}, ack \in BOOLEAN : BindHost(host, ack)
           \/ EnableMutation \/ AllowChat \/ ServeDev
  <2>1. /\ ~devConf.up /\ UNCHANGED <<devEngine, devShown, devAsked, devNow, devLast>>
        /\ devConf' \in [host : {"loopback", "public"}, mutation : BOOLEAN, chat : BOOLEAN, off : BOOLEAN,
                         up : BOOLEAN]
    BY <1>2 DEF BindHost, EnableMutation, AllowChat, ServeDev, DevShapes
  <2> QED BY <2>1 DEF DevShapes, GrantWasDue, RowsAreLive, NoResponse
<1>3. ASSUME NEW id \in ApprovalIds, NEW op \in Operations, NEW ttl \in DevTtls, RequestApproval(id, op, ttl)
      PROVE  DevInv'
  BY <1>3, AskKeeps, DevAssumption
<1>4. CASE LogFrame \/ StreamTick
  <2>1. UNCHANGED <<devConf, devEngine, devShown, devAsked, devNow>> /\ devLast' = NoResponse
    BY <1>4 DEF LogFrame, StreamTick
  <2> QED BY <2>1 DEF DevShapes, GrantWasDue, RowsAreLive, NoResponse
<1>5. CASE DevTick
  <2>1. /\ UNCHANGED <<devConf, devEngine, devShown, devAsked>> /\ devLast' = NoResponse
        /\ devNow' = devNow + 1
    BY <1>5 DEF DevTick
  <2> QED BY <2>1 DEF DevShapes, GrantWasDue, RowsAreLive, NoResponse
<1>6. ASSUME NEW req \in DevRequests, OpenStream(req) PROVE DevInv'
  <2>1. /\ UNCHANGED <<devConf, devEngine, devShown, devAsked, devNow>> /\ devLast'.granted = <<>>
        /\ devConf.up
    BY <1>6, RespondGrants DEF OpenStream
  <2> QED BY <2>1 DEF DevShapes, GrantWasDue, RowsAreLive
<1> QED BY <1>1, <1>2, <1>3, <1>4, <1>5, <1>6, HandleKeeps DEF DevNext

(***************************************************************************)
(* For any requests, approvals and clock: a response grants an operation   *)
(* only when the request was authenticated and local, both switches are    *)
(* on, and the engine holds that approval, for that operation and within   *)
(* its time, which the answer uses up; and every row shown can still be    *)
(* answered, the newest of its id for what it shows (lib.rs handle,        *)
(* dispatch_resolution, ApprovalEngine::resolve).                          *)
(***************************************************************************)
THEOREM DevGrants == DevSpec => []DevGrantsWhatItShows
<1>1. DevInv => DevGrantsWhatItShows
  BY DEF DevInv, GrantWasDue, RowsAreLive, DevGrantsWhatItShows
<1> QED BY DevStart, DevStep, <1>1, PTL DEF DevSpec


-----------------------------------------------------------------------------
(* The conversation.                                                       *)

\* What is parked is what its approval was asked for.
ParkedIsAsked ==
  parkedTask # << >> =>
    \A p \in asked : p.id = parkedTask[1].id => p.op = parkedTask[1].prompt

\* The inductive invariant.
ConvInv == ConversationIsFaithful /\ ParkedIsAsked

\* An approval that is granted was pending for what the answer names.
LEMMA ResolveGrants ==
  ASSUME NEW id, NEW verb, NEW hash, Resolve(id, verb, hash) = "approve"
  PROVE  \E p \in PendingAt(id) :
            /\ p = (CHOOSE x \in PendingAt(id) : TRUE) /\ (hash = << >> \/ hash[1] = p.op)
<1>1. PendingAt(id) # {}
  BY DEF Resolve
<1> DEFINE p == CHOOSE x \in PendingAt(id) : TRUE
<1>2. p \in PendingAt(id)
  BY <1>1
<1> HIDE DEF p
<1>3. ASSUME hour > p.expires PROVE FALSE
  BY <1>1, <1>3 DEF Resolve, p
<1>4. ASSUME ~ (hour > p.expires), hash # << >>, hash[1] # p.op PROVE FALSE
  BY <1>1, <1>4 DEF Resolve, p
<1>5. hash = << >> \/ hash[1] = p.op
  BY <1>3, <1>4
<1> QED BY <1>2, <1>5 DEF p

\* An answer carries no hash or one.
LEMMA DecidesShape ==
  ASSUME NEW event, Decides(event) # << >>
  PROVE  Decides(event)[1].hash = << >> \/ \E h : Decides(event)[1].hash = <<h>>
BY DEF Decides

\* An answer to an approval launches only what it was asked for.
LEMMA DecisionKeeps ==
  ASSUME ConvInv, NEW event, event.chat \in Allowed, DispatchDecision(event)
  PROVE  ConvInv'
<1> DEFINE d == Decides(event)[1]
           how == Resolve(d.id, d.verb, d.hash)
           parks == parkedTask # << >> /\ parkedTask[1].id = d.id
           op == (CHOOSE p \in PendingAt(d.id) : TRUE).op
           l == [prompt |-> parkedTask[1].prompt, id |-> d.id, chat |-> event.chat, hash |-> d.hash,
                 op |-> op, named |-> d.id]
<1>1. /\ asked' = Consumed(d.id, how) /\ parkedTask' = IF parks THEN << >> ELSE parkedTask
      /\ launched' = launched \cup (IF parks /\ how = "approve" THEN {l} ELSE {})
      /\ outbound' = {event.chat} /\ turns' = turns
  BY Zenon DEF DispatchDecision
<1>2. d.hash = << >> \/ \E h : d.hash = <<h>>
  BY DecidesShape DEF DispatchDecision
<1>3. asked' \subseteq asked
  BY <1>1 DEF Consumed
<1>4. ASSUME parks, how = "approve" PROVE l.op = l.prompt /\ l.hash \in {<< >>, <<l.prompt>>}
  <2>1. PICK p \in PendingAt(d.id) : p.op = op /\ (d.hash = << >> \/ d.hash[1] = op)
    <3> HIDE DEF d
    <3>1. Resolve(d.id, d.verb, d.hash) = "approve"
      BY <1>4
    <3>2. \E x \in PendingAt(d.id) :
            x = (CHOOSE p \in PendingAt(d.id) : TRUE) /\ (d.hash = << >> \/ d.hash[1] = x.op)
      BY <3>1, ResolveGrants
    <3> QED BY <3>2
  <2>2. p \in asked /\ p.id = d.id
    BY <2>1 DEF PendingAt
  <2> HIDE DEF d, op
  <2>3. op = parkedTask[1].prompt
    BY <1>4, <2>1, <2>2, Zenon DEF ConvInv, ParkedIsAsked
  <2>4. d.hash = << >> \/ d.hash = <<op>>
    BY <1>2, <2>1
  <2> QED BY <2>3, <2>4
<1> HIDE DEF d, how, op, parks
<1>5. l.chat = event.chat /\ l.named = l.id
  OBVIOUS
<1> HIDE DEF l
<1>6. ApprovedIsWhatRuns'
  BY <1>1, <1>4, <1>5 DEF ConvInv, ConversationIsFaithful, ApprovedIsWhatRuns
<1>7. NothingIsLeftUnsaid'
  BY <1>1 DEF ConvInv, ConversationIsFaithful, NothingIsLeftUnsaid
<1>8. ParkedIsAsked'
  BY <1>1, <1>3 DEF ConvInv, ParkedIsAsked
<1> QED BY <1>6, <1>7, <1>8 DEF ConvInv, ConversationIsFaithful

\* A launch is parked with its approval.
LEMMA LaunchKeeps ==
  ASSUME ConvInv, NEW chat, NEW gist, HandleLaunch(chat, gist)
  PROVE  ParkedIsAsked' /\ outbound' = {chat}
<1>1. CASE parkedTask # << >>
  BY <1>1 DEF HandleLaunch, ConvInv, ParkedIsAsked
<1>2. CASE parkedTask = << >>
  <2> DEFINE new == [id |-> nextId, op |-> gist, expires |-> hour + Ttl]
             held == [prompt |-> gist, chat |-> chat, id |-> nextId]
  <2>1. /\ asked' = (asked \ PendingAt(nextId)) \cup {new} /\ parkedTask' = <<held>>
        /\ outbound' = {chat}
    BY <1>2, Zenon DEF HandleLaunch
  <2>2. new.id = nextId /\ new.op = gist /\ held.id = nextId /\ held.prompt = gist
    OBVIOUS
  <2> HIDE DEF new, held
  <2>3. parkedTask'[1] = held
    BY <2>1
  <2> QED BY <2>1, <2>2, <2>3 DEF ParkedIsAsked, PendingAt
<1> QED BY <1>1, <1>2

\* A turn is taken out of the queue by the dispatch that put it there.
LEMMA TurnKeeps ==
  ASSUME ConvInv, NEW event, event.chat \in Allowed, DispatchTurn(event)
  PROVE  ConvInv'
<1>1. turns = << >>
  BY DEF ConvInv, ConversationIsFaithful, NothingIsLeftUnsaid
<1>2. PICK reply \in Replies :
        LET kind == ParseInbound(event.is = "steer" \/ steerArmed, event.gist)
            queue == Admit(turns, kind, event.gist)
        IN  IF queue = << >>
            THEN outbound' = {} /\ UNCHANGED <<turns, asked, parkedTask, nextId, keyboards>>
            ELSE LET route == Classify(queue[1], reply)
                 IN  /\ turns' = Tail(queue)
                     /\ IF route = "converse"
                        THEN outbound' = {event.chat}
                             /\ UNCHANGED <<asked, parkedTask, nextId, keyboards>>
                        ELSE HandleLaunch(event.chat, queue[1])
  BY Zenon DEF DispatchTurn
<1> DEFINE kind == ParseInbound(event.is = "steer" \/ steerArmed, event.gist)
           queue == Admit(turns, kind, event.gist)
<1>3. queue = << >> \/ queue = <<event.gist>>
  BY <1>1 DEF Admit
<1> HIDE DEF queue
<1>4. turns' = << >>
  BY <1>1, <1>2, <1>3 DEF queue
<1>5. ParkedIsAsked' /\ outbound' \subseteq {event.chat}
  <2>1. CASE queue = << >>
    BY <1>2, <2>1 DEF queue, ConvInv, ParkedIsAsked
  <2>2. CASE queue # << >> /\ Classify(queue[1], reply) = "converse"
    BY <1>2, <2>2 DEF queue, ConvInv, ParkedIsAsked
  <2>3. CASE queue # << >> /\ Classify(queue[1], reply) # "converse"
    <3>1. HandleLaunch(event.chat, queue[1])
      BY <1>2, <2>3, Zenon DEF queue
    <3> QED BY <3>1, LaunchKeeps
  <2> QED BY <2>1, <2>2, <2>3
<1>6. launched' = launched
  BY DEF DispatchTurn
<1> QED BY <1>4, <1>5, <1>6 DEF ConvInv, ConversationIsFaithful, ApprovedIsWhatRuns, NothingIsLeftUnsaid

\* An update of a chat that is not allowed is no event.
LEMMA UpdateKeeps ==
  ASSUME ConvInv, NEW chat, NEW body, Update(chat, body)
  PROVE  ConvInv'
<1> DEFINE event == Normalize(chat, body)
<1>1. CASE event = NoEvent
  <2>1. outbound' = {} /\ UNCHANGED <<asked, parkedTask, turns, launched>>
    BY <1>1 DEF Update
  <2> QED BY <2>1 DEF ConvInv, ConversationIsFaithful, ApprovedIsWhatRuns, NothingIsLeftUnsaid, ParkedIsAsked
<1>2. CASE event # NoEvent
  <2>1. chat \in Allowed
    BY <1>2 DEF Normalize
  <2>2. event.chat = chat
    BY <1>2, <2>1 DEF Normalize, RouteCallback, RouteText
  <2>3. Dispatch(event)
    BY <1>2, Zenon DEF Update
  <2> HIDE DEF event
  <2>4. CASE DispatchDecision(event)
    BY <2>1, <2>2, <2>4, DecisionKeeps
  <2>5. CASE DispatchTurn(event)
    BY <2>1, <2>2, <2>5, TurnKeeps
  <2>6. CASE DispatchCommand(event) \/ DispatchSteerButton(event)
    <3>1. outbound' = {chat} /\ UNCHANGED <<asked, parkedTask, turns, launched>>
      BY <2>2, <2>6 DEF DispatchCommand, DispatchSteerButton
    <3> QED
      BY <2>1, <3>1 DEF ConvInv, ConversationIsFaithful, ApprovedIsWhatRuns, NothingIsLeftUnsaid, ParkedIsAsked
  <2> QED BY <2>3, <2>4, <2>5, <2>6 DEF Dispatch
<1> QED BY <1>1, <1>2

\* Every step keeps the invariant.
LEMMA ConvStep == ConvInv /\ [ConvNext]_convVars => ConvInv'
<1> SUFFICES ASSUME ConvInv, [ConvNext]_convVars PROVE ConvInv'
  OBVIOUS
<1>1. CASE ConvTick
  BY <1>1 DEF ConvTick, ConvInv, ConversationIsFaithful, ApprovedIsWhatRuns, NothingIsLeftUnsaid, ParkedIsAsked
<1>2. CASE ConvRestart
  BY <1>2 DEF ConvRestart, ConvInv, ConversationIsFaithful, ApprovedIsWhatRuns, NothingIsLeftUnsaid, ParkedIsAsked
<1>3. ASSUME NEW chat \in Chats, Says(chat) \/ Pushes(chat) PROVE ConvInv'
  <2>1. PICK body : Update(chat, body)
    BY <1>3, Zenon DEF Says, Pushes
  <2> QED BY <2>1, UpdateKeeps
<1>4. CASE UNCHANGED convVars
  BY <1>4 DEF convVars, ConvInv, ConversationIsFaithful, ApprovedIsWhatRuns, NothingIsLeftUnsaid, ParkedIsAsked
<1> QED BY <1>1, <1>2, <1>3, <1>4 DEF ConvNext

\* Whatever chats write and press, whatever the classifying model answers and
\* whatever is left of an earlier life: what runs is what was approved, from
\* an allowed chat, and no turn is left in the queue.
THEOREM ConversationsAreFaithful == ConvSpec => []ConversationIsFaithful
<1>1. ConvInit => ConvInv
  BY DEF ConvInit, ConvInv, ConversationIsFaithful, ApprovedIsWhatRuns, NothingIsLeftUnsaid, ParkedIsAsked
<1>2. ConvInv => ConversationIsFaithful
  BY DEF ConvInv
<1> QED BY <1>1, <1>2, ConvStep, PTL DEF ConvSpec

-----------------------------------------------------------------------------
(* Positions.                                                              *)

Precedes == {pair \in Nat \X Nat : pair[1] < pair[2]}

\* Every set of natural numbers has a least one.
LEMMA LeastNumber ==
  ASSUME NEW T \in SUBSET Nat, T # {}
  PROVE  \E x \in T : \A y \in T : x <= y
<1>1. IsWellFoundedOn(Precedes, Nat)
  BY NatLessThanWellFounded DEF OpToRel, Precedes
<1>2. T \subseteq Nat
  OBVIOUS
<1>3. PICK x \in T : \A y \in T : <<y, x>> \notin Precedes
  BY <1>1, <1>2, WFMin
<1>4. ASSUME NEW y \in T PROVE x <= y
  <2>1. y \in Nat /\ x \in Nat
    BY <1>2
  <2>2. y < x => <<y, x>> \in Precedes
    BY <2>1 DEF Precedes
  <2> QED BY <2>1, <2>2, <1>3
<1> QED BY <1>4

\* A set of n positions has a first, a second and an n-th one.
LEMMA NthExists ==
  ASSUME NEW L \in Nat, NEW S \in SUBSET (1 .. L), NEW n \in 1 .. Cardinality(S)
  PROVE  NthOf(S, n) \in S
<1> DEFINE UpTo(i) == {j \in S : j <= i}
           Q == {i \in Nat : Cardinality(UpTo(i)) >= n}
<1>0. \A j \in S : j \in Nat /\ j >= 1 /\ j <= L
  OBVIOUS
<1>1. \A i \in Nat : UpTo(i) \subseteq 1 .. L
  OBVIOUS
<1>2. \A i \in Nat : IsFiniteSet(UpTo(i)) /\ Cardinality(UpTo(i)) \in Nat
  <2>1. IsFiniteSet(1 .. L)
    BY FS_Interval
  <2> QED BY <1>1, <2>1, FS_Subset, FS_CardinalityType
<1>3. UpTo(L) = S
  BY <1>0
<1>4. n \in Nat /\ n >= 1 /\ n <= Cardinality(S)
  BY <1>2, <1>3
<1>5. L \in Q
  BY <1>2, <1>3, <1>4
<1>6. PICK i \in Q : \A y \in Q : i <= y
  BY <1>5, LeastNumber
<1>7. UpTo(0) = {} /\ Cardinality({}) = 0
  <2>1. \A j \in S : ~ (j <= 0)
    BY <1>0
  <2> QED BY <2>1, FS_EmptySet
<1>8. i \in Nat /\ i # 0 /\ Cardinality(UpTo(i)) >= n
  BY <1>4, <1>6, <1>7
<1>9. i - 1 \in Nat /\ i - 1 \notin Q
  <2> HIDE DEF Q
  <2>1. i - 1 \in Nat /\ ~ (i <= i - 1)
    BY <1>8
  <2> QED BY <1>6, <2>1
<1>10. ~ (Cardinality(UpTo(i - 1)) >= n)
  BY <1>9
<1>11. i \in S
  <2>0. \A j \in S : j # i => (j <= i <=> j <= i - 1)
    BY <1>0, <1>8
  <2>1. i \notin S => UpTo(i) = UpTo(i - 1)
    BY <2>0
  <2> QED BY <2>1, <1>8, <1>10
<1>12. UpTo(i) = UpTo(i - 1) \cup {i} /\ i \notin UpTo(i - 1)
  <2>1. \A j \in S : j # i => (j <= i <=> j <= i - 1)
    BY <1>0, <1>8
  <2>2. i <= i /\ ~ (i <= i - 1)
    BY <1>8
  <2> QED BY <1>11, <2>1, <2>2
<1> HIDE DEF UpTo
<1>13. Cardinality(UpTo(i)) = Cardinality(UpTo(i - 1)) + 1
  BY <1>2, <1>9, <1>12, FS_AddElement
<1>14. Cardinality(UpTo(i)) = n
  BY <1>2, <1>4, <1>8, <1>9, <1>10, <1>13
<1>15. \E k \in S : Cardinality({j \in S : j <= k}) = n
  BY <1>11, <1>14 DEF UpTo
<1> QED BY <1>15 DEF NthOf

-----------------------------------------------------------------------------
(* MCP.                                                                    *)

\* What is left of an output holds no part of a secret.
LEMMA RedactedIsClean ==
  ASSUME NEW out \in Outputs
  PROVE  /\ RedactOutput(out) \in Seq({"t", "redacted"})
<1> DEFINE kept == {i \in 1 .. Len(out) : ~ SecretAt(out, i - 1)}
           N == Cardinality(kept)
           clean == RedactOutput(out)
<1>1. /\ out \in Seq({"t", "s1", "s2"}) /\ Len(out) \in Nat
      /\ \A i \in 1 .. Len(out) : /\ out[i] \in {"t", "s1", "s2"}
                                  /\ out[i] = "s1" => i < Len(out) /\ out[i + 1] = "s2"
                                  /\ out[i] = "s2" => i > 1 /\ out[i - 1] = "s1"
  <2>1. /\ out \in Seq({"t", "s1", "s2"})
        /\ \A i \in 1 .. Len(out) : /\ out[i] = "s1" => i < Len(out) /\ out[i + 1] = "s2"
                                    /\ out[i] = "s2" => i > 1 /\ out[i - 1] = "s1"
    BY McpAssumption
  <2>2. Len(out) \in Nat /\ \A i \in 1 .. Len(out) : out[i] \in {"t", "s1", "s2"}
    BY <2>1, LenProperties, ElementOfSeq
  <2> QED BY <2>1, <2>2
<1>2. kept \in SUBSET (1 .. Len(out)) /\ N \in Nat
  <2>1. IsFiniteSet(1 .. Len(out))
    BY <1>1, FS_Interval
  <2>2. kept \in SUBSET (1 .. Len(out))
    OBVIOUS
  <2> HIDE DEF kept
  <2> QED BY <2>1, <2>2, FS_Subset, FS_CardinalityType
<1>3. clean = [n \in 1 .. N |-> IF SecretAt(out, NthOf(kept, n)) THEN "redacted" ELSE out[NthOf(kept, n)]]
  BY Zenon DEF RedactOutput
<1>4. ASSUME NEW n \in 1 .. N
      PROVE  (IF SecretAt(out, NthOf(kept, n)) THEN "redacted" ELSE out[NthOf(kept, n)]) \in {"t", "redacted"}
  <2> DEFINE i == NthOf(kept, n)
  <2>1. i \in kept
    BY <1>1, <1>2, NthExists
  <2> HIDE DEF i
  <2>2. i \in 1 .. Len(out) /\ ~ SecretAt(out, i - 1)
    BY <2>1
  <2>3. out[i] = "s1" => SecretAt(out, i)
    BY <1>1, <2>2 DEF SecretAt
  <2>4. out[i] = "s2" => SecretAt(out, i - 1)
    BY <1>1, <2>2 DEF SecretAt
  <2> QED BY <1>1, <2>2, <2>3, <2>4 DEF i
<1> HIDE DEF kept, N
<1> QED BY <1>2, <1>3, <1>4

\* What the model is shown.
LEMMA VisibleIsClean ==
  ASSUME NEW out \in Outputs
  PROVE  Range(ModelVisible(out)) \cap {"s1", "s2"} = {} /\ Len(ModelVisible(out)) <= SummaryMax
<1> DEFINE clean == RedactOutput(out)
           n == IF Len(clean) > SummaryMax THEN SummaryMax ELSE Len(clean)
           cut == SubSeq(clean, 1, n)
<1>1. clean \in Seq({"t", "redacted"}) /\ Len(clean) \in Nat /\ SummaryMax \in Nat
  BY RedactedIsClean, McpAssumption, LenProperties
<1>2. ModelVisible(out) = cut
  BY Zenon DEF ModelVisible, Bounded
<1> HIDE DEF clean
<1>3. n \in Nat /\ n <= Len(clean) /\ n <= SummaryMax
  BY <1>1
<1> HIDE DEF n
<1>4. /\ cut \in Seq({"t", "redacted"}) /\ Len(cut) = n
  BY <1>1, <1>3, SubSeqProperties
<1> HIDE DEF cut
<1>5. \A i \in DOMAIN cut : cut[i] \in {"t", "redacted"}
  BY <1>4, LenProperties, ElementOfSeq
<1> QED BY <1>2, <1>3, <1>4, <1>5 DEF Range

\* A server is registered once.
ServersAreOne ==
  /\ mcpServers \subseteq McpRecords
  /\ \A a, b \in mcpServers : a.id = b.id => a = b
\* A tool is exposed with one of the policy's decisions.
ExposedAsDecided == \A t \in DOMAIN mcpExposed : mcpExposed[t] \in {"allow", "ask", "deny"}

\* The inductive invariant.
McpInv == McpIsGuarded /\ ServersAreOne /\ ExposedAsDecided

\* What the gateway lets pass was in the record's lists.
LEMMA GatewayAdmits ==
  ASSUME ServersAreOne, NEW call, NEW live, GatewayCheck(call, live) = "allow"
  PROVE  LET r == CHOOSE x \in mcpServers : x.id = call.server
         IN  /\ r \in mcpServers /\ call.repo \in r.repos /\ ToolDecision(r.policies, call.tool) = "allow"
             /\ r.pin # << >> /\ live # << >> => r.pin[1] = ManifestHash(live[1])
<1> DEFINE found == {x \in mcpServers : x.id = call.server}
           r == CHOOSE x \in mcpServers : x.id = call.server
           q == CHOOSE x \in found : TRUE
<1>1. found # {}
  BY DEF GatewayCheck
<1>2. q \in mcpServers /\ q.id = call.server
  BY <1>1
<1>3. r \in mcpServers /\ r.id = call.server
  BY <1>2
<1>4. r = q
  BY <1>2, <1>3 DEF ServersAreOne
<1> DEFINE tool == ToolDecision(q.policies, call.tool)
           drift == r.pin # << >> /\ live # << >> /\ r.pin[1] # ManifestHash(live[1])
<1>5. (CASE q.pin # << >> /\ live # << >> /\ q.pin[1] # ManifestHash(live[1]) -> "ManifestDrift"
         [] call.repo \notin q.repos -> "RepoNotAllowed"
         [] tool = "none" -> "ToolNotAllowed"
         [] OTHER -> tool) = "allow"
  BY <1>1, Zenon DEF GatewayCheck
<1> HIDE DEF r, q, tool
<1>6. ~ (q.pin # << >> /\ live # << >> /\ q.pin[1] # ManifestHash(live[1]))
      /\ call.repo \in q.repos /\ tool = "allow"
  BY <1>5
<1>7. ToolDecision(r.policies, call.tool) = "allow"
  BY <1>4, <1>6 DEF tool
<1> QED BY <1>3, <1>4, <1>6, <1>7 DEF r

\* A request that did not leave.
LEMMA NotSentIsGuarded ==
  ASSUME NEW of, NEW became, NEW shown, NEW receipt,
         mcpCall' = NotSent(of, became, shown, receipt),
         Range(shown) \cap {"s1", "s2"} = {}, Len(shown) <= SummaryMax,
         became \in {"Done", "Served"} => receipt[1].result = shown
  PROVE  McpIsGuarded'
<1>1. mcpCall'.record = << >> /\ mcpCall'.outcome = became /\ mcpCall'.shown = shown /\ mcpCall'.receipt = receipt
  BY DEF NotSent
<1> QED BY <1>1 DEF McpIsGuarded, McpCallsAreGated, McpShowsNoSecret

\* Nothing is shown.
LEMMA NothingIsClean == Range(<< >>) \cap {"s1", "s2"} = {} /\ Len(<< >>) <= SummaryMax
BY McpAssumption DEF Range

\* A call of a tool of another server.
LEMMA CallKeeps ==
  ASSUME McpInv, NEW call, NEW live, NEW unlocked \in BOOLEAN, NEW reply, NEW out \in Outputs,
         CallTool(call, live, unlocked, reply, out)
  PROVE  McpIsGuarded'
<1> DEFINE decision == GatewayCheck(call, live)
           r == CHOOSE x \in mcpServers : x.id = call.server
           token == ResolveAuth(r, unlocked)
           refused == CASE decision = "ask" -> "NeedsApproval"
                        [] decision # "allow" -> "Denied"
                        [] token = "unavailable" -> "CredentialUnavailable"
                        [] OTHER -> "none"
           read == ReadFramed(mcpPipe \o Written(mcpNextId, reply, << >>), mcpInStep)
           became == ParseRpcResult(IF r.http THEN HttpResponse(reply) ELSE read.kind)
           seen == IF became = "Done" THEN ModelVisible(out) ELSE << >>
           proof == IF became = "Done" THEN Receipt(call.tool, out) ELSE << >>
           reached == IF became # "Done" THEN 0 ELSE IF r.http THEN mcpNextId ELSE read.id
           kept == [of |-> <<call>>, record |-> <<r>>, listed |-> live,
                    auth |-> IF r.http THEN token ELSE "none", id |-> mcpNextId, outcome |-> became,
                    shown |-> seen, receipt |-> proof, answers |-> reached]
<1>1. \/ refused # "none" /\ mcpCall' = NotSent(<<call>>, refused, << >>, << >>)
      \/ refused = "none" /\ mcpCall' = kept
  BY Zenon DEF CallTool
<1>2. refused \in {"NeedsApproval", "Denied", "CredentialUnavailable", "none"}
  OBVIOUS
<1>3. refused = "none" => decision = "allow" /\ token # "unavailable"
  OBVIOUS
<1>4. became \in {"Rpc", "Done", "Transport", "BadResponse"}
  BY DEF ParseRpcResult
<1> HIDE DEF refused
<1>5. CASE refused # "none"
  BY <1>1, <1>2, <1>5, NotSentIsGuarded, NothingIsClean
<1>6. CASE refused = "none"
  <2>1. /\ r \in mcpServers /\ call.repo \in r.repos /\ ToolDecision(r.policies, call.tool) = "allow"
        /\ r.pin # << >> /\ live # << >> => r.pin[1] = ManifestHash(live[1])
    BY <1>3, <1>6, GatewayAdmits DEF McpInv
  <2> HIDE DEF r, became, read
  <2>2. r.secret \in BOOLEAN /\ r.http \in BOOLEAN
    BY <2>1, McpAssumption DEF McpInv, ServersAreOne
  <2>3. token = "bearer" <=> r.secret
    BY <1>3, <1>6, <2>2 DEF ResolveAuth
  <2> HIDE DEF token
  <2>4. /\ Range(seen) \cap {"s1", "s2"} = {} /\ Len(seen) <= SummaryMax
    BY NothingIsClean, VisibleIsClean
  <2>5. became \in {"Done", "Served"} => proof[1].result = seen
    BY <1>4 DEF Receipt
  <2>6. GenerateStubs(r, <<call.tool>>) = {call.tool}
    BY <2>1 DEF GenerateStubs, Range
  <2> HIDE DEF seen, proof, reached
  <2>7. /\ mcpCall'.record = <<r>> /\ mcpCall'.of = <<call>> /\ mcpCall'.listed = live
        /\ mcpCall'.auth = (IF r.http THEN token ELSE "none") /\ mcpCall'.outcome = became
        /\ mcpCall'.shown = seen /\ mcpCall'.receipt = proof
    BY <1>1, <1>6
  <2>8. mcpCall'.record[1] = r /\ mcpCall'.of[1] = call
    BY <2>7
  <2>9. McpShowsNoSecret'
    BY <2>4, <2>5, <2>7 DEF McpShowsNoSecret
  <2>10. McpCallsAreGated'
    BY <2>1, <2>3, <2>6, <2>7, <2>8 DEF McpCallsAreGated
  <2> QED BY <2>9, <2>10 DEF McpIsGuarded
<1> QED BY <1>5, <1>6

\* A request to the server.
LEMMA RequestKeeps ==
  ASSUME McpInv, NEW method, NEW tool, NEW fails \in BOOLEAN, NEW out \in Outputs,
         HandleRequest(method, tool, fails, out)
  PROVE  McpIsGuarded'
<1>1. CASE HandleCall(tool, fails, out)
  <2> DEFINE ran == Decision(tool) = "allow"
             said == CASE tool = "" -> "NOT_EXPOSED"
                         [] Decision(tool) = "none" -> "NOT_EXPOSED"
                         [] Decision(tool) = "deny" -> "DENIED"
                         [] Decision(tool) = "ask" -> "NEEDS_APPROVAL"
                         [] fails -> "FAILED"
                         [] OTHER -> "Served"
             seen == IF ran THEN ModelVisible(out) ELSE << >>
             proof == IF said = "Served" THEN Receipt(tool, out) ELSE << >>
  <2>1. mcpCall' = NotSent(<< >>, said, seen, proof)
    BY <1>1, Zenon DEF HandleCall
  <2>2. Range(seen) \cap {"s1", "s2"} = {} /\ Len(seen) <= SummaryMax
    BY NothingIsClean, VisibleIsClean
  <2>3. said \in {"Done", "Served"} => proof[1].result = seen
    <3>1. said # "Done"
      OBVIOUS
    <3>2. said = "Served" => ran
      <4>1. Decision(tool) \in {"none", "allow", "ask", "deny"}
        BY DEF McpInv, ExposedAsDecided, Decision
      <4> QED BY <4>1
    <3> HIDE DEF said, ran
    <3> QED BY <3>1, <3>2 DEF Receipt
  <2> HIDE DEF said, seen, proof
  <2> QED BY <2>1, <2>2, <2>3, NotSentIsGuarded
<1>2. CASE ~ HandleCall(tool, fails, out)
  <2>1. \E o \in {"METHOD_NOT_FOUND", "Listed"} : mcpCall' = NotSent(<< >>, o, << >>, << >>)
    BY <1>2 DEF HandleRequest
  <2> QED BY <2>1, NotSentIsGuarded, NothingIsClean
<1> QED BY <1>1, <1>2

\* Every step keeps the invariant.
LEMMA McpStep == McpInv /\ [McpClientNext \/ McpServerNext]_mcpVars => McpInv'
<1> SUFFICES ASSUME McpInv, [McpClientNext \/ McpServerNext]_mcpVars PROVE McpInv'
  OBVIOUS
<1>1. ASSUME NEW record \in McpRecords, Register(record) PROVE McpInv'
  <2>1. ServersAreOne'
    BY <1>1 DEF Register, McpInv, ServersAreOne
  <2>2. mcpCall' = mcpCall /\ mcpExposed' = mcpExposed
    BY <1>1 DEF Register
  <2> QED BY <2>1, <2>2 DEF McpInv, ExposedAsDecided, McpIsGuarded, McpCallsAreGated, McpShowsNoSecret
<1>2. ASSUME UNCHANGED <<mcpServers, mcpCall, mcpExposed>> PROVE McpInv'
  BY <1>2 DEF McpInv, ExposedAsDecided, ServersAreOne, McpIsGuarded, McpCallsAreGated, McpShowsNoSecret
<1>3. ASSUME NEW call \in McpCalls, NEW live, NEW unlocked \in BOOLEAN, NEW reply \in McpReplies, NEW out \in Outputs,
             CallTool(call, live, unlocked, reply, out)
      PROVE  McpInv'
  <2>1. mcpServers' = mcpServers /\ mcpExposed' = mcpExposed
    BY <1>3 DEF CallTool
  <2> QED BY <1>3, <2>1, CallKeeps DEF McpInv, ServersAreOne, ExposedAsDecided
<1>4. ASSUME NEW method, NEW tool, NEW fails \in BOOLEAN, NEW out \in Outputs,
             HandleRequest(method, tool, fails, out)
      PROVE  McpInv'
  <2>1. mcpServers' = mcpServers /\ mcpExposed' = mcpExposed
    BY <1>4 DEF HandleRequest
  <2> QED BY <1>4, <2>1, RequestKeeps DEF McpInv, ServersAreOne, ExposedAsDecided
<1>5. ASSUME NEW http \in BOOLEAN, NEW names \in Listings, NEW reply \in McpReplies, ListTools(http, names, reply)
      PROVE  McpInv'
  BY <1>2, <1>5 DEF ListTools
<1>6. ASSUME NEW tool, NEW d \in {"allow", "ask", "deny"}, Expose(tool, d) PROVE McpInv'
  <2>1. ExposedAsDecided'
    BY <1>6 DEF Expose, McpInv, ExposedAsDecided
  <2>2. mcpServers' = mcpServers /\ mcpCall' = mcpCall
    BY <1>6 DEF Expose
  <2> QED BY <2>1, <2>2 DEF McpInv, ServersAreOne, McpIsGuarded, McpCallsAreGated, McpShowsNoSecret
<1>7. CASE UNCHANGED mcpVars
  BY <1>2, <1>7 DEF mcpVars
<1>8. CASE McpClientNext
  BY <1>1, <1>3, <1>5, <1>8 DEF McpClientNext
<1>9. CASE McpServerNext
  BY <1>4, <1>6, <1>9 DEF McpServerNext
<1> QED BY <1>7, <1>8, <1>9

\* For any records, calls, listings, answers and outputs: a request leaves
\* only past the gateway, with the credential its record asks for, and what
\* the model is shown of an output holds no part of a secret.
THEOREM McpGuarded == McpSpec => []McpIsGuarded
<1>1. McpInit => McpInv
  <2> SUFFICES ASSUME McpInit PROVE McpInv
    OBVIOUS
  <2>1. mcpServers = {} /\ mcpCall = NotSent(<< >>, "none", << >>, << >>) /\ mcpExposed = << >>
    BY DEF McpInit
  <2>2. mcpCall.record = << >> /\ mcpCall.outcome = "none" /\ mcpCall.shown = << >>
    BY <2>1 DEF NotSent
  <2> QED
    BY <2>1, <2>2, NothingIsClean
    DEF McpInv, ServersAreOne, ExposedAsDecided, McpIsGuarded, McpCallsAreGated, McpShowsNoSecret
<1>2. McpInv => McpIsGuarded
  BY DEF McpInv
<1> QED BY <1>1, <1>2, McpStep, PTL DEF McpSpec
=============================================================================
