------------------------------- MODULE Poller -------------------------------
(***************************************************************************)
(* The Telegram long-poll loop of the daemon                               *)
(* (crates/crustcore-daemon/src/telegram.rs: Deduper, TelegramPoller,      *)
(* driven by run_serve_loop of runtime.rs), against the Bot API's update   *)
(* queue.                                                                  *)
(*                                                                         *)
(* Updates are numbered 1, 2, ... in the order they reach Telegram.  A     *)
(* getUpdates call with an offset tells Telegram that the updates below it *)
(* are done with; it forgets them and answers with the next ones.          *)
(***************************************************************************)
EXTENDS Integers, FiniteSetsExt, SequencesExt

CONSTANTS
  MaxUpdates,   \* bound on the updates
  Dropped,      \* updates normalize rejects: a stray chat, an empty text
  BatchLimit,   \* UPDATE_BATCH_LIMIT
  DedupeWindow, \* DEDUPE_WINDOW
  MaxRestarts   \* bound on the restarts

ASSUME PollAssumption ==
  /\ MaxUpdates \in Nat /\ BatchLimit \in Nat /\ DedupeWindow \in Nat /\ MaxRestarts \in Nat

VARIABLES
  inOrder,     \* whether Telegram only ever answers with the next updates
  sent,        \* number of updates that reached Telegram
  confirmed,   \* updates below it are forgotten by Telegram
  offset,      \* the poller's next offset
  window,      \* Deduper.window, whose elements are Deduper.seen
  floor,       \* Deduper.floor; 0 stands for i64::MIN
  answer,      \* updates of the last answer that poll_routed has yet to look at
  events,      \* updates polled and not yet dispatched
  dispatched,  \* history: updates dispatched since the last start
  earlier,     \* history: updates dispatched before the last start
  restarts

poller == <<offset, window, floor, answer, events>>
pollVars == <<inOrder, sent, confirmed, poller, dispatched, earlier, restarts>>

-----------------------------------------------------------------------------
(* Deduper.                                                                *)

IsNew(id) == id \notin Range(window) /\ id > floor

\* Bug: the floor follows the order of arrival.
RecordByArrival(id) ==
  LET w == Append(window, id)
  IN  IF Len(w) <= DedupeWindow THEN window' = w /\ UNCHANGED floor
      ELSE window' = Tail(w) /\ floor' = Head(w)

\* Remember an accepted id; the one evicted raises the floor.
Record(id) ==
  LET w == Append(window, id)
  IN  IF Len(w) <= DedupeWindow THEN window' = w /\ UNCHANGED floor
      ELSE window' = Tail(w) /\ floor' = Max({floor, Head(w)})

-----------------------------------------------------------------------------
(* One poll: the call, then the updates it answered with, one by one.      *)

\* What getUpdates may answer: the next updates, or, when Telegram redelivers,
\* any of those it had.
NextUpdates(from) ==
  {[i \in 1 .. n |-> from + i - 1] : n \in 0 .. Min({BatchLimit, sent - from + 1})}

Batches(from) ==
  IF inOrder THEN NextUpdates(Max({from, 1}))
  ELSE UNION {[1 .. n -> 1 .. sent] : n \in 0 .. BatchLimit}

Arrive ==
  /\ sent < MaxUpdates /\ sent' = sent + 1
  /\ UNCHANGED <<inOrder, confirmed, poller, dispatched, earlier, restarts>>

\* Bug: the batch is acknowledged before it is dispatched.
PollAcknowledging(batch) ==
  /\ answer = << >> /\ events = << >>
  /\ confirmed' = Max({confirmed, offset} \union {id + 1 : id \in Range(batch)})
  /\ answer' = batch
  /\ UNCHANGED <<inOrder, sent, offset, window, floor, events, dispatched, earlier, restarts>>

\* The previous batch has been dispatched; its end is this call's offset.
Poll(batch) ==
  /\ answer = << >> /\ events = << >>
  /\ confirmed' = Max({confirmed, offset})
  /\ answer' = batch
  /\ UNCHANGED <<inOrder, sent, offset, window, floor, events, dispatched, earlier, restarts>>

\* Bug: an update that is rejected is not acknowledged.
TakeUpdateUnlessRejected ==
  /\ answer # << >> /\ answer' = Tail(answer)
  /\ LET id == Head(answer)
     IN  IF id \in Dropped THEN UNCHANGED <<offset, window, floor, events>>
         ELSE /\ offset' = Max({offset, id + 1})
              /\ IF IsNew(id) THEN Record(id) /\ events' = Append(events, id)
                              ELSE UNCHANGED <<window, floor, events>>
  /\ UNCHANGED <<inOrder, sent, confirmed, dispatched, earlier, restarts>>

\* poll_routed's loop: an update is acknowledged whatever becomes of it.
TakeUpdate ==
  /\ answer # << >> /\ answer' = Tail(answer)
  /\ LET id == Head(answer)
     IN  /\ offset' = Max({offset, id + 1})
         /\ IF IsNew(id)
              THEN /\ Record(id)
                   /\ events' = IF id \in Dropped THEN events ELSE Append(events, id)
              ELSE UNCHANGED <<window, floor, events>>
  /\ UNCHANGED <<inOrder, sent, confirmed, dispatched, earlier, restarts>>

\* The answer is lost: the error is logged and the call repeated.
PollError ==
  /\ answer = << >> /\ events = << >>
  /\ confirmed' = Max({confirmed, offset})
  /\ UNCHANGED <<inOrder, sent, poller, dispatched, earlier, restarts>>

DispatchUpdate ==
  /\ answer = << >> /\ events # << >>
  /\ dispatched' = Append(dispatched, Head(events))
  /\ events' = Tail(events)
  /\ UNCHANGED <<inOrder, sent, confirmed, offset, window, floor, answer, earlier, restarts>>

\* The process ends, at any point of a batch; nothing of the poller is kept.
Restart ==
  /\ restarts < MaxRestarts /\ restarts' = restarts + 1
  /\ offset' = 0 /\ window' = << >> /\ floor' = 0 /\ answer' = << >> /\ events' = << >>
  /\ dispatched' = << >>
  /\ earlier' = earlier \union Range(dispatched)
  /\ UNCHANGED <<inOrder, sent, confirmed>>

PollInit ==
  /\ inOrder \in BOOLEAN
  /\ sent = 0 /\ confirmed = 0
  /\ offset = 0 /\ window = << >> /\ floor = 0 /\ answer = << >> /\ events = << >>
  /\ dispatched = << >> /\ earlier = {} /\ restarts = 0

PollNext ==
  \/ Arrive
  \/ \E batch \in Batches(Max({offset, confirmed})) : Poll(batch)
  \/ TakeUpdate
  \/ PollError
  \/ DispatchUpdate
  \/ Restart

PollSpec == PollInit /\ [][PollNext]_pollVars

\* The loop goes on, and not every poll fails or comes back short forever.
PollFairSpec ==
  /\ PollSpec
  /\ WF_pollVars(TakeUpdate) /\ WF_pollVars(DispatchUpdate)
  /\ WF_pollVars(\E batch \in Batches(Max({offset, confirmed})) \ {<< >>} : Poll(batch))

-----------------------------------------------------------------------------
(* Properties.                                                             *)

\* "A replay must not double-apply": between two starts no update is dispatched
\* twice, whatever Telegram redelivers, in whatever order, also after the
\* window has forgotten it.
DispatchedOnce ==
  \A i, j \in 1 .. Len(dispatched) : dispatched[i] = dispatched[j] => i = j

\* A Telegram that answers in order forgets an update only when the daemon has
\* dispatched it: a crash in the middle of a batch loses no operator's message.
ForgottenIsDispatched ==
  inOrder => \A id \in 1 .. sent :
    id < confirmed => id \in Dropped \union earlier \union Range(dispatched)

\* Every update an operator sends to such a Telegram is dispatched in the end,
\* through lost answers, short batches and restarts.
EveryUpdateDispatched ==
  \A id \in 1 .. MaxUpdates \ Dropped :
    inOrder /\ id <= sent ~> id \in earlier \union Range(dispatched)

\* No update is dispatched twice by one process, and none is forgotten before it
\* is dispatched (TelegramPoller::poll_routed, Deduper).
PollerLosesNothing == DispatchedOnce /\ ForgottenIsDispatched

=============================================================================
