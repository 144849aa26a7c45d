---------------------------- MODULE Conversation ----------------------------
(***************************************************************************)
(* What an operator says and what comes of it: the normalising of Telegram *)
(* updates and Slack messages, commands, approval buttons, the chat        *)
(* session with its routes, and dispatch_event (daemon: telegram.rs,       *)
(* slack.rs, chat.rs, runtime.rs; crustcore-chat; crustcore-net's          *)
(* telegram.rs). The daemon opens draft pull requests, so that a launch    *)
(* asks first. A text is a record of what the code tells apart in it; the  *)
(* callback text of a button is its four fields, the last with its length. *)
(***************************************************************************)
EXTENDS Integers, Sequences, FiniteSets, SequencesExt, FiniteSetsExt

CONSTANTS
  Chats,        \* chats that write to the bot
  Allowed,      \* the ones the operator allowed
  Texts,        \* [lead, verb, arg, gist]
  Replies,      \* what the classifying model may answer: sequences of words
  HashLen,      \* characters of an operation's hash
  FieldMax,     \* INLINE_KEYBOARD_MAX_FIELD_BYTES
  QueueMax,     \* MAX_QUEUE_DEPTH
  Ttl,          \* PR_APPROVAL_TTL_MS
  MaxTime,      \* bound on the clock
  MaxIds        \* bound on approvals asked for

VARIABLES
  hour,        \* the loop's clock
  asked,       \* ApprovalEngine.pending: [id, op, expires] by id
  parkedTask,  \* <<>> or <<[prompt, chat, id]>>
  nextId,
  keyboards,   \* approval buttons in the chats, as they were sent
  steerArmed,
  turns,       \* TurnQueue
  outbound,    \* chats the last dispatch wrote to
  launched     \* history: prompts launched, with what approved them

convVars == <<hour, asked, parkedTask, nextId, keyboards, steerArmed, turns,
              outbound, launched>>

ConvInit ==
  /\ hour = 0 /\ asked = {} /\ parkedTask = <<>> /\ nextId = 1 /\ keyboards = {}
  /\ steerArmed = FALSE /\ turns = <<>>
  /\ outbound = {} /\ launched = {}

(***************************************************************************)
(* Buttons on the wire.                                                    *)
(***************************************************************************)
VerbLen(verb) == IF verb = "approve" THEN 7 ELSE 4
CallbackText(id, verb, op) == [tag |-> "ap", id |-> id, verb |-> verb, hash |-> op, len |-> HashLen]
TextLen(cb) == 3 + 1 + 1 + VerbLen(cb.verb) + 1 + cb.len
(* truncate_field: the end is cut off, which is the end of the hash. *)
TruncateField(cb) ==
  IF TextLen(cb) <= FieldMax THEN cb ELSE [cb EXCEPT !.len = @ - (TextLen(cb) - FieldMax)]
ApprovalKeyboard(id, op) == {CallbackText(id, v, op) : v \in {"approve", "deny"}}
ParseCallback(cb) == cb.tag = "ap" /\ cb.verb \in {"approve", "deny"} /\ cb.len = HashLen

(***************************************************************************)
(* normalize and route: an update becomes at most one event.               *)
(***************************************************************************)
NeedId == {"/task", "/approve", "/deny", "/pause", "/resume", "/cancel", "/kill", "/diff", "/logs"}
NoId == {"/status", "/tasks", "/budget", "/policy", "/repo", "/help"}
ParseCommand(text) ==
  CASE text.verb \in NoId -> [verb |-> text.verb, id |-> 0]
    [] text.verb \in NeedId /\ text.arg # <<>> -> [verb |-> text.verb, id |-> text.arg[1]]
    [] OTHER -> [verb |-> "unknown", id |-> 0]

NoEvent == [is |-> "none"]
RouteText(chat, text) ==
  CASE text.lead = "empty" -> NoEvent
    [] text.lead = "bang" -> [is |-> "steer", chat |-> chat, gist |-> text.gist]
    [] text.lead = "slash" -> [is |-> "command", chat |-> chat, cmd |-> ParseCommand(text)]
    [] OTHER -> [is |-> "turn", chat |-> chat, gist |-> text.gist]
RouteCallback(chat, cb) ==
  IF cb.tag = "steer" THEN [is |-> "steerButton", chat |-> chat]
  ELSE IF ParseCallback(cb) THEN [is |-> "callback", chat |-> chat, cb |-> cb] ELSE NoEvent
Normalize(chat, body) ==
  IF chat \notin Allowed THEN NoEvent
  ELSE IF body.is = "press" THEN RouteCallback(chat, body.cb) ELSE RouteText(chat, body.text)

(***************************************************************************)
(* crustcore-chat: a turn is queued, taken, classified and answered.       *)
(***************************************************************************)
Routes == {"quickfix", "feature", "project", "converse", "continue"}
(* Tokens with their aliases; anything else is no route. *)
FromToken(w) ==
  CASE w \in {"quickfix", "fix"} -> <<"quickfix">> [] w \in {"feature", "supervise"} -> <<"feature">>
    [] w = "project" -> <<"project">> [] w \in {"converse", "chat"} -> <<"converse">>
    [] w \in {"continue", "resume"} -> <<"continue">> [] OTHER -> <<>>
HeuristicRoute(gist) ==
  CASE gist.words = 0 -> "converse"
    [] gist.continues -> "continue"
    [] gist.scratch -> "project"
    [] gist.question /\ gist.hits < 2 -> "converse"
    [] gist.words >= 40 \/ gist.hits >= 8 -> "feature"
    [] OTHER -> "quickfix"
Classify(gist, reply) ==
  LET known == SelectSeq(reply, LAMBDA w : FromToken(w) # <<>>)
  IN  IF known = <<>> THEN HeuristicRoute(gist) ELSE FromToken(known[1])[1]

(* Inbound::parse of the bridge's text: a steer is marked again with "!". *)
ParseInbound(steer, gist) ==
  CASE steer -> "steer" [] gist.slash = "/cancel" -> "cancel"
    [] gist.slash = "/steer" -> "steer" [] gist.slash # "" -> "command" [] OTHER -> "plain"
(* Bug: a steer is put first and queued as well. *)
AdmitTwice(queue, kind, gist) ==
  CASE kind = "plain" -> IF Len(queue) >= QueueMax THEN queue ELSE Append(queue, gist)
    [] kind = "steer" -> <<gist>> \o Append(queue, gist)
    [] OTHER -> queue

(* admit, while nothing is in flight: a steer goes first and has no limit. *)
Admit(queue, kind, gist) ==
  CASE kind = "plain" -> IF Len(queue) >= QueueMax THEN queue ELSE Append(queue, gist)
    [] kind = "steer" -> <<gist>> \o queue
    [] OTHER -> queue

(***************************************************************************)
(* ApprovalEngine.                                                         *)
(***************************************************************************)
PendingAt(id) == {p \in asked : p.id = id}
(* Bug: a button's hash is not compared. *)
ResolveAnyHash(id, verb, hash) ==
  IF PendingAt(id) = {} THEN "unknown"
  ELSE IF hour > (CHOOSE p \in PendingAt(id) : TRUE).expires THEN "expired" ELSE verb

Resolve(id, verb, hash) ==
  IF PendingAt(id) = {} THEN "unknown"
  ELSE LET p == CHOOSE x \in PendingAt(id) : TRUE
       IN  CASE hour > p.expires -> "expired"
             [] hash # <<>> /\ hash[1] # p.op -> "mismatch"
             [] OTHER -> verb
Consumed(id, how) ==
  IF how \in {"unknown", "mismatch"} THEN asked ELSE asked \ PendingAt(id)

(* What an event asks of an approval: its id, verb and the hash it shows. *)
Decides(event) ==
  CASE event.is = "callback" -> <<[id |-> event.cb.id, verb |-> event.cb.verb, hash |-> <<event.cb.hash>>]>>
    [] event.is = "command" /\ event.cmd.verb = "/approve" -> <<[id |-> event.cmd.id, verb |-> "approve", hash |-> <<>>]>>
    [] event.is = "command" /\ event.cmd.verb = "/deny" -> <<[id |-> event.cmd.id, verb |-> "deny", hash |-> <<>>]>>
    [] OTHER -> <<>>

DispatchDecision(event) ==
  /\ Decides(event) # <<>>
  /\ LET d == Decides(event)[1]
         how == Resolve(d.id, d.verb, d.hash)
         parks == parkedTask # <<>> /\ parkedTask[1].id = d.id
     IN  /\ asked' = Consumed(d.id, how)
         /\ parkedTask' = IF parks THEN <<>> ELSE parkedTask
         /\ launched' = launched \cup
              (IF parks /\ how = "approve"
               THEN {[prompt |-> parkedTask[1].prompt, id |-> d.id, chat |-> event.chat, hash |-> d.hash,
                      op |-> (CHOOSE p \in PendingAt(d.id) : TRUE).op, named |-> d.id]} ELSE {})
         /\ outbound' = {event.chat}
  /\ UNCHANGED <<hour, nextId, keyboards, steerArmed, turns>>

DispatchCommand(event) ==
  /\ event.is = "command" /\ Decides(event) = <<>>
  /\ outbound' = {event.chat}
  /\ UNCHANGED <<hour, asked, parkedTask, nextId, keyboards, steerArmed, turns, launched>>

DispatchSteerButton(event) ==
  /\ event.is = "steerButton"
  /\ steerArmed' = TRUE /\ outbound' = {event.chat}
  /\ UNCHANGED <<hour, asked, parkedTask, nextId, keyboards, turns, launched>>

(* handle_action of a launch: one approval at a time; the answer to a send *)
(* is not looked at, so a keyboard may never arrive.                       *)
HandleLaunch(chat, gist) ==
  IF parkedTask # <<>>
  THEN /\ outbound' = {chat} /\ UNCHANGED <<asked, parkedTask, nextId, keyboards>>
  ELSE /\ nextId <= MaxIds /\ nextId' = nextId + 1
       /\ asked' = (asked \ PendingAt(nextId))
                    \cup {[id |-> nextId, op |-> gist, expires |-> hour + Ttl]}
       /\ parkedTask' = <<[prompt |-> gist, chat |-> chat, id |-> nextId]>>
       /\ \E arrives \in BOOLEAN :
            keyboards' = keyboards \cup
              (IF arrives THEN {[chat |-> chat, cb |-> TruncateField(cb), shows |-> cb] :
                                 cb \in ApprovalKeyboard(nextId, gist)} ELSE {})
       /\ outbound' = {chat}

DispatchTurn(event) ==
  /\ event.is \in {"turn", "steer"}
  /\ steerArmed' = (steerArmed /\ event.is = "steer")
  /\ \E reply \in Replies :
       LET kind == ParseInbound(event.is = "steer" \/ steerArmed, event.gist)
           queue == Admit(turns, kind, event.gist)
       IN  IF queue = <<>>
           THEN outbound' = {} /\ UNCHANGED <<turns, asked, parkedTask, nextId, keyboards>>
           ELSE LET route == Classify(queue[1], reply)
                IN  /\ turns' = Tail(queue)
                    /\ IF route = "converse"
                       THEN outbound' = {event.chat}
                            /\ UNCHANGED <<asked, parkedTask, nextId, keyboards>>
                       ELSE HandleLaunch(event.chat, queue[1])
  /\ UNCHANGED <<hour, launched>>

Dispatch(event) ==
  \/ DispatchDecision(event) \/ DispatchCommand(event)
  \/ DispatchSteerButton(event) \/ DispatchTurn(event)

(* One update: dropped or dispatched. *)
Update(chat, body) ==
  \/ Normalize(chat, body) # NoEvent /\ Dispatch(Normalize(chat, body))
  \/ /\ Normalize(chat, body) = NoEvent /\ outbound' = {}
     /\ UNCHANGED <<hour, asked, parkedTask, nextId, keyboards, steerArmed, turns, launched>>

(* Presses: a button as Telegram keeps it, a Slack reaction with the whole *)
(* callback text, and buttons left in the chat by an earlier process.      *)
Presses ==
  {[is |-> "press", cb |-> k.cb] : k \in keyboards} \cup {[is |-> "press", cb |-> k.shows] : k \in keyboards}
  \cup {[is |-> "press", cb |-> [tag |-> "steer", id |-> 0, verb |-> "", hash |-> <<>>, len |-> 0]]}
Says(chat) == \E text \in Texts : Update(chat, [is |-> "text", text |-> text])
Pushes(chat) == \E press \in Presses : Update(chat, press)

ConvTick ==
  /\ hour < MaxTime /\ hour' = hour + 1
  /\ UNCHANGED <<asked, parkedTask, nextId, keyboards, steerArmed, turns, outbound, launched>>
ConvRestart ==
  /\ nextId > 1 /\ nextId' = 1
  /\ asked' = {} /\ parkedTask' = <<>> /\ steerArmed' = FALSE /\ turns' = <<>>
  /\ outbound' = {} /\ launched' = {}
  /\ UNCHANGED <<hour, keyboards>>

ConvNext == ConvTick \/ ConvRestart \/ \E chat \in Chats : Says(chat) \/ Pushes(chat)

ConvSpec == ConvInit /\ [][ConvNext]_convVars

(***************************************************************************)
(* A launch that needed approval starts only after a command that names    *)
(* the approval, or a button whose hash is that of the very prompt         *)
(* launched, from an allowed chat - whatever buttons are still in the chat *)
(* from an earlier life of the daemon, whose ids start over, and whatever  *)
(* a text, a steer or the classifying model says (resolve_pending_pr,      *)
(* pr_approval_match, ApprovalEngine::resolve).                            *)
(***************************************************************************)
ApprovedIsWhatRuns ==
  \A l \in launched : /\ l.chat \in Allowed /\ l.named = l.id /\ l.op = l.prompt
                       /\ l.hash \in {<<>>, <<l.prompt>>}

(***************************************************************************)
(* The session answers every turn in the dispatch that brought it: none is *)
(* left in the queue or dropped, and only allowed chats are written to     *)
(* (ChatBridge::turn, TurnQueue::admit, dispatch_event).                   *)
(***************************************************************************)
NothingIsLeftUnsaid ==
  /\ turns = <<>>
  /\ outbound \subseteq Allowed

(***************************************************************************)
(* docs/telegram.md: "approve button callback_data = nonce(approval_id,    *)
(* op_hash)". A button that arrived in an allowed chat is an event when it *)
(* is pressed (approval_keyboard, InlineKeyboard::to_json, CallbackData).  *)
(***************************************************************************)
ButtonsAreUnderstood == \A k \in keyboards : k.chat \in Allowed => Normalize(k.chat, [is |-> "press", cb |-> k.cb]) # NoEvent

\* What runs is what was approved, and every message has its answer
\* (ApprovalEngine::resolve, TurnQueue::admit).
ConversationIsFaithful == ApprovedIsWhatRuns /\ NothingIsLeftUnsaid

=============================================================================
