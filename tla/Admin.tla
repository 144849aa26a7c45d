------------------------------- MODULE Admin -------------------------------
(***************************************************************************)
(* The admin socket (crates/crustcore-daemon/src/admin.rs) over the task   *)
(* registry: a connection sends a nonce and then one command, each in a    *)
(* frame with its length. The registry is borrowed for the whole           *)
(* connection, so one connection is a step among the calls of Registry.    *)
(***************************************************************************)
EXTENDS Registry

CONSTANT
  Connections   \* [operator, nonce, line]: the chat the daemon's socket acts for, and
                \* what a client sends; "right" is the nonce of the file (never empty)

\* parse_admin_command: status, or a verb with a number; 0 stands for no number.
ParseAdmin(line) ==
  IF line.verb = "status" \/ (line.verb \in {"detail", "cancel", "kill"} /\ line.id # 0)
    THEN <<line>> ELSE << >>

\* Bug: the bytes are compared as far as both go.
AuthenticatePrefix(nonce) == nonce \in {"right", "rig"}
\* authenticate: of the same length and the same bytes.
Authenticate(nonce) == nonce = "right"

\* Bug: acts for whoever owns the task.
DispatchAdminForAll(cmd, operator) ==
  CASE cmd.verb = "cancel" /\ cmd.id \in Live(reg) ->
         [reply |-> "Acted", reg |-> RequestCancel(reg, cmd.id, reg.slots[cmd.id].chat)]
    [] cmd.verb = "kill" /\ cmd.id \in Live(reg) ->
         [reply |-> "Acted", reg |-> RequestKill(reg, cmd.id, reg.slots[cmd.id].chat)]
    [] OTHER -> [reply |-> "NotActed", reg |-> reg]
\* dispatch_admin: cancel and kill pass the registry's own gate.
DispatchAdmin(cmd, operator) ==
  CASE cmd.verb = "status" -> [reply |-> "Snapshot", reg |-> reg]
    [] cmd.verb = "detail" ->
         [reply |-> IF cmd.id \in DOMAIN reg.slots THEN "Detail" ELSE "NotActed", reg |-> reg]
    [] cmd.verb = "cancel" /\ Owns(reg, cmd.id, operator) ->
         [reply |-> "Acted", reg |-> RequestCancel(reg, cmd.id, operator)]
    [] cmd.verb = "kill" /\ Owns(reg, cmd.id, operator) ->
         [reply |-> "Acted", reg |-> RequestKill(reg, cmd.id, operator)]
    [] OTHER -> [reply |-> "NotActed", reg |-> reg]

\* read_frame: a frame, the end of the stream, or an error for a length over
\* the bound or a stream that ends inside the frame.
ReadFrame(sent) ==
  CASE sent = "gone" -> "eof" [] sent \in {"huge", "cut"} -> "error" [] OTHER -> "frame"

\* serve_admin_connection: what the client is told, and the registry after it.
Served(operator, nonce, line) ==
  CASE ReadFrame(nonce) # "frame" -> [reply |-> ReadFrame(nonce), reg |-> reg]
    [] ReadFrame(nonce) = "frame" /\ ~Authenticate(nonce) -> [reply |-> "Unauthorized", reg |-> reg]
    [] OTHER ->
         IF ReadFrame(line.verb) # "frame" THEN [reply |-> ReadFrame(line.verb), reg |-> reg]
         ELSE IF ParseAdmin(line) = << >> THEN [reply |-> "BadRequest", reg |-> reg]
         ELSE DispatchAdmin(ParseAdmin(line)[1], operator)
ServeAdmin(operator, nonce, line) == Call(Served(operator, nonce, line).reg)

AdminNext == Next \/ \E c \in Connections : ServeAdmin(c.operator, c.nonce, c.line)
AdminSpec == Init /\ [][AdminNext]_vars

-----------------------------------------------------------------------------
\* In whatever state a connection finds the registry, it changes a task only
\* with the right nonce, only one that is live and the operator's own, and is
\* then told so; told anything else, it changed nothing, wherever its stream
\* ended. A task it ended stays counted until the tick that retires it
\* (serve_admin_connection, dispatch_admin).
AdminActsForItsOperator ==
  \A c \in Connections :
    LET after == Served(c.operator, c.nonce, c.line)
    IN  /\ after.reply # "Acted" => after.reg = reg
        /\ after.reply = "Acted" =>
             /\ c.nonce = "right"
             /\ c.line.id \in Live(reg) /\ reg.slots[c.line.id].chat = c.operator
             /\ after.reg.slots[c.line.id].phase \in {"Cancelling", "Killed"}
             /\ after.reg.running = reg.running

\* Slots and meters are counted exactly, and the admin socket reaches only its
\* operator's tasks (admit, observe_progress, tick, dispatch_admin).
RegistryIsGuarded == SchedulerCountsSlots /\ MetersAreExact /\ AdminActsForItsOperator

=============================================================================
