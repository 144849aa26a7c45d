----------------------------- MODULE MCEventLog -----------------------------
(***************************************************************************)
(* Frames of one task: its creation, a redacted tool result and a last     *)
(* frame that may be shown, appended in any order.                         *)
(***************************************************************************)
EXTENDS EventLog

CONSTANTS t1, p1, p2

Meta(seq, task, kind, redacted, visible) ==
  [seq |-> seq, task |-> task, kind |-> kind,
   redacted |-> redacted, visible |-> visible]

MCMetas ==
  {Meta(1, t1, "TaskCreated", FALSE, FALSE),
   Meta(2, t1, "ToolCallCompleted", TRUE, TRUE),
   Meta(3, t1, "TaskCompleted", FALSE, TRUE)}

=============================================================================
