-------------------------------- MODULE Mcp ---------------------------------
(***************************************************************************)
(* MCP both ways (crustcore-mcp): the client's registry, gateway and       *)
(* call_tool over a stdio or HTTP transport, the filter every answer goes  *)
(* through, and the server that exposes CrustCore's own tools. The other   *)
(* end is not trusted: it may answer with an error, with a frame that is   *)
(* too large or makes no sense, or speak without being asked.              *)
(***************************************************************************)
EXTENDS Integers, Sequences, SequencesExt, FiniteSets

CONSTANTS
  McpRecords,   \* [id, pin, secret, http, repos, policies]: records an operator registers
  McpCalls,     \* [server, tool, repo]: calls the agent asks for
  Listings,     \* tools/list results: sequences of names, "" for an entry without one
  McpReplies,      \* kinds of frame the other end answers with
  Outputs,      \* tool outputs: sequences of "t" (text) and of "s1", "s2", a secret's halves
  SummaryMax,   \* MAX_MCP_SUMMARY, in such units
  MaxMcpCalls   \* bound on calls

\* The redactor knows secrets whole: half of one is not one.
ASSUME McpAssumption ==
  /\ SummaryMax \in Nat
  /\ \A r \in McpRecords : r.secret \in BOOLEAN /\ r.http \in BOOLEAN
  /\ \A out \in Outputs :
       /\ out \in Seq({"t", "s1", "s2"})
       /\ \A i \in 1..Len(out) : /\ out[i] = "s1" => i < Len(out) /\ out[i + 1] = "s2"
                                 /\ out[i] = "s2" => i > 1 /\ out[i - 1] = "s1"

VARIABLES
  mcpServers,   \* McpRegistry: records by id
  mcpListed,    \* <<>> or <<names>>: the last listing the caller got
  mcpPipe,      \* frames of the stdio server not read yet, oldest first
  mcpInStep,    \* FALSE once a frame's body was left in the pipe as headers
  mcpNextId,    \* next_id of the transport, which numbers listings and calls alike
  mcpCall,      \* history: the last call, what left and what came of it
  mcpExposed    \* McpServer.tools: tool -> decision

mcpVars == <<mcpServers, mcpListed, mcpPipe, mcpInStep, mcpNextId, mcpCall, mcpExposed>>

(* What came of a call that did not leave, and of a request to the server. *)
NotSent(of, outcome, shown, receipt) ==
  [of |-> of, record |-> <<>>, listed |-> <<>>, auth |-> "none", id |-> 0,
   outcome |-> outcome, shown |-> shown, receipt |-> receipt, answers |-> 0]
McpInit ==
  /\ mcpServers = {} /\ mcpListed = <<>> /\ mcpPipe = <<>> /\ mcpInStep = TRUE /\ mcpNextId = 1
  /\ mcpCall = NotSent(<<>>, "none", <<>>, <<>>) /\ mcpExposed = <<>>

(***************************************************************************)
(* The gateway.                                                            *)
(***************************************************************************)
(* manifest_hash: the set of names, whatever their order or repetition;    *)
(* list_tools drops the entries without a name. Nothing else of a tool is  *)
(* in it. (No name holds the NUL the hash separates names with.)           *)
ManifestHash(names) == Range(names) \ {""}
(* tool_decision: the first policy that names the tool. *)
ToolDecision(policies, tool) ==
  LET named == {i \in DOMAIN policies : policies[i].tool = tool}
  IN  IF named = {} THEN "none" ELSE policies[CHOOSE i \in named : \A j \in named : i <= j].decision

(* gateway_check, with the surface the caller gives: none skips the pin.   *)
(* Bug: a surface that grew is taken for the one that was admitted. *)
GatewayCheckGrown(call, live) ==
  LET found == {r \in mcpServers : r.id = call.server}
  IN  IF found = {} THEN "UnknownServer"
      ELSE LET r == CHOOSE x \in found : TRUE
               tool == ToolDecision(r.policies, call.tool)
           IN  CASE r.pin # <<>> /\ live # <<>> /\ ~(r.pin[1] \subseteq ManifestHash(live[1])) -> "ManifestDrift"
                 [] call.repo \notin r.repos -> "RepoNotAllowed"
                 [] tool = "none" -> "ToolNotAllowed"
                 [] OTHER -> tool

GatewayCheck(call, live) ==
  LET found == {r \in mcpServers : r.id = call.server}
  IN  IF found = {} THEN "UnknownServer"
      ELSE LET r == CHOOSE x \in found : TRUE
               tool == ToolDecision(r.policies, call.tool)
           IN  CASE r.pin # <<>> /\ live # <<>> /\ r.pin[1] # ManifestHash(live[1]) -> "ManifestDrift"
                 [] call.repo \notin r.repos -> "RepoNotAllowed"
                 [] tool = "none" -> "ToolNotAllowed"
                 [] OTHER -> tool

(* generate_stubs: one for each used tool the policies admit. *)
GenerateStubs(r, used) == {t \in Range(used) : ToolDecision(r.policies, t) \in {"allow", "ask"}}

(***************************************************************************)
(* What the model may see: redacted first, then cut to the bound.          *)
(***************************************************************************)
(* Each secret is one mark in what is left, the rest as it was. *)
SecretAt(out, i) == i \in 1..(Len(out) - 1) /\ out[i] = "s1" /\ out[i + 1] = "s2"
NthOf(kept, n) == CHOOSE i \in kept : Cardinality({j \in kept : j <= i}) = n
RedactOutput(out) ==
  LET kept == {i \in 1..Len(out) : ~SecretAt(out, i - 1)}
  IN  [n \in 1..Cardinality(kept) |->
         IF SecretAt(out, NthOf(kept, n)) THEN "redacted" ELSE out[NthOf(kept, n)]]
Bounded(out) == SubSeq(out, 1, IF Len(out) > SummaryMax THEN SummaryMax ELSE Len(out))
(* Bug: the output is cut first, and a secret with it. *)
ModelVisibleCut(out) == RedactOutput(Bounded(out))

ModelVisible(out) == Bounded(RedactOutput(out))
(* filter_result: the receipt binds the summary shown and all of the raw output. *)
Receipt(tool, out) == <<[tool |-> tool, result |-> ModelVisible(out), artifact |-> out]>>

(***************************************************************************)
(* The client.                                                             *)
(***************************************************************************)
(* resolve_auth: a server with a secret is called with it or not at all.   *)
(* `unlocked` stands for a context whose broker holds the secret and whose *)
(* view has not expired.                                                   *)
ResolveAuth(r, unlocked) == IF r.secret THEN (IF unlocked THEN "bearer" ELSE "unavailable") ELSE "none"

(* The frames the server writes for request id: one answer, or a message   *)
(* of its own before it. The result of a listing has its names in it.      *)
Written(id, reply, names) ==
  LET Frame(kind) == [kind |-> kind, id |-> id, names |-> names]
  IN  CASE reply = "chatter" -> <<[kind |-> "neither", id |-> 0, names |-> <<>>], Frame("result")>>
        [] reply = "closed" -> <<>>
        [] OTHER -> <<Frame(reply)>>
(* read_framed_message: headers up to their cap, a length, a body of that  *)
(* length. Without one, or over a cap, the body stays in the pipe and is   *)
(* read as headers from then on.                                           *)
ReadFramed(pipe, inStep) ==
  LET Failed(kind, step, rest) == [kind |-> kind, id |-> 0, names |-> <<>>, inStep |-> step, rest |-> rest]
  IN  CASE pipe = <<>> -> Failed("Transport", inStep, <<>>)
        [] ~inStep \/ pipe[1].kind \in {"no length", "huge", "long headers"} -> Failed("BadResponse", FALSE, Tail(pipe))
        [] pipe[1].kind = "garbage" -> Failed("BadResponse", TRUE, Tail(pipe))
        [] OTHER -> [kind |-> pipe[1].kind, id |-> pipe[1].id, names |-> pipe[1].names,
                     inStep |-> TRUE, rest |-> Tail(pipe)]
(* parse_rpc_result: an error member, else the result, else neither. The id is not looked at. *)
ParseRpcResult(kind) ==
  CASE kind = "error" -> "Rpc" [] kind = "result" -> "Done" [] kind = "Transport" -> "Transport"
    [] OTHER -> "BadResponse"
(* HttpMcp: each request has its own response, read up to the cap. *)
HttpResponse(reply) ==
  CASE reply \in {"error", "result"} -> reply
    [] reply = "chatter" -> "neither"
    [] reply = "closed" -> "Transport"
    [] OTHER -> "BadResponse"

Register(record) ==
  /\ mcpServers' = {r \in mcpServers : r.id # record.id} \cup {record}
  /\ UNCHANGED <<mcpListed, mcpPipe, mcpInStep, mcpNextId, mcpCall, mcpExposed>>
(* list_tools: a call of the transport like any other. What it reads may   *)
(* be what was left of an earlier one, and has no tools in it; when it     *)
(* fails the caller has what it had.                                       *)
ListTools(http, names, reply) ==
  /\ mcpNextId <= MaxMcpCalls /\ mcpNextId' = mcpNextId + 1
  /\ LET read == ReadFramed(mcpPipe \o Written(mcpNextId, reply, <<names>>), mcpInStep)
         outcome == ParseRpcResult(IF http THEN HttpResponse(reply) ELSE read.kind)
         tools == IF outcome # "Done" THEN <<>> ELSE IF http THEN <<names>> ELSE read.names
     IN  /\ IF http THEN UNCHANGED <<mcpPipe, mcpInStep>>
            ELSE mcpPipe' = read.rest /\ mcpInStep' = read.inStep
         /\ mcpListed' = IF tools = <<>> THEN mcpListed ELSE tools
  /\ UNCHANGED <<mcpServers, mcpCall, mcpExposed>>

(* call_tool; `live` is ToolCall.live_manifest_hash, the caller's to give. *)
CallTool(call, live, unlocked, reply, out) ==
  /\ mcpNextId <= MaxMcpCalls
  /\ LET decision == GatewayCheck(call, live)
         r == CHOOSE x \in mcpServers : x.id = call.server
         auth == ResolveAuth(r, unlocked)
         refused == CASE decision = "ask" -> "NeedsApproval"
                      [] decision # "allow" -> "Denied"
                      [] auth = "unavailable" -> "CredentialUnavailable"
                      [] OTHER -> "none"
         read == ReadFramed(mcpPipe \o Written(mcpNextId, reply, <<>>), mcpInStep)
         outcome == ParseRpcResult(IF r.http THEN HttpResponse(reply) ELSE read.kind)
     IN  IF refused # "none"
         THEN /\ mcpCall' = NotSent(<<call>>, refused, <<>>, <<>>)
              /\ UNCHANGED <<mcpPipe, mcpInStep, mcpNextId>>
         ELSE /\ mcpNextId' = mcpNextId + 1
              /\ IF r.http THEN UNCHANGED <<mcpPipe, mcpInStep>>
                 ELSE mcpPipe' = read.rest /\ mcpInStep' = read.inStep
              /\ mcpCall' = [of |-> <<call>>, record |-> <<r>>, listed |-> live,
                             auth |-> IF r.http THEN auth ELSE "none", id |-> mcpNextId, outcome |-> outcome,
                             shown |-> IF outcome = "Done" THEN ModelVisible(out) ELSE <<>>,
                             receipt |-> IF outcome = "Done" THEN Receipt(call.tool, out) ELSE <<>>,
                             answers |-> IF outcome # "Done" THEN 0 ELSE IF r.http THEN mcpNextId ELSE read.id]
  /\ UNCHANGED <<mcpServers, mcpListed, mcpExposed>>

(***************************************************************************)
(* The server: a tool that is not exposed, or not allowed outright, never  *)
(* runs; its output, or its error, leaves as the model would see it.       *)
(***************************************************************************)
Expose(tool, decision) ==
  /\ mcpExposed' = [t \in DOMAIN mcpExposed \cup {tool} |-> IF t = tool THEN decision ELSE mcpExposed[t]]
  /\ UNCHANGED <<mcpServers, mcpListed, mcpPipe, mcpInStep, mcpNextId, mcpCall>>
Decision(tool) == IF tool \in DOMAIN mcpExposed THEN mcpExposed[tool] ELSE "none"
HandleCall(tool, fails, out) ==
  LET ran == Decision(tool) = "allow"
      answer == CASE tool = "" -> "NOT_EXPOSED"
                  [] Decision(tool) = "none" -> "NOT_EXPOSED"
                  [] Decision(tool) = "deny" -> "DENIED"
                  [] Decision(tool) = "ask" -> "NEEDS_APPROVAL"
                  [] fails -> "FAILED"
                  [] OTHER -> "Served"
  IN  mcpCall' = NotSent(<<>>, answer, IF ran THEN ModelVisible(out) ELSE <<>>,
                         IF answer = "Served" THEN Receipt(tool, out) ELSE <<>>)
HandleRequest(method, tool, fails, out) ==
  /\ \/ method = "tools/call" /\ HandleCall(tool, fails, out)
     \/ /\ method \in {"initialize", "tools/list", "other"}
        /\ mcpCall' = NotSent(<<>>, IF method = "other" THEN "METHOD_NOT_FOUND" ELSE "Listed", <<>>, <<>>)
  /\ UNCHANGED <<mcpServers, mcpListed, mcpPipe, mcpInStep, mcpNextId, mcpExposed>>

McpTools == {c.tool : c \in McpCalls}
McpClientNext ==
  \/ \E r \in McpRecords : Register(r)
  \/ \E http \in BOOLEAN, names \in Listings, reply \in McpReplies : ListTools(http, names, reply)
  \/ \E call \in McpCalls, live \in {<<>>, mcpListed}, unlocked \in BOOLEAN, reply \in McpReplies, out \in Outputs :
       CallTool(call, live, unlocked, reply, out)
McpServerNext ==
  \/ \E tool \in McpTools, d \in {"allow", "ask", "deny"} : Expose(tool, d)
  \/ \E method \in {"initialize", "tools/call", "other"}, tool \in McpTools \cup {""}, fails \in BOOLEAN, out \in Outputs :
       HandleRequest(method, tool, fails, out)

McpSpec == McpInit /\ [][McpClientNext \/ McpServerNext]_mcpVars

(***************************************************************************)
(* A request that left for a server was admitted by the record it had      *)
(* then: the repository and the tool were in its lists, the tools the      *)
(* caller gave as listed are those that were pinned (a caller that gives   *)
(* none is not held to the pin), and a server with a secret behind HTTP    *)
(* was never called without it (call_tool, gateway_check, resolve_auth).   *)
(* A stub is made only for a tool that could be called.                    *)
(***************************************************************************)
McpCallsAreGated ==
  mcpCall.record # <<>> =>
    LET r == mcpCall.record[1]  call == mcpCall.of[1]
    IN  /\ call.repo \in r.repos /\ GenerateStubs(r, <<call.tool>>) = {call.tool}
        /\ r.pin # <<>> /\ mcpCall.listed # <<>> => ManifestHash(mcpCall.listed[1]) = r.pin[1]
        /\ r.http => (mcpCall.auth = "bearer" <=> r.secret)

(* No part of a secret is in what the model is shown of an answer, of a    *)
(* tool's output or of its error, however it falls across the bound, and   *)
(* the receipt of the last answer binds exactly the summary of the output  *)
(* it commits to (filter_result, McpServer::handle_call).                  *)
McpShowsNoSecret ==
  /\ Range(mcpCall.shown) \cap {"s1", "s2"} = {} /\ Len(mcpCall.shown) <= SummaryMax
  /\ mcpCall.outcome \in {"Done", "Served"} => mcpCall.receipt[1].result = mcpCall.shown

\* A tool of another server is called only past the gateway, and what it
\* returns is shown without secrets (gateway_check, filter_result).
McpIsGuarded == McpCallsAreGated /\ McpShowsNoSecret

=============================================================================
