---------------------------- MODULE MCChannels -----------------------------
(***************************************************************************)
(* How the agent is spoken to and what it draws on: Telegram's poller, the *)
(* conversation with its approvals, GitHub's webhooks and pull requests,   *)
(* flows, sessions, MCP, memory and retrieval, and the development server. *)
(* They meet only at the values they pass, so a behaviour exercises one of *)
(* them: part.                                                             *)
(***************************************************************************)
EXTENDS Poller, Conversation, Hosted, Flow, Session, Mcp, Recall, Chunks, Dev

VARIABLE part

(* The conversation. *)
MCTexts ==
  LET Gist(words, question, hits, slash) ==
        [words |-> words, continues |-> FALSE, scratch |-> FALSE, question |-> question, hits |-> hits, slash |-> slash]
      none == Gist(0, FALSE, 0, "")
      Text(lead, verb, arg, gist) == [lead |-> lead, verb |-> verb, arg |-> arg, gist |-> gist]
  IN  {Text("plain", "", <<>>, Gist(3, FALSE, 1, "")), Text("plain", "", <<>>, Gist(4, TRUE, 0, "")),
       Text("bang", "", <<>>, Gist(2, FALSE, 0, "/cancel")), Text("bang", "", <<>>, none),
       Text("empty", "", <<>>, none)}
      \cup {Text("slash", verb, <<>>, none) : verb \in {"/kill", "/help", "/hello"}}
      \cup {Text("slash", "/approve", <<1>>, none), Text("slash", "/approve", <<2>>, none),
            Text("slash", "/deny", <<1>>, none)}
MCReplies == {<<>>, <<"sure", "chat">>}

(* Webhooks and pushes. *)
MCDeliveries ==
  LET Line(verb, goal, id) == [verb |-> verb, alone |-> verb # "runner", goal |-> goal, id |-> id]
      Delivery(id, size, signed, lines) == [id |-> id, size |-> size, signed |-> signed, post |-> TRUE, lines |-> lines]
  IN  {Delivery("a", 1, TRUE, <<Line("", FALSE, FALSE), Line("run", TRUE, FALSE), Line("cancel", FALSE, TRUE)>>),
       Delivery("a", 1, FALSE, <<>>), Delivery("b", 1, FALSE, <<>>),
       Delivery("b", 1, TRUE, <<Line("cancel", FALSE, TRUE)>>), Delivery("c", 2, TRUE, <<>>), Delivery("", 1, TRUE, <<>>),
       Delivery("c", 1, TRUE, <<Line("runner", TRUE, TRUE), Line("explain", FALSE, TRUE)>>)}
MCPrefix == <<"crustcore">>
MCArgvs ==
  LET Flag(force) == [is |-> "flag", force |-> force, all |-> FALSE]
      Mirror == [is |-> "flag", force |-> FALSE, all |-> TRUE]
      Word(force, dst) == [is |-> "word", force |-> force, dst |-> dst]
      origin == Word(FALSE, <<"origin">>)
      good == Word(FALSE, <<"crustcore", "x">>)
  IN  {<<origin, good>>, <<Flag(FALSE), origin, good, Word(FALSE, <<"main">>)>>,
       <<origin, Word(TRUE, <<"crustcore", "x">>)>>, <<origin, good, Flag(TRUE)>>,
       <<origin, Word(FALSE, <<"crustcore", "..", "main">>)>>, <<origin, good, Word(FALSE, <<"crustcore">>)>>,
       <<origin, good, Word(FALSE, <<"other">>)>>, <<origin>>, <<Mirror, origin, good>>}
MCBranches == {<<"main">>}
MCSkews == {-30, -29, 0, 29, 30}

(* Flows: a repair loop, a fan-out, a cycle of routes, nested loops. *)
MCPlans ==
  LET Plan(nodes, cost, steps, fanout, profile, expires) ==
        [nodes |-> nodes, entry |-> 1, cost |-> cost, steps |-> steps, fanout |-> fanout, flags |-> {"go"},
         profile |-> profile, expires |-> expires, now |-> 1]
      Lit(is, key, min, neg) == [is |-> is, key |-> key, min |-> min, neg |-> neg]
      end == [is |-> "end"]
      Drive(is, key, next) == [is |-> is, key |-> key, next |-> next]
      ToolOf(tool, next) == [is |-> "tool", tool |-> tool, key |-> "t", next |-> next]
      VerifyOf(next) == [is |-> "verify", next |-> next]
      Loop(body, until, max, next) == [is |-> "loop", body |-> body, until |-> until, max |-> max, next |-> next]
      Par(children, next) == [is |-> "parallel", children |-> children, next |-> next]
      RouteOf(pred, next, else) == [is |-> "route", pred |-> pred, next |-> next, else |-> else]
      JoinOf(next) == [is |-> "join", next |-> next]
      repair == <<Drive("model", "m", 2), Loop(3, {{Lit("flag", "stop", 0, FALSE)}}, 2, 6), ToolOf("destructive", 4),
                  VerifyOf(5), end,
                  RouteOf({{Lit("output", "m", 0, FALSE), Lit("counter", "", 2, FALSE)}}, 7, 5), Drive("review", "r", 5)>>
      fan == <<Par(<<3, 5>>, 2), VerifyOf(6), Drive("model", "m", 4), end, VerifyOf(4), JoinOf(4)>>
      routes == <<RouteOf({{Lit("always", "", 0, TRUE)}}, 3, 2), RouteOf({{Lit("flag", "go", 0, TRUE)}}, 3, 1), end>>
      nest == <<Loop(1, {{Lit("always", "", 0, TRUE)}}, 1, 2), ToolOf("reversible", 3), end>>
  IN  {Plan(repair, 2, 20, 0, "supervised", 1), Plan(repair, 2, 20, 0, "supervised", 0),
       Plan(repair, 1, 20, 0, "read-only", 1), Plan(fan, 1, 9, 2, "full", 1), Plan(fan, 1, 9, 1, "full", 1),
       Plan(routes, 0, 6, 0, "full", 0), Plan(nest, 0, 4, 0, "full", 0),
       Plan(<<Par(<<1, 3>>, 2), end, Loop(4, {}, 2, 2), VerifyOf(5), end>>, 0, 9, 4, "full", 1),
       Plan(<<JoinOf(2)>>, 0, 9, 0, "full", 0)}

(* Sessions. *)
MCAppended ==
  LET Frame(task, kind, visible, owner, size) ==
        [task |-> task, job |-> task, kind |-> kind, visible |-> visible, owner |-> owner, size |-> size]
  IN  {Frame(1, "UserMessageQueued", TRUE, <<>>, 1), Frame(1, "ModelOutputReceived", FALSE, <<>>, 1),
       Frame(1, "ToolCallCompleted", TRUE, <<>>, 3), Frame(2, "ToolCallCompleted", TRUE, <<>>, 1),
       Frame(1, "JobLeased", FALSE, <<7>>, 1), Frame(1, "TaskKilled", FALSE, <<>>, 1)}
MCPolicies ==
  {[mode |-> "drop", n |-> 0], [mode |-> "keep", n |-> 2], [mode |-> "summarize", n |-> 1],
   [mode |-> "summarize", n |-> 9]}

(* MCP. *)
MCRecords ==
  {[id |-> 1, pin |-> p, secret |-> s, http |-> h, repos |-> {"r"},
    policies |-> <<[tool |-> "x", decision |-> "allow"], [tool |-> "y", decision |-> "ask"],
                   [tool |-> "y", decision |-> "allow"]>>] :
     p \in {<<>>, <<{"x", "y"}>>}, s \in BOOLEAN, h \in BOOLEAN}
MCMcpCalls ==
  {[server |-> 1, tool |-> t, repo |-> "r"] : t \in {"x", "y", "z"}}
  \cup {[server |-> 2, tool |-> "x", repo |-> "r"], [server |-> 1, tool |-> "x", repo |-> "q"]}
MCListings == {<<"y", "x", "y", "">>, <<"x", "y", "z">>, <<"x">>}
MCMcpReplies == {"result", "error", "chatter", "closed", "no length", "garbage"}
MCOutputs == {<<"t", "s1", "s2">>, <<"t", "t", "t">>}

(* Memory and retrieval: vectors of two numbers, chunks that overlap and are replaced. *)
MCForgeries == {<<"f#3-4", "f#0-1", "f#1-4", "f#0-1", "f#1-3">>}
MCFloors == {[num |-> 0, den |-> 1], [num |-> 9, den |-> 10]}
MCQueries == {<<2, 0>>}
MCVectors == {<<1, 0>>, <<2, 0>>, <<1, 1>>, <<-1, 1>>, <<0, 0>>, <<1>>}
MCPlanes == <<<<<<1, 1>>, <<1, -1>>>>, <<<<0, 1>>, <<-1, 1>>>>>>
MCTrees ==
  LET Of(id, text, vec, size) == [id |-> id, text |-> text, vec |-> vec, size |-> size]
  IN  {<<Of("f#0-1", "old", <<1, 0>>, 1), Of("f#1-3", "old", <<1, 1>>, 2), Of("f#3-4", "old", <<1, 0>>, 1)>>,
       <<Of("f#0-1", "new", <<1, 1>>, 1), Of("f#1-4", "new", <<2, 0>>, 3)>>}
(* Files of one-byte characters, newlines, and characters of a head and a rest. *)
MCFiles ==
  {<<"a", "n", "h", "c", "a", "n", "a">>, <<"h", "c", "h", "c", "h", "c", "a">>, <<"n", "a", "n", "n", "a", "a", "n">>}
MCSymbols ==
  [f \in MCFiles |->
     LET spans == {[start |-> s, end |-> e] : s \in {0, 2, 4}, e \in {2, 4, 6, 7, 9}}
         whole == {s \in spans : IsBoundary(f, s.start) /\ IsBoundary(f, LeastOf(s.end, Len(f)))}
     IN  {{s, t} : s, t \in whole}]

(* Resolutions sent to the development server. *)
Answer(id, decision, hash) == <<<<"approval_id", id>>, <<"decision", decision>>, <<"op_hash", hash>>>>
MCBodies ==
  {Answer("1", "approve", "push"), Answer("1", "approve", "merge"), Answer("2", "approve", "push"),
   Answer("1", "deny", "push"), Answer("NaN", "approve", "push"), Answer("1", "maybe", "push"),
   Answer("1", "approve", "short"),
   Answer("2", "deny", "push") \o Answer("1", "approve", "merge") \o <<<<"op_hash", "short">>>>}
MCApproving == {Answer("1", "approve", "push")}

Parts ==
  {"poller", "conversation", "hooks", "pulls", "flow", "session", "mcp client", "mcp server",
   "memory", "vectors", "retrieval", "remote", "chunker", "dev"}
channelVars ==
  <<part, pollVars, convVars, hostedVars, flowVars, sessionVars, mcpVars, recallVars, chunkVars, devVars>>
Init ==
  /\ part \in Parts
  /\ PollInit /\ ConvInit /\ HostedInit /\ FlowInit /\ SessionInit /\ McpInit /\ RecallInit /\ ChunksInit /\ DevInit
  /\ part # "poller" => inOrder
Next ==
  \/ /\ part = "poller" /\ PollNext
     /\ UNCHANGED <<part, convVars, hostedVars, flowVars, sessionVars, mcpVars, recallVars, chunkVars, devVars>>
  \/ /\ part = "conversation" /\ ConvNext
     /\ UNCHANGED <<part, pollVars, hostedVars, flowVars, sessionVars, mcpVars, recallVars, chunkVars, devVars>>
  \/ /\ \/ part = "hooks" /\ HooksNext
        \/ part = "pulls" /\ PullsNext
     /\ UNCHANGED <<part, pollVars, convVars, flowVars, sessionVars, mcpVars, recallVars, chunkVars, devVars>>
  \/ /\ part = "flow" /\ FlowNext
     /\ UNCHANGED <<part, pollVars, convVars, hostedVars, sessionVars, mcpVars, recallVars, chunkVars, devVars>>
  \/ /\ part = "session" /\ SessionNext
     /\ UNCHANGED <<part, pollVars, convVars, hostedVars, flowVars, mcpVars, recallVars, chunkVars, devVars>>
  \/ /\ \/ part = "mcp client" /\ McpClientNext
        \/ part = "mcp server" /\ McpServerNext
     /\ UNCHANGED <<part, pollVars, convVars, hostedVars, flowVars, sessionVars, recallVars, chunkVars, devVars>>
  \/ /\ \/ part = "memory" /\ MemoryNext
        \/ part = "vectors" /\ VectorNext
        \/ part = "retrieval" /\ ChunkNext
        \/ part = "remote" /\ RemoteNext
     /\ UNCHANGED <<part, pollVars, convVars, hostedVars, flowVars, sessionVars, mcpVars, chunkVars, devVars>>
  \/ /\ part = "chunker" /\ ChunksNext
     /\ UNCHANGED <<part, pollVars, convVars, hostedVars, flowVars, sessionVars, mcpVars, recallVars, devVars>>
  \/ /\ part = "dev" /\ DevNext
     /\ UNCHANGED <<part, pollVars, convVars, hostedVars, flowVars, sessionVars, mcpVars, recallVars, chunkVars>>
\* The poller's loop and a flow's driver go on (Poller, Flow); nothing is asked
\* of anyone else.
Fairness ==
  /\ WF_pollVars(part = "poller" /\ TakeUpdate) /\ WF_pollVars(part = "poller" /\ DispatchUpdate)
  /\ WF_pollVars(part = "poller" /\ \E batch \in Batches(Max({offset, confirmed})) \ {<< >>} : Poll(batch))
  /\ WF_flowVars(part = "flow" /\ FlowNext)
Spec == Init /\ [][Next]_channelVars /\ Fairness

=============================================================================
