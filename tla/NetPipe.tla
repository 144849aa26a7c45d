------------------------------ MODULE NetPipe ------------------------------
(***************************************************************************)
(* The client of the network helper, the pipe between them and the helper  *)
(* (crustcore-netproto NetHelper and SpawnedHelper, crustcore-net serve    *)
(* and Engine). The client has one call in flight, gives up on a line it   *)
(* cannot read and goes on using the pipe; the helper may die between any  *)
(* two lines. A line of an answer has a size in units of MAX_LINE_BYTES:   *)
(* what is left of one that was too long is what the next read finds. A    *)
(* request line that is too long ends the helper.                          *)
(***************************************************************************)
EXTENDS Wire, Models

CONSTANTS
  Configs,     \* the providers, in order
  NetRequests,    \* the requests a client may make
  Batches,     \* the batches of texts an embed request may carry
  MaxModels,   \* MAX_REGISTRY_MODELS
  MaxStream,   \* MAX_STREAM_BYTES, in chunks
  MaxCalls     \* bound on the calls of a behaviour

\* What parse_providers accepts, and texts over the alphabet.
ASSUME NetAssumption ==
  /\ MaxModels \in Nat /\ MaxStream \in Nat /\ MaxCalls \in Nat
  /\ Configs \in Seq([id : STRING, kind : {"openai", "anthropic"}, secret : BOOLEAN,
                      models : Seq([model : STRING, context : Nat, tools : BOOLEAN, cost : Nat,
                                    embeddings : BOOLEAN, rerank : BOOLEAN]) \ {<< >>}])
  /\ Batches \subseteq Seq(Text)

VARIABLES
  call,      \* the call in flight
  toHelper,  \* requests in the pipe
  toWrite,   \* lines the helper has still to write for the request it serves
  toClient,  \* lines in the pipe
  helper,    \* "up" or "down"
  ledger,    \* BudgetLedger of the helper process
  served,    \* history: what became of each request at the helper
  netResults,   \* history: what each call returned
  since      \* history: how many calls had returned when this helper was spawned

netVars == <<call, toHelper, toWrite, toClient, helper, ledger, served, netResults, since>>

NoCall == [id |-> 0, req |-> << >>, streamed |-> 0]
EmptyLedger == [requests |-> 0, cost |-> 0, fallbacks |-> 0]

NetInit ==
  /\ call = NoCall /\ toHelper = << >> /\ toWrite = << >> /\ toClient = << >>
  /\ helper = "up" /\ ledger = EmptyLedger /\ served = << >> /\ netResults = << >>
  /\ since = 0

-----------------------------------------------------------------------------
(* The client.                                                             *)

Return(ok, of, broken) ==
  /\ netResults' = Append(netResults, [id |-> call.id, ok |-> ok, of |-> of, broken |-> broken])
  /\ call' = NoCall

\* Whether the line of a request may exceed MAX_LINE_BYTES: that of a batch by
\* its texts, that of a completion or a ranking by texts not modelled here.
LineMayExceed(req, texts) ==
  CASE req.modality = "probe" -> {FALSE}
    [] req.modality = "embed" -> {LineExceeds(texts)}
    [] OTHER -> BOOLEAN

\* A call writes its request, long or not; the pipe of a dead helper refuses it.
NetCall(req, texts, long) ==
  /\ call = NoCall /\ Len(netResults) < MaxCalls
  /\ LET id == Len(netResults) + 1
     IN  IF helper = "down"
           THEN /\ netResults' = Append(netResults, [id |-> id, ok |-> FALSE, of |-> 0,
                                               broken |-> TRUE])
                /\ UNCHANGED <<call, toHelper>>
           ELSE /\ call' = [id |-> id, req |-> req, streamed |-> 0]
                /\ toHelper' = Append(toHelper, [id |-> id, req |-> req, texts |-> texts,
                                               long |-> long])
                /\ UNCHANGED netResults
  /\ UNCHANGED <<toWrite, toClient, helper, ledger, served, since>>

\* Bug: probe takes the first model for the whole registry.
LastKindEager(modality) ==
  CASE modality = "probe" -> "model" [] modality = "complete" -> "final"
    [] modality = "embed" -> "embedding" [] OTHER -> "ranking"

\* The response that ends a call of this kind, and the one it may be preceded by.
LastKind(modality) ==
  CASE modality = "probe" -> "registry_end" [] modality = "complete" -> "final"
    [] modality = "embed" -> "embedding" [] OTHER -> "ranking"
MoreKind(modality) ==
  CASE modality = "probe" -> "model" [] modality = "complete" -> "chunk" [] OTHER -> "none"

\* read_fields and response_from_fields: a line the client can decode.
Decodes(line) == line.size = 1 /\ line.kind # "junk"

\* probe, complete, embed and rerank: read one line. The rest of a line that
\* is too long stays in the pipe and does not parse.
ClientRead ==
  /\ call # NoCall /\ toClient # << >>
  /\ LET line == Head(toClient)
         modality == call.req.modality
         cap == IF modality = "probe" THEN MaxModels ELSE MaxStream
     IN  IF line.size > 1
           THEN /\ Return(FALSE, 0, TRUE)
                /\ toClient' = <<[line EXCEPT !.size = @ - 1, !.kind = "junk"]>>
                               \o Tail(toClient)
           ELSE /\ toClient' = Tail(toClient)
                /\ IF ~Decodes(line) THEN Return(FALSE, 0, TRUE)
                   ELSE IF line.kind = LastKind(modality) THEN Return(TRUE, line.id, FALSE)
                   ELSE IF line.kind = "error" THEN Return(FALSE, line.id, FALSE)
                   ELSE IF line.kind = MoreKind(modality) /\ call.streamed < cap
                     THEN call' = [call EXCEPT !.streamed = @ + 1] /\ UNCHANGED netResults
                   ELSE Return(FALSE, 0, TRUE)
  /\ UNCHANGED <<toHelper, toWrite, helper, ledger, served, since>>

\* The end of the stream, or a blank line, inside a call.
ClientEof ==
  /\ call # NoCall /\ toClient = << >> /\ helper = "down"
  /\ Return(FALSE, 0, TRUE)
  /\ UNCHANGED <<toHelper, toWrite, toClient, helper, ledger, served, since>>

\* SpawnedHelper is dropped, which kills the child, and another is spawned.
Respawn ==
  /\ call = NoCall /\ Len(netResults) < MaxCalls /\ netResults # << >>
  /\ helper' = "up" /\ toHelper' = << >> /\ toWrite' = << >> /\ toClient' = << >>
  /\ ledger' = EmptyLedger /\ served' = [i \in DOMAIN served |->
                                           [served[i] EXCEPT !.charged = << >>]]
  /\ since' = Len(netResults)
  /\ UNCHANGED <<call, netResults>>

-----------------------------------------------------------------------------
(* The helper.                                                             *)

Line(id, kind, size) == [id |-> id, kind |-> kind, size |-> size]

\* account and accumulate.
Account(cost, fallbacks) ==
  [requests |-> ledger.requests + 1, cost |-> ledger.cost + cost,
   fallbacks |-> ledger.fallbacks + fallbacks]

\* The history of a request at the engine: the cards it was tried on, and what
\* this process charged for it, which may be nothing for a model that is free.
Entry(ok, used, texts, charged) ==
  [ok |-> ok, used |-> used, texts |-> texts, charged |-> charged]

Recorded(id, entry) == [i \in DOMAIN served \cup {id} |-> IF i = id THEN entry ELSE served[i]]

\* serve_one for a completion, an embedding or a ranking. healthy is what the
\* live probe finds, outcomes what each provider does, reported the
\* usage it reports, if any, size the length of the answer's line after escaping.
HelperServe(healthy, outcomes, reported, size) ==
  /\ helper = "up" /\ toWrite = << >> /\ toHelper # << >>
  /\ LET r == Head(toHelper)
         m == r.req.modality
         candidates == Plan(Configs, r.req, healthy)
         hit == FirstThatSucceeds(candidates, outcomes, m)
         texts == OverTheWire(r.texts)
     IN  /\ m # "probe" /\ ReadsBack(r.req.ceiling) /\ ~r.long
         /\ IF hit = 0
              THEN /\ toWrite' = <<Line(r.id, "error", 1)>>
                   /\ served' = Recorded(r.id, Entry(FALSE, ToSet(candidates), texts, << >>))
                   /\ UNCHANGED ledger
              ELSE LET chosen == candidates[hit]
                       charge == ChargeFor(chosen, m, outcomes[chosen.model], reported)
                   IN  /\ toWrite' = (IF m = "complete" /\ r.req.stream
                                        THEN <<Line(r.id, "chunk", 1)>> ELSE << >>)
                                     \o <<Line(r.id, LastKind(m), size)>>
                       /\ served' = Recorded(r.id, Entry(TRUE, {candidates[i] : i \in 1..hit}, texts,
                                                         <<charge>>))
                       /\ ledger' = Account(charge, hit - 1)
  /\ toHelper' = Tail(toHelper)
  /\ UNCHANGED <<call, toClient, helper, netResults, since>>

\* serve_one for a probe: the registries of the three modalities, then the end.
HelperProbe ==
  /\ helper = "up" /\ toWrite = << >> /\ toHelper # << >>
  /\ LET r == Head(toHelper)
         n == Len(Registry(Configs, "complete")) + Len(Registry(Configs, "embed"))
              + Len(Registry(Configs, "rerank"))
     IN  /\ r.req.modality = "probe"
         /\ toWrite' = Append([i \in 1..n |-> Line(r.id, "model", 1)],
                              Line(r.id, "registry_end", 1))
         /\ served' = Recorded(r.id, Entry(TRUE, {}, r.texts, << >>))
  /\ toHelper' = Tail(toHelper)
  /\ UNCHANGED <<call, toClient, helper, ledger, netResults, since>>

\* A request that is too long to read or does not decode ends serve, and with
\* it the process.
HelperRefuses ==
  /\ helper = "up" /\ toWrite = << >> /\ toHelper # << >>
  /\ Head(toHelper).req.modality # "probe"
  /\ Head(toHelper).long \/ ~ReadsBack(Head(toHelper).req.ceiling)
  /\ helper' = "down" /\ toHelper' = << >>
  /\ served' = Recorded(Head(toHelper).id, Entry(FALSE, {}, << >>, << >>))
  /\ UNCHANGED <<call, toWrite, toClient, ledger, netResults, since>>

HelperWrite ==
  /\ helper = "up" /\ toWrite # << >>
  /\ toClient' = Append(toClient, Head(toWrite)) /\ toWrite' = Tail(toWrite)
  /\ UNCHANGED <<call, toHelper, helper, ledger, served, netResults, since>>

\* The helper dies; what it wrote can still be read.
HelperDies ==
  /\ helper = "up" /\ call # NoCall
  /\ helper' = "down" /\ toHelper' = << >> /\ toWrite' = << >>
  /\ UNCHANGED <<call, toClient, ledger, served, netResults, since>>

-----------------------------------------------------------------------------
Model == {c.model : c \in ToSet(Registry(Configs, "complete"))}

NetNext ==
  \/ \E req \in NetRequests, texts \in Batches : \E long \in LineMayExceed(req, texts) :
       (texts = << >> \/ req.modality = "embed") /\ NetCall(req, texts, long)
  \/ \E healthy \in SUBSET Model, bad \in SUBSET Model,
        outcome \in {"lost", "context", "empty", "cut"}, reported \in Unreported..1, size \in 1..2 :
       HelperServe(healthy, [m \in Model |-> IF m \in bad THEN outcome ELSE "ok"],
                   reported, size)
  \/ HelperProbe \/ HelperRefuses \/ HelperWrite \/ HelperDies
  \/ ClientRead \/ ClientEof \/ Respawn

NetSpec == NetInit /\ [][NetNext]_netVars

-----------------------------------------------------------------------------
(* Properties.                                                             *)

\* Answers stay in step with calls (NetHelper): as long as no call has given
\* up on the pipe of this helper, what a call returns, result or error, is the
\* answer to its own request, whatever was streamed before it, and however the
\* calls to the helpers before it ended. After a call has given up, the next
\* one may read what is left of the answer to it, until the helper is replaced.
AnswersInStep ==
  \A i \in DOMAIN netResults :
    i > since /\ (\A j \in 1..i : j > since => ~netResults[j].broken) =>
      /\ netResults[i].of = netResults[i].id
      /\ netResults[i].id \in DOMAIN served => netResults[i].ok = served[netResults[i].id].ok

\* A batch that the helper can read at all arrives as it was sent (encode_texts,
\* encode_str and their inverses), except that each text is cut to
\* MAX_TEXT_BYTES without a sign of it, that texts past MAX_BATCH are dropped,
\* and that a batch of one empty text arrives as no text.
BatchSurvivesTheWire ==
  \A i \in DOMAIN toHelper :
    LET sent == Cut(toHelper[i].texts, MaxBatch)
    IN  ~toHelper[i].long =>
          OverTheWire(toHelper[i].texts) =
            IF sent = << << >> >> THEN << >> ELSE [k \in DOMAIN sent |-> Cut(sent[k], MaxText)]

\* The engine behind the pipe and the client before it agree: answers stay in
\* step with the calls until a call gives up on the pipe, and a batch of texts
\* that can be read arrives as it was sent, up to the protocol's bounds
\* (crustcore-net, crustcore-netproto).
PipeIsFaithful == AnswersInStep /\ BatchSurvivesTheWire

\* What this process has charged, call by call.
Charges ==
  [i \in 1..MaxCalls |->
     IF i \in DOMAIN served /\ served[i].charged # << >> THEN served[i].charged[1] ELSE 0]
Plus == [x \in Nat |-> [sum \in Nat |-> sum + x]]

\* What the engine serves and charges (complete_inner, account, accumulate):
\* the model that answered meets the ceiling of its request, so do all that
\* were tried before it, and the ledger of the process is exactly what it
\* answered, a failed request costing nothing.
RoutedAndCharged ==
  /\ ledger.requests = Cardinality({i \in DOMAIN served : served[i].charged # << >>})
  /\ ledger.cost = Scan(Plus, 0, Charges)
  /\ call # NoCall /\ call.id \in DOMAIN served =>
       \A c \in served[call.id].used :
         /\ Affordable(c, call.req)
         /\ call.req.localOnly /\ call.req.modality = "complete" => c.local

=============================================================================
