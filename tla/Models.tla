------------------------------- MODULE Models -------------------------------
(***************************************************************************)
(* How the network engine chooses and calls a model (crustcore-net lib.rs, *)
(* modality.rs, providers.rs, embed.rs, rerank.rs, config.rs): the live    *)
(* registry is filtered by the hard constraints of the request, ordered by *)
(* its role, cut to what the budget allows, and tried in order.            *)
(*                                                                         *)
(* A candidate is a card with its provider; cost is per unit of tokens.    *)
(***************************************************************************)
EXTENDS Integers, Sequences, SequencesExt, FiniteSets

Role == {"Advisor", "Implementation", "Review", "Research", "LocalFallback"}

\* Role::from_token: an unknown token is the implementation role.
FromToken(token) == IF token \in Role THEN token ELSE "Implementation"

\* parse_providers: a provider without a key is local. A provider without a
\* model is refused, so there is none.
Configured(cfg) ==
  [i \in DOMAIN cfg.models |->
     LET m == cfg.models[i]
     IN  [model |-> m.model, context |-> m.context, tools |-> m.tools, cost |-> m.cost,
          embeddings |-> m.embeddings, rerank |-> m.rerank, provider |-> cfg.id, kind |-> cfg.kind,
          local |-> cfg.kind = "openai" /\ ~cfg.secret]]

\* build_embed_providers, build_rerankers: the cards each modality is offered;
\* embeddings only from OpenAI-compatible endpoints.
ServesEmbeddings(cfg, card) == card.embeddings /\ cfg.kind = "openai"
ServesRerank(card) == card.rerank

\* The elements of a sequence at some indices, in their order.
Chosen(seq, at) ==
  LET upTo[n \in 0..Len(seq)] ==
        IF n = 0 THEN << >>
        ELSE IF n \in at THEN Append(upTo[n - 1], seq[n]) ELSE upTo[n - 1]
  IN  upTo[Len(seq)]

\* registry_indexed over the providers of one modality.
Offered(cfg, modality) ==
  LET cards == Configured(cfg)
  IN  Chosen(cards, {i \in DOMAIN cards :
                       CASE modality = "embed" -> ServesEmbeddings(cfg, cards[i])
                         [] modality = "rerank" -> ServesRerank(cards[i])
                         [] OTHER -> TRUE})
Registry(cfgs, modality) ==
  LET upTo[n \in 0..Len(cfgs)] ==
        IF n = 0 THEN << >> ELSE upTo[n - 1] \o Offered(cfgs[n], modality)
  IN  upTo[Len(cfgs)]

\* The stable sort: <<j, k>> \in before when the j-th goes before the k-th.
Placed(order, k, before) ==
  LET n == Cardinality({i \in DOMAIN order : <<k, order[i]>> \notin before})
  IN  SubSeq(order, 1, n) \o <<k>> \o SubSeq(order, n + 1, Len(order))
SortedBy(seq, before) ==
  LET order[k \in 0..Len(seq)] == IF k = 0 THEN << >> ELSE Placed(order[k - 1], k, before)
      sorted == order[Len(seq)]
  IN  [i \in DOMAIN sorted |-> seq[sorted[i]]]

\* What each role asks for first.
Prefers(role, a, b) ==
  CASE role \in {"Advisor", "Review"} ->
         a.context > b.context \/ (a.context = b.context /\ a.cost < b.cost)
    [] role = "Research" -> a.cost < b.cost
    [] role = "LocalFallback" ->
         (a.local /\ ~b.local) \/ (a.local = b.local /\ a.cost < b.cost)
    [] OTHER -> a.cost < b.cost \/ (a.cost = b.cost /\ a.context > b.context)

Preferred(role, seq) ==
  SortedBy(seq, {p \in (DOMAIN seq) \X (DOMAIN seq) : Prefers(role, seq[p[1]], seq[p[2]])})

SelectCandidates(registry, req, healthy) ==
  Preferred(req.role,
    Chosen(registry, {i \in DOMAIN registry :
                        LET c == registry[i]
                        IN  /\ c.model \in healthy
                            /\ req.tools => c.tools
                            /\ c.context >= req.minContext
                            /\ req.localOnly => c.local}))

\* The engines of the other modalities never ask for a dimension.
SelectCandidatesFor(modality, registry, req, healthy) ==
  Preferred(req.role,
    Chosen(registry, {i \in DOMAIN registry :
                        LET c == registry[i]
                        IN  /\ c.model \in healthy
                            /\ modality = "embed" => c.embeddings
                            /\ modality = "rerank" => c.rerank}))

\* est_cost_micros; a ceiling of 0 is no ceiling.
Affordable(c, req) == req.ceiling = 0 \/ c.cost * req.tokens <= req.ceiling

\* Bug: a ceiling nobody meets is ignored.
ApplyBudgetSoft(candidates, req) ==
  LET kept == Chosen(candidates, {i \in DOMAIN candidates : Affordable(candidates[i], req)})
  IN  IF kept = << >> THEN candidates ELSE kept

ApplyBudget(candidates, req) ==
  Chosen(candidates, {i \in DOMAIN candidates : Affordable(candidates[i], req)})

\* ensure_local_fallback: local models last, each group in its order.
EnsureLocalFallback(candidates) ==
  Chosen(candidates, {i \in DOMAIN candidates : ~candidates[i].local})
  \o Chosen(candidates, {i \in DOMAIN candidates : candidates[i].local})

\* The candidates a request is tried on: complete_inner, EmbedEngine::embed and
\* RerankEngine::rerank. << >> stands for the routing errors.
PlanComplete(cfgs, req, healthy) ==
  LET kept == ApplyBudget(SelectCandidates(Registry(cfgs, "complete"), req, healthy), req)
  IN  IF req.lastResort THEN EnsureLocalFallback(kept) ELSE kept
PlanEmbed(cfgs, req, healthy) ==
  ApplyBudget(SelectCandidatesFor("embed", Registry(cfgs, "embed"), req, healthy), req)
PlanRerank(cfgs, req, healthy) ==
  ApplyBudget(SelectCandidatesFor("rerank", Registry(cfgs, "rerank"), req, healthy), req)
Plan(cfgs, req, healthy) ==
  CASE req.modality = "embed" -> PlanEmbed(cfgs, req, healthy)
    [] req.modality = "rerank" -> PlanRerank(cfgs, req, healthy)
    [] OTHER -> PlanComplete(cfgs, req, healthy)

\* What one provider does with a request. "lost" is a transport error before
\* the answer, "cut" a connection that ends inside a successful one.
Outcome == {"ok", "cut", "lost", "busy", "context", "refused", "empty"}

\* What reaches a provider: post_lines passes the lines of a success status on
\* as they come and takes a stream that breaks off for a complete one; a body
\* that is read whole is an error when it breaks off.
PostLines(outcome) ==
  CASE outcome = "lost" -> "transport error"
    [] outcome \in {"ok", "cut", "empty"} -> "success"
    [] OTHER -> "status error"
PostJson(outcome) ==
  IF outcome = "cut" THEN "transport error" ELSE PostLines(outcome)

\* A score is a natural number, or not finite.
NotFinite == -1

\* sanitize_ranking: the first MaxDocs results, each index once and in range,
\* non-finite scores as 0, best first.
SanitizeRanking(raw, docs, maxDocs) ==
  LET taken == SubSeq(raw, 1, IF Len(raw) < maxDocs THEN Len(raw) ELSE maxDocs)
      kept == FoldLeft(LAMBDA acc, r :
                IF r.index \notin 0..(docs - 1) \/ \E i \in DOMAIN acc : acc[i].index = r.index
                  THEN acc
                ELSE Append(acc, [index |-> r.index,
                                  score |-> IF r.score = NotFinite THEN 0 ELSE r.score]),
                << >>, taken)
  IN  SortedBy(kept, {p \in (DOMAIN kept) \X (DOMAIN kept) : kept[p[1]].score > kept[p[2]].score})

\* The ranking of two documents that a provider sends: what is usable of it may
\* be nothing.
RawRanking(outcome) ==
  IF outcome = "empty" THEN <<[index |-> 7, score |-> 1]>>
  ELSE <<[index |-> 0, score |-> NotFinite], [index |-> 1, score |-> 1], [index |-> 0, score |-> 2]>>

\* Both completion providers pass text on from a success only; an answer
\* without text is an answer.
OpenAiCompletes(outcome) == PostLines(outcome) = "success"
AnthropicCompletes(outcome) == PostLines(outcome) = "success"
\* An answer without vectors, or without a usable ranking, is an error.
EmbedAnswers(outcome) == PostJson(outcome) = "success" /\ outcome # "empty"
RerankAnswers(outcome) ==
  PostJson(outcome) = "success" /\ SanitizeRanking(RawRanking(outcome), 2, 2) # << >>

Succeeds(outcome, modality) ==
  CASE modality = "embed" -> EmbedAnswers(outcome)
    [] modality = "rerank" -> RerankAnswers(outcome)
    [] OTHER -> OpenAiCompletes(outcome) /\ AnthropicCompletes(outcome)

\* Usage a provider may leave out of its answer.
Unreported == -1

\* What an answer costs, at the price of its card. Tokens that were not
\* reported are estimated, at least one. Embeddings and rankings take a report
\* of none for no report, and so does an Anthropic completion with text; an
\* OpenAI completion that reports none is free.
ChargeFor(card, modality, outcome, reported) ==
  LET estimated == \/ reported = Unreported
                   \/ /\ reported = 0
                      /\ modality = "complete" => card.kind = "anthropic" /\ outcome # "empty"
  IN  card.cost * (IF estimated THEN 1 ELSE reported)

\* run_reliable: the first candidate that succeeds; the others before it are
\* the fallback path.
FirstThatSucceeds(candidates, outcomes, modality) ==
  LET hits == {i \in DOMAIN candidates : Succeeds(outcomes[candidates[i].model], modality)}
  IN  IF hits = {} THEN 0 ELSE CHOOSE i \in hits : \A j \in hits : i <= j

=============================================================================
