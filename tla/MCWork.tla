------------------------------ MODULE MCWork -------------------------------
(***************************************************************************)
(* What a task is planned, run and recorded with: the planner and the      *)
(* lanes, the model engine behind its pipe, confined commands, secrets,    *)
(* the single-run CLI, receipts and path confinement. They meet only at    *)
(* the values they pass, so a behaviour exercises one of them: part.       *)
(***************************************************************************)
EXTENDS Planner, Fleet, NetPipe, Confined, Secrets, Nano, Paths

VARIABLE part

(* The planner and the fleet. *)
MCLines ==
  {[form |-> "item", indented |-> TRUE, key |-> "", value |-> v] :
     v \in {"npm run lint", "Codex", ""}}
  \cup {[form |-> "section", indented |-> FALSE, key |-> k, value |-> ""] :
          k \in Sections \cup {"verfy"}}
  \cup {[form |-> "scalar", indented |-> i, key |-> kv[1], value |-> kv[2]] :
          i \in BOOLEAN,
          kv \in {<<"risk_tier", "High">>, <<"risk_tier", "huge">>,
                  <<"verify", "cargo xtask verify">>, <<"policy_mode", "ReadOnly">>,
                  <<"open_draft_pr", "false">>, <<"cockpit", "false">>,
                  <<"repair_attempts", "9">>, <<"repair_attempts", "999">>,
                  <<"labels", "x">>, <<"executors", "Codex">>}}
MCTrees ==
  {[p \in {"a", "a/d", "a/e", "b"} |->
      CASE p = "a" -> t[1] [] p = "a/d" -> t[2] [] p = "a/e" -> t[3] [] OTHER -> t[4]] :
     t \in {"dir", "Cargo.toml"} \X {"none", "dir", "Cargo.toml", "ignored"} \X {"Cargo.lock", "unsafe"}
           \X {"none", "deny.toml", "playwright.config.ts", "symlink", "dir", "book.toml"}}
MCChanges ==
  {<<p>> : p \in {"", "src/lib.rs", "ui/app.test.tsx", "docs/policy.md"}}
  \cup {<<"docs/guide.md", "Cargo.toml">>, <<"docs/guide.md", "tests/test_api.py">>,
        <<"a b/lib.rs", "crates/crustcore-kernel/src/kernel.rs">>}
MCFleetChanges ==
  {<<"src/lib.rs">>, <<"Cargo.toml">>, <<".github/workflows/ci.yml", "docs/guide.md">>}
MCCycleChanges ==
  {<<"src/lib.rs">>, <<"src/lib.rs", "./DOCS//policy.md/">>, <<"fuzz/Cargo.lock">>}
MCBudget == [x \in Axis |-> 1]
MCUses ==
  {NoUse, [NoUse EXCEPT !["Wall"] = 1, !["Tokens"] = 1], [NoUse EXCEPT !["Output"] = 2]}
Eval(k, r) == [kind |-> k, result |-> r]
MCEvalRuns ==
  {<<Eval("Demonstrates", x), Eval("GuardsRegression", y)>> :
     x \in {"verified", "failed"}, y \in {"verified", "failed", "error"}}

(* The engine and its pipe. *)
MCConfigs ==
  <<[id |-> "remote", kind |-> "openai", secret |-> TRUE, models |->
       <<[model |-> "strong", context |-> 2, tools |-> TRUE, cost |-> 2,
          embeddings |-> FALSE, rerank |-> TRUE]>>],
    [id |-> "local", kind |-> "openai", secret |-> FALSE, models |->
       <<[model |-> "small", context |-> 1, tools |-> FALSE, cost |-> 0,
          embeddings |-> TRUE, rerank |-> FALSE]>>]>>

Ask(modality, role, ceiling, localOnly) ==
  [modality |-> modality, role |-> role, tools |-> localOnly, minContext |-> 1,
   localOnly |-> localOnly, ceiling |-> ceiling, tokens |-> 1,
   stream |-> modality = "complete" /\ role = "Advisor", lastResort |-> role = "LocalFallback"]
MCNetRequests ==
  {Ask("probe", "Advisor", 0, FALSE), Ask("complete", "Advisor", 0, FALSE),
   Ask("complete", "Research", 1, FALSE), Ask("complete", "LocalFallback", 0, TRUE),
   Ask("complete", "Implementation", MaxInt + 1, FALSE), Ask("embed", "Research", 1, FALSE),
   Ask("rerank", "Review", 1, FALSE), Ask("rerank", "Review", 2, FALSE)}
MCBatches ==
  {<< >>, << << >> >>, <<<<Slash>>, <<LF, Quote>>>>, <<<<LF>>, <<Slash, "n">>, <<"x">>>>,
   <<<<"x", Quote, Slash>>>>, <<<<LF, LF, LF>>, <<"x">>>>}
(* Commands and secrets. *)
MCEnv ==
  {[n \in {"LD_PRELOAD", "GIT_DIR", "API_KEY", "PATH", "HOME"} |->
      CASE n = "PATH" -> <<"outside", pv>> [] n = "HOME" -> <<hv>> [] OTHER -> <<"nul">>] :
     pv \in {"outside", "inside", "relative"}, hv \in {"outside", "inside"}}
  \cup {[n \in {"LANG"} |-> <<"nul">>]}
MCAsk(tier, network, cap, cwd, env) ==
  [tier |-> tier, network |-> network, cap |-> cap, profile |-> 1, cwd |-> cwd,
   stdin |-> cwd, env |-> env]
MCCommands ==
  {MCAsk(t, "DenyAll", 1, TRUE, e) : t \in {"StructuredHost", "Sandboxed", "Hostile"}, e \in MCEnv}
  \cup {MCAsk("Sandboxed", n, c, w, [x \in {} |-> 0]) : n \in {"DenyAll", "Allowlist"}, c \in {1, 2}, w \in BOOLEAN}
MCHosts ==
  {{"kill"}, {"bubblewrap", "kill"}, {"seatbelt", "firecracker", "kill"}, {"seatbelt"}, {"windows"},
   {"firecracker", "bubblewrap"}}
Secret(v, w) == <<[id |-> 1, label |-> "l", value |-> v], [id |-> 2, label |-> "m", value |-> w]>>
MCSymbols == {"a", "b", "c", "nl"}
MCEntries ==
  {Secret(<<"a", "b">>, <<"a", "c", "c">>), Secret(<<"a", "b", "a">>, <<"c">>),
   Secret(<<"a", "b", "c">>, <<"b">>),
   <<[id |-> 1, label |-> "long", value |-> <<"a">>]>>,
   <<[id |-> 1, label |-> "l", value |-> <<"c", "a">>], [id |-> 1, label |-> "l", value |-> <<>>]>>}
MCTokens == {<<x>> : x \in {"a", "b", "c", "nl"}} \cup {<<"c", "a">>}
(* Receipts and paths. *)
MCCalls == {[tool |-> "verify", artifacts |-> a] : a \in {<<>>, <<1, 2>>}}
MCFileNames == {"w", "o", "f", "g", "d", "e", ".git", ".", "..", "/"}
MCLocations ==
  {<<"w">>, <<"o">>, <<"o", "f">>, <<"o", "g">>, <<"w", ".git">>, <<"w", ".git", "f">>,
   <<"w", "d">>, <<"w", "d", "f">>, <<"w", "d", "e">>, <<"w", "d", "e", "f">>, <<"w", "f">>}
MCLinks == {<<"o">>, <<"o", "f">>, <<"o", "g">>, <<"w", ".git">>, <<"w", "d">>, <<"w", "f">>}
MCRequests ==
  {<<"d", "f">>, <<"d", "e", "f">>, <<"f">>, <<"..", "o", "f">>, <<"d", "..", "f">>,
   <<"d", "..", "..", "o", "f">>, <<".git", "f">>, <<"/", "o", "f">>, <<".">>}
Init ==
  /\ part \in {"planner", "fleet", "engine", "confined", "secrets", "nano", "receipts", "paths"}
  /\ PlannerInit /\ FleetInit /\ NetInit /\ ConfinedInit /\ SecretsInit /\ NanoInit /\ ReceiptsInit /\ PathsInit
Next ==
  \/ /\ part = "planner" /\ PlannerNext
     /\ UNCHANGED <<part, fleetVars, netVars, confinedVars, secretVars, nanoVars, receiptVars, pathVars>>
  \/ /\ part = "fleet" /\ FleetNext
     /\ UNCHANGED <<part, plannerVars, netVars, confinedVars, secretVars, nanoVars, receiptVars, pathVars>>
  \/ /\ part = "engine" /\ NetNext
     /\ UNCHANGED <<part, plannerVars, fleetVars, confinedVars, secretVars, nanoVars, receiptVars, pathVars>>
  \/ /\ part = "confined" /\ ConfinedNext
     /\ UNCHANGED <<part, plannerVars, fleetVars, netVars, secretVars, nanoVars, receiptVars, pathVars>>
  \/ /\ part = "secrets" /\ SecretsNext
     /\ UNCHANGED <<part, plannerVars, fleetVars, netVars, confinedVars, nanoVars, receiptVars, pathVars>>
  \/ /\ part = "nano" /\ NanoNext
     /\ UNCHANGED <<part, plannerVars, fleetVars, netVars, confinedVars, secretVars, receiptVars, pathVars>>
  \/ /\ part = "receipts" /\ ReceiptsNext
     /\ UNCHANGED <<part, plannerVars, fleetVars, netVars, confinedVars, secretVars, nanoVars, pathVars>>
  \/ /\ part = "paths" /\ PathsNext
     /\ UNCHANGED <<part, plannerVars, fleetVars, netVars, confinedVars, secretVars, nanoVars, receiptVars>>
Spec ==
  /\ Init
  /\ [][Next]_<<part, plannerVars, fleetVars, netVars, confinedVars, secretVars, nanoVars, receiptVars, pathVars>>
  /\ ConfinedFairness
=============================================================================
