------------------------------- MODULE Hosted -------------------------------
(***************************************************************************)
(* The GitHub side of the daemon (daemon: webhook.rs, github_commands.rs,  *)
(* github.rs; crustcore-net: github.rs, githubapp.rs): signed webhook      *)
(* deliveries with their replay guard, commands in comments, the check on  *)
(* a push, the state of a pull request's checks and its repairs, and the   *)
(* App's short tokens. A delivery may reach the daemon again, and anyone   *)
(* may send a request that is not GitHub's.                                *)
(***************************************************************************)
EXTENDS Integers, Sequences, FiniteSets, SequencesExt, FiniteSetsExt

CONSTANTS
  Deliveries,    \* requests: [id, size, signed, post, lines]
  BodyMax,       \* MAX_WEBHOOK_BODY, in the units of a request's size
  GuardMax,      \* MAX_SEEN_DELIVERIES
  MaxReceived,   \* bound on requests received
  Argvs,         \* push command lines: sequences of tokens
  Prefix,        \* the branch prefix of the write capability
  Branches,      \* what the repository has, for a push that names no branch
  Jobs,          \* check runs of a pull request
  PageSize,      \* how many of them GitHub puts on one page
  MaxAttempts,   \* RepairBudget
  MintTimes,     \* our clock when a token is minted, in seconds
  Skews          \* GitHub's clock less ours, in seconds

ASSUME HostedAssumption ==
  /\ BodyMax \in Nat /\ GuardMax \in Nat \ {0} /\ MaxAttempts \in Nat
  /\ MintTimes \subseteq Nat /\ Skews \subseteq -30..30
  /\ \A req \in Deliveries : req.size \in Nat
  /\ \A argv \in Argvs : \A i \in DOMAIN argv : argv[i].is \in {"flag", "word"}

VARIABLES
  connection,   \* <<>> or <<request>>: read to its end, not yet served
  guard,        \* ReplayGuard: ids in order of arrival
  genuine,      \* history: ids of the authentic requests, oldest first
  taken,        \* history: for each, the how manyeth it was taken as, 0 when it was not
  accepted,     \* history: how many were taken
  commands,     \* history: actions asked for, with their delivery
  pushes,       \* branches the last push let through moves
  runs,         \* the pull request's checks: job -> state
  repairs,      \* repairs started for it
  polled,       \* the check runs the last poll read
  monitor,      \* what the last poll said
  tokens        \* App tokens minted: [iat, exp, now]

hostedVars == <<connection, guard, genuine, taken, accepted, commands, pushes, runs, repairs, polled, monitor, tokens>>

HostedInit ==
  /\ connection = <<>> /\ guard = <<>> /\ genuine = <<>> /\ taken = <<>> /\ accepted = 0 /\ commands = {}
  /\ pushes = {} /\ runs = <<>> /\ repairs = 0 /\ polled = <<>> /\ monitor = "none" /\ tokens = {}

(***************************************************************************)
(* Webhooks.                                                               *)
(***************************************************************************)
(* parse_http_webhook: a POST with headers and a body within the bound. *)
ParseHttp(req) == req.post /\ req.size <= BodyMax
SignatureOk(req) == req.signed

(* Bug: the guard is asked, and remembers, before the signature is checked. *)
VerifyGuardFirst(req) ==
  IF req.size > BodyMax THEN "too-large"
  ELSE IF req.id = "" THEN "empty"
  ELSE IF req.id \in Range(guard) THEN "replay"
  ELSE "remember"

Verify(req) ==
  IF req.size > BodyMax THEN "too-large"
  ELSE IF req.id = "" THEN "empty"
  ELSE IF req.id = "long" THEN "id-too-long"
  ELSE IF ~SignatureOk(req) THEN "bad-signature"
  ELSE IF req.id \in Range(guard) THEN "replay"
  ELSE "remember"
Remembered(id) == Append(IF Len(guard) >= GuardMax THEN Tail(guard) ELSE guard, id)

(* parse_command: the first line that is a /crustcore command, and only it. *)
IsCommandLine(line) == line.verb # "" /\ line.alone
ParseLine(line) ==
  CASE line.verb = "run" -> IF line.goal THEN "launch" ELSE "risk"
    [] line.verb \in {"retry", "cancel", "explain"} -> IF line.id THEN line.verb ELSE "risk"
    [] OTHER -> "risk"
ParseComment(lines) ==
  LET found == SelectSeq(lines, IsCommandLine)
  IN  IF found = <<>> THEN "none" ELSE ParseLine(found[1])
(* github_command_to_action; an explanation or a risk starts nothing. *)
ToAction(cmd) ==
  CASE cmd \in {"launch", "retry"} -> <<"launch">> [] cmd = "cancel" -> <<"cancel">> [] OTHER -> <<>>

Connect ==
  /\ connection = <<>> /\ Len(genuine) < MaxReceived
  /\ \E req \in Deliveries : connection' = <<req>>
  /\ UNCHANGED <<guard, genuine, taken, accepted, commands, pushes, runs, repairs, polled, monitor, tokens>>

(* serve_webhooks_once, then the command a comment carries. *)
Serve ==
  /\ connection # <<>>
  /\ LET req == connection[1]
         ok == ParseHttp(req) /\ Verify(req) = "remember"
         action == ToAction(ParseComment(req.lines))
     IN  /\ guard' = IF ok THEN Remembered(req.id) ELSE guard
         /\ IF ParseHttp(req) /\ SignatureOk(req) /\ req.id \notin {"", "long"}
            THEN /\ genuine' = Append(genuine, req.id)
                 /\ taken' = Append(taken, IF ok THEN accepted + 1 ELSE 0)
                 /\ accepted' = IF ok THEN accepted + 1 ELSE accepted
            ELSE UNCHANGED <<genuine, taken, accepted>>
         /\ commands' = commands \cup (IF ok /\ action # <<>> THEN {[of |-> req, act |-> action[1]]} ELSE {})
  /\ connection' = <<>> /\ UNCHANGED <<pushes, runs, repairs, polled, monitor, tokens>>

(***************************************************************************)
(* A push: the command line is taken apart once, and every ref checked.    *)
(* A token is a flag, or a refspec [force, src, dst] with dst a path.      *)
(***************************************************************************)
IsFlag(t) == t.is = "flag"
(* The first word that is no flag is the remote; the others are refspecs,
   named by their places.                                                  *)
AfterFirst(places) == {i \in places : \E j \in places : j < i}
ParsePushArgv(argv) ==
  [force |-> \E i \in DOMAIN argv : IsFlag(argv[i]) /\ argv[i].force,
   refs |-> AfterFirst({i \in DOMAIN argv : ~IsFlag(argv[i])})]
BranchUnderPrefix(branch) ==
  /\ \A i \in DOMAIN branch : branch[i] \notin {"..", "."}
  /\ Prefix # <<>> /\ IsPrefix(Prefix, branch)
(* Bug: only the first ref is looked at. *)
ValidatePushFirst(argv) ==
  LET req == ParsePushArgv(argv)
  IN  /\ ~req.force
      /\ \A i \in req.refs \ AfterFirst(req.refs) : ~argv[i].force /\ BranchUnderPrefix(argv[i].dst)

ValidatePush(argv) ==
  LET req == ParsePushArgv(argv)
  IN  /\ ~req.force
      /\ \A i \in req.refs :
           /\ ~argv[i].force
           /\ argv[i].dst \notin {<<"main">>, <<"master">>, <<"HEAD">>}
           /\ BranchUnderPrefix(argv[i].dst)
(* What git makes of the command line: the refs it names, and, when it     *)
(* names none or has a flag such as --all or --mirror, which are flags     *)
(* like any other to the parser, whatever git chooses, --mirror by force.  *)
Named(argv) ==
  LET forced == \E j \in DOMAIN argv : argv[j].is = "flag" /\ argv[j].force
  IN  {[at |-> argv[i].dst, named |-> TRUE, force |-> argv[i].force \/ forced] :
         i \in AfterFirst({j \in DOMAIN argv : argv[j].is = "word"})}
GitChooses(argv) == Named(argv) = {} \/ \E i \in DOMAIN argv : argv[i].is = "flag" /\ argv[i].all
Push(argv) ==
  /\ ValidatePush(argv)
  /\ \E chosen \in SUBSET [at : Branches, named : {FALSE}, force : BOOLEAN] :
       /\ chosen # {} => GitChooses(argv)
       /\ pushes' = Named(argv) \cup chosen
  /\ UNCHANGED <<connection, guard, genuine, taken, accepted, commands, runs, repairs, polled, monitor, tokens>>

(***************************************************************************)
(* Checks: the REST client's summary of the runs, and the monitor's        *)
(* answer to it within the repair budget.                                  *)
(***************************************************************************)
(* Bug: runs that have not finished are passed over. *)
AggregateFinished(rs) ==
  IF rs = {} THEN "pending" ELSE IF "failed" \in rs THEN "failed" ELSE "passed"

AggregateChecks(rs) ==
  IF rs = {} \/ "running" \in rs THEN "pending"
  ELSE IF "failed" \in rs THEN "failed" ELSE "passed"
RepairDecision(outcome, attempts) ==
  IF outcome = "passed" THEN "green" ELSE IF attempts < MaxAttempts THEN "repair" ELSE "exhausted"
MonitorDecision(state, attempts) ==
  IF state = "pending" THEN "wait" ELSE RepairDecision(state, attempts)

States(rs) == {rs[j] : j \in DOMAIN rs}
CiReports ==
  \E j \in Jobs, s \in {"running", "passed", "failed"} :
    /\ runs' = [k \in DOMAIN runs \cup {j} |-> IF k = j THEN s ELSE runs[k]]
    /\ monitor' = "none" /\ polled' = <<>>
    /\ UNCHANGED <<connection, guard, genuine, taken, accepted, commands, pushes, repairs, tokens>>
(* The one page that check_state asks for: all the runs, or as many of     *)
(* them as fit, in an order that is GitHub's.                              *)
Pages ==
  IF Cardinality(DOMAIN runs) <= PageSize THEN {DOMAIN runs}
  ELSE {page \in SUBSET DOMAIN runs : Cardinality(page) = PageSize}
(* A repair pushes a new head: its checks start again. *)
PollChecks ==
  /\ \E page \in Pages : polled' = [j \in page |-> runs[j]]
  /\ LET d == MonitorDecision(AggregateChecks(States(polled')), repairs)
     IN  /\ monitor' = d
         /\ IF d = "repair" THEN repairs' = repairs + 1 /\ runs' = [j \in DOMAIN runs |-> "running"]
            ELSE UNCHANGED <<repairs, runs>>
  /\ UNCHANGED <<connection, guard, genuine, taken, accepted, commands, pushes, tokens>>

(***************************************************************************)
(* mint_app_jwt: issued a little in the past, good for nine minutes; for   *)
(* GitHub it must not be issued ahead of its clock nor last over ten.      *)
(***************************************************************************)
JwtTtl == 540
JwtBackdate == 30
Monus(a, b) == IF a > b THEN a - b ELSE 0
MintJwt(now) == [iat |-> Monus(now, JwtBackdate), exp |-> Monus(now, JwtBackdate) + JwtTtl]
Mint ==
  /\ tokens = {}
  /\ \E now \in MintTimes, skew \in Skews :
       /\ now + skew >= 0
       /\ tokens' = {[jwt |-> MintJwt(now), theirs |-> now + skew]}
  /\ UNCHANGED <<connection, guard, genuine, taken, accepted, commands, pushes, runs, repairs, polled, monitor>>

HooksNext == Connect \/ Serve
PullsNext == CiReports \/ PollChecks \/ Mint \/ \E argv \in Argvs : Push(argv)
HostedSpec == HostedInit /\ [][HooksNext \/ PullsNext]_hostedVars

(***************************************************************************)
(* A delivery that is taken twice is taken more than GuardMax deliveries   *)
(* apart, and an authentic one is refused only when it was taken before,   *)
(* whatever forged, oversized or unnamed requests arrive in between: they  *)
(* neither use up an id nor push one out of the guard                      *)
(* (WebhookVerifier::verify, ReplayGuard::accept). A command of a comment  *)
(* comes from an authentic delivery only.                                  *)
(***************************************************************************)
DeliveredOnce ==
  /\ \A i \in DOMAIN genuine :
       /\ taken[i] # 0 => \A j \in 1..(i - 1) : genuine[j] = genuine[i] /\ taken[j] # 0 =>
                             taken[i] - taken[j] > GuardMax
       /\ taken[i] = 0 => \E j \in 1..(i - 1) : genuine[j] = genuine[i] /\ taken[j] # 0
  /\ \A c \in commands : SignatureOk(c.of)

(***************************************************************************)
(* Every branch that a push which was let through names is under the       *)
(* prefix and moved without force; what git chooses for a push that names  *)
(* none, or every one, passes unchecked. A pull request is called green    *)
(* only when every check on the page that was read passed, and they all    *)
(* were read where they fit on it; a repair is started only when a check   *)
(* that was read failed and none was still running, and no more repairs    *)
(* than the budget are ever started. GitHub's clock may be half a minute   *)
(* off ours either way and takes the App's token (validate_push,           *)
(* aggregate_checks, monitor_decision, mint_app_jwt).                      *)
(***************************************************************************)
HostedGatesHold ==
  /\ \A p \in pushes : p.named => IsPrefix(Prefix, p.at) /\ ~p.force
  /\ monitor = "green" =>
       /\ polled # <<>> /\ States(polled) = {"passed"}
       /\ Cardinality(DOMAIN runs) <= PageSize => polled = runs
  /\ monitor = "repair" => "failed" \in States(polled) /\ "running" \notin States(polled)
  /\ repairs <= MaxAttempts
  /\ \A t \in tokens : t.jwt.iat <= t.theirs /\ t.theirs < t.jwt.exp /\ t.jwt.exp - t.theirs <= 600

\* A delivery counts once and only when it is signed, and the branches a push
\* names, green pull requests, repairs and tokens passed their gates
\* (WebhookVerifier::verify, validate_push, aggregate_checks).
HostedIsGuarded == DeliveredOnce /\ HostedGatesHold

=============================================================================
