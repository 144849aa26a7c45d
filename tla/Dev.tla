-------------------------------- MODULE Dev --------------------------------
(***************************************************************************)
(* The development server (crustcore-dev): its configuration, the route    *)
(* gate every request passes, the one route that resolves an approval, the *)
(* list of approvals it shows, and the stream of snapshots. The approvals  *)
(* themselves live in the daemon's ApprovalEngine. Requests are whatever a *)
(* client sends; each is handled under the backend's mutex, so one request *)
(* and one tick of the stream are a step each.                             *)
(***************************************************************************)
EXTENDS Naturals, Sequences, FiniteSets

CONSTANTS
  ApprovalIds,    \* approval ids the agent asks under
  DevTtls,        \* for how many seconds an approval can be asked
  Operations,     \* operations to approve; an operation stands for its hash
  Bodies,         \* bodies of POST /approvals/resolve: sequences of <<name, value>>
  Approving,      \* those of them sent without the token, from afar or too long as well
  SnapshotMax,    \* MAX_SNAPSHOT_APPROVALS
  MaxAsked,       \* bound on approvals requested
  MaxNow,         \* bound on the clock
  MaxLogged       \* bound on frames of the log

ASSUME DevAssumption == DevTtls \subseteq Nat

VARIABLES
  devConf,      \* DevConfig: [host, mutation, off], whether the backend's chat is
                \* allowlisted, and up once the server listens
  devEngine,    \* ApprovalEngine.pending: approval id -> [op, expires]
  devShown,     \* MockDevBackend.pending: the approvals surfaced, each row under the number
                \* of the request that pushed it, so that rows are in the order of their numbers
  devAsked,     \* approvals requested so far
  devNow,       \* the backend's clock
  devFrames,    \* RunInspectorView.total_frames
  devLast,      \* the last response: its status, and what it granted [id, auth, loopback, op, was]
  devStream     \* <<>> or <<[cursor, sent]>>: an open stream and its last snapshot

devVars == <<devConf, devEngine, devShown, devAsked, devNow, devFrames, devLast, devStream>>

NoRequest == [method |-> "GET", path |-> "/", auth |-> "none", loopback |-> TRUE, fits |-> TRUE, body |-> <<>>]
NoResponse == [status |-> 0, granted |-> <<>>]
DevInit ==
  /\ devConf = [host |-> "loopback", mutation |-> FALSE, chat |-> FALSE, off |-> FALSE, up |-> FALSE]
  /\ devEngine = <<>> /\ devShown = <<>> /\ devAsked = 0 /\ devNow = 0 /\ devFrames = 0
  /\ devLast = NoResponse /\ devStream = <<>>

(***************************************************************************)
(* Configuration, before the server listens.                               *)
(***************************************************************************)
BindHost(host, acknowledged) ==
  /\ ~devConf.up
  /\ host = "loopback" \/ acknowledged
  /\ devConf' = [devConf EXCEPT !.host = host, !.off = host # "loopback"]
  /\ UNCHANGED <<devEngine, devShown, devAsked, devNow, devFrames, devLast, devStream>>
EnableMutation ==
  /\ ~devConf.up /\ devConf' = [devConf EXCEPT !.mutation = TRUE]
  /\ UNCHANGED <<devEngine, devShown, devAsked, devNow, devFrames, devLast, devStream>>
AllowChat ==
  /\ ~devConf.up /\ devConf' = [devConf EXCEPT !.chat = TRUE]
  /\ UNCHANGED <<devEngine, devShown, devAsked, devNow, devFrames, devLast, devStream>>
ServeDev ==
  /\ ~devConf.up /\ devConf' = [devConf EXCEPT !.up = TRUE]
  /\ UNCHANGED <<devEngine, devShown, devAsked, devNow, devFrames, devLast, devStream>>

(***************************************************************************)
(* The agent's side: an approval asked for again under its id replaces the *)
(* engine's, and is one more row of the list shown.                        *)
(***************************************************************************)
RequestApproval(id, op, ttl) ==
  /\ devConf.up /\ devAsked < MaxAsked
  /\ devEngine' = [i \in DOMAIN devEngine \cup {id} |->
                     IF i = id THEN [op |-> op, expires |-> devNow + ttl] ELSE devEngine[i]]
  /\ devShown' = [n \in DOMAIN devShown \cup {devAsked + 1} |->
                    IF n = devAsked + 1 THEN [id |-> id, op |-> op, expires |-> devNow + ttl] ELSE devShown[n]]
  /\ devAsked' = devAsked + 1 /\ devLast' = NoResponse
  /\ UNCHANGED <<devConf, devNow, devFrames, devStream>>
LogFrame ==
  /\ devConf.up /\ devFrames < MaxLogged /\ devFrames' = devFrames + 1
  /\ devLast' = NoResponse /\ UNCHANGED <<devConf, devEngine, devShown, devAsked, devNow, devStream>>
DevTick ==
  /\ devConf.up /\ devNow < MaxNow /\ devNow' = devNow + 1
  /\ devLast' = NoResponse /\ UNCHANGED <<devConf, devEngine, devShown, devAsked, devFrames, devStream>>

(***************************************************************************)
(* A request: bounded, authenticated, from loopback, then classified.      *)
(***************************************************************************)
(* Bug: a token is taken for any scheme. *)
AuthenticateAny(auth) == IF auth = "none" THEN "MissingToken" ELSE "Authorized"
Authenticate(auth) ==
  CASE auth \in {"none", "basic"}                 -> "MissingToken"
    [] auth = "bearer-right"                      -> "Authorized"
    [] auth \notin {"none", "basic", "bearer-right"} -> "BadToken"

DevRoutes ==
  [p \in {"/", "/ws", "/cockpit", "/approvals", "/approvals/resolve"} |->
     IF p = "/approvals/resolve" THEN "Mutating" ELSE "ReadOnly"]
Lookup(method, path) ==
  IF path \in DOMAIN DevRoutes /\ method = (IF DevRoutes[path] = "Mutating" THEN "POST" ELSE "GET")
  THEN <<DevRoutes[path]>> ELSE <<>>

(* ApprovalDispatch::parse: the last field of each name counts, except that
   a hash that is no hash is passed over.                                  *)
LastOf(body, name, Counts(_)) ==
  LET at == {i \in DOMAIN body : body[i][1] = name /\ Counts(body[i][2])}
  IN  IF at = {} THEN <<>> ELSE <<body[CHOOSE i \in at : \A j \in at : j <= i][2]>>
ParseDispatch(body) ==
  LET id == LastOf(body, "approval_id", LAMBDA v : TRUE)
      decision == LastOf(body, "decision", LAMBDA v : TRUE)
      hash == LastOf(body, "op_hash", LAMBDA v : v \in Operations)
  IN  IF id = <<>> \/ id = <<"NaN">> \/ decision \notin {<<"approve">>, <<"deny">>}
      THEN [error |-> "MalformedResolution"]
      ELSE IF hash = <<>> THEN [error |-> "BadOpHash"]
      ELSE [error |-> "", id |-> id[1], approve |-> decision = <<"approve">>, op |-> hash[1]]

(* ApprovalEngine::resolve, for the backend's chat. *)
EngineOutcome(d) ==
  IF ~devConf.chat THEN "RejectedNotAllowlisted"
  ELSE IF d.id \notin DOMAIN devEngine THEN "RejectedUnknownNonce"
  ELSE IF devNow > devEngine[d.id].expires THEN "RejectedExpired"
  ELSE IF d.op # devEngine[d.id].op THEN "RejectedOpMismatch"
  ELSE IF d.approve THEN "Approved" ELSE "Denied"
EngineAfter(d) ==
  IF EngineOutcome(d) \in {"RejectedNotAllowlisted", "RejectedOpMismatch"} THEN devEngine
  ELSE [i \in DOMAIN devEngine \ {d.id} |-> devEngine[i]]
(* Bug: the row stays on the list. *)
DispatchResolutionKept(d) == devEngine' = EngineAfter(d) /\ UNCHANGED devShown
DispatchResolution(d) ==
  /\ devEngine' = EngineAfter(d)
  /\ devShown' = [n \in {m \in DOMAIN devShown : devShown[m].id # d.id} |-> devShown[n]]

FirstRows(n) ==
  [m \in {k \in DOMAIN devShown : Cardinality({j \in DOMAIN devShown : j <= k}) <= n} |-> devShown[m]]
Rows == Cardinality(DOMAIN devShown)
Respond(status) == devLast' = [NoResponse EXCEPT !.status = status]
Granted(req, d) ==
  IF EngineOutcome(d) = "Approved" THEN <<[id |-> d.id, auth |-> req.auth, loopback |-> req.loopback, op |-> d.op, was |-> devEngine[d.id]]>> ELSE <<>>
(* Bug: the gate's own check is missing. *)
HandleMutateOpen(req) ==
  LET d == ParseDispatch(req.body)
  IN  IF d.error # "" THEN Respond(400) /\ UNCHANGED <<devEngine, devShown>>
      ELSE /\ DispatchResolution(d)
           /\ devLast' = [status |-> 200, granted |-> Granted(req, d)]
HandleMutate(req) ==
  LET d == ParseDispatch(req.body)
  IN  \/ /\ d.error # ""
         /\ Respond(400) /\ UNCHANGED <<devEngine, devShown>>
      \/ /\ d.error = "" /\ ~devConf.mutation
         /\ Respond(403) /\ UNCHANGED <<devEngine, devShown>>
      \/ /\ d.error = "" /\ devConf.mutation
         /\ DispatchResolution(d)
         /\ devLast' = [status  |-> IF EngineOutcome(d) \in {"Approved", "Denied"} THEN 200 ELSE 409,
                        granted |-> Granted(req, d)]
HandleRead ==
  Respond(200) /\ UNCHANGED <<devEngine, devShown>>
(* Method::parse and the bounds of DevRequest::new on path, headers, query and body. *)
Built(req) == req.method \in {"GET", "POST"} /\ req.fits
Refusal(req) ==
  IF ~Built(req) THEN <<400>>
  ELSE IF Authenticate(req.auth) # "Authorized" THEN <<401>>
  ELSE IF ~req.loopback THEN <<403>>
  ELSE IF Lookup(req.method, req.path) = <<>> THEN <<404>>
  ELSE <<>>
Handle(req) ==
  /\ devConf.up
  /\ \/ Refusal(req) # <<>> /\ Respond(Refusal(req)[1]) /\ UNCHANGED <<devEngine, devShown>>
     \/ Refusal(req) = <<>> /\ Lookup(req.method, req.path) = <<"ReadOnly">> /\ HandleRead
     \/ Refusal(req) = <<>> /\ Lookup(req.method, req.path) = <<"Mutating">> /\ HandleMutate(req)
  /\ UNCHANGED <<devConf, devAsked, devNow, devFrames, devStream>>

(***************************************************************************)
(* The stream of snapshots: admitted by the same gate, then ticking.       *)
(***************************************************************************)
StartCursor == [frames |-> 0, pending |-> 0, seq |-> 0]
OpenStream(req) ==
  /\ devConf.up /\ req.path = "/ws" /\ Refusal(req) = <<>>
  /\ devStream' = <<[cursor |-> StartCursor, sent |-> <<>>]>>
  /\ Respond(200) /\ UNCHANGED <<devConf, devEngine, devShown, devAsked, devNow, devFrames>>
SnapshotNow == [frames |-> devFrames, approvals |-> FirstRows(SnapshotMax), pending |-> Rows]
(* Only whether seq is still zero is told apart: it stops at 1. *)
NextSnapshot(s) ==
  IF s.cursor.seq = 0 \/ devFrames # s.cursor.frames \/ Rows # s.cursor.pending
  THEN [cursor |-> [frames |-> devFrames, pending |-> Rows, seq |-> 1],
        sent |-> <<SnapshotNow>>]
  ELSE s
StreamTick ==
  /\ devStream # <<>> /\ devStream' = <<NextSnapshot(devStream[1])>>
  /\ devLast' = NoResponse
  /\ UNCHANGED <<devConf, devEngine, devShown, devAsked, devNow, devFrames>>

DevRequests ==
  LET Get(p) == [NoRequest EXCEPT !.auth = "bearer-right", !.path = p]
      Post(b) == [Get("/approvals/resolve") EXCEPT !.method = "POST", !.body = b]
      asked == {Get(p) : p \in {"/ws", "/cockpit", "/approvals", "/nowhere"}} \cup {Post(b) : b \in Bodies}
      tried == {Get("/ws")} \cup {Post(b) : b \in Approving}
  IN  asked \cup {[Get("/cockpit") EXCEPT !.method = "PUT"]} \cup {[r EXCEPT !.auth = a] : r \in tried, a \in {"none", "basic", "bearer-wrong"}}
            \cup {[r EXCEPT !.loopback = FALSE] : r \in tried} \cup {[r EXCEPT !.fits = FALSE] : r \in tried}
DevNext ==
  \/ \E host \in {"loopback", "public"}, ack \in BOOLEAN : BindHost(host, ack)
  \/ EnableMutation \/ AllowChat \/ ServeDev
  \/ \E id \in ApprovalIds, op \in Operations, ttl \in DevTtls : RequestApproval(id, op, ttl)
  \/ LogFrame \/ DevTick \/ StreamTick
  \/ \E req \in DevRequests : Handle(req) \/ OpenStream(req)

DevSpec == DevInit /\ [][DevNext]_devVars

(***************************************************************************)
(* An approval is granted only to an authenticated request from this       *)
(* machine, on a server started with mutation enabled, for the very        *)
(* operation the engine held under that id, before it ran out (route,      *)
(* MutationGate::dispatch, ApprovalEngine::resolve); and a row of the list *)
(* is never dead: its id is still pending, for the operation of the newest *)
(* row with that id (dispatch_resolution, request_approval).               *)
(***************************************************************************)
DevGrantsWhatItShows ==
  /\ devLast.granted # <<>> =>
       LET g == devLast.granted[1]
       IN  /\ g.auth = "bearer-right" /\ g.loopback /\ devConf.mutation /\ devConf.chat
           /\ devNow <= g.was.expires
           /\ g.op = g.was.op
           /\ g.id \notin DOMAIN devEngine
  /\ \A i \in DOMAIN devShown :
       /\ devShown[i].id \in DOMAIN devEngine
       /\ (\A j \in DOMAIN devShown : j > i => devShown[j].id # devShown[i].id)
            => devEngine[devShown[i].id].op = devShown[i].op
  /\ devLast.status # 200 => devLast.granted = <<>>

=============================================================================
