\* Telegram, GitHub, flows, sessions, MCP, memory and the development server, one per behaviour.
SPECIFICATION Spec
CONSTANTS
  MaxUpdates = 5  Dropped = {2, 3}  BatchLimit = 2  DedupeWindow = 2  MaxRestarts = 2
  Chats = {c1, c2}  Allowed = {c1}  Texts <- MCTexts  Replies <- MCReplies
  HashLen = 64  FieldMax = 64  QueueMax = 1  Ttl = 1  MaxTime = 2  MaxIds = 2
  Deliveries <- MCDeliveries  BodyMax = 1  GuardMax = 2  MaxReceived = 5
  Argvs <- MCArgvs  Prefix <- MCPrefix  Branches <- MCBranches  Jobs = {j1, j2}  PageSize = 1  MaxAttempts = 2  MintTimes = {0, 10, 1000}  Skews <- MCSkews
  Plans <- MCPlans  CallCosts = {1, 2}
  Appended <- MCAppended  MaxFrames = 3  Policies <- MCPolicies
  TurnsMax = 2  BytesMax = 4  TurnMax = 2  Sessions = {1, 2}
  McpRecords <- MCRecords  McpCalls <- MCMcpCalls  Listings <- MCListings
  McpReplies <- MCMcpReplies  Outputs <- MCOutputs  SummaryMax = 2  MaxMcpCalls = 2
  MemKeys = {"x", "y"}  MaxMemories = 3  EntriesMax = 2
  Vectors <- MCVectors  Dim = 2  Planes <- MCPlanes  AnnMax = 3
  Spaces = {"a", "b"}  Queries <- MCQueries  Floors <- MCFloors  Trees <- MCTrees  KMax = 2  HitsMax = 4  SpacesMax = 1  PerSpaceMax = 3  Forgeries <- MCForgeries
  ChunksMax = 2  FragmentsMax = 2  FragmentMax = 2  BundleMax = 3  MaxIndexed = 4
  Files <- MCFiles  SymbolSets <- MCSymbols  MaxChunk = 3  Targets = {0, 2, 5}  Overlaps = {0, 1, 2}  PerFile = 7
  ApprovalIds = {"1", "2"}  Operations = {"push", "merge"}  Bodies <- MCBodies  Approving <- MCApproving
  DevTtls = {0}
  SnapshotMax = 1  MaxAsked = 2  MaxNow = 1  MaxLogged = 1
INVARIANTS
  PollerLosesNothing
  ConversationIsFaithful
  
  FlowsEndHonestly
  SessionsAreFaithful
  McpIsGuarded
  RetrievalIsFaithful
  DevGrantsWhatItShows
PROPERTIES
  EveryUpdateDispatched
  FlowsEnd
CHECK_DEADLOCK FALSE
