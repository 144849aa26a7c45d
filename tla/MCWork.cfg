\* The planner, the lanes, the engine, commands, secrets and records, one per behaviour.
SPECIFICATION Spec
CONSTANTS
  ProfileLines <- MCLines
  MaxLines = 2
  MaxVerify = 1  MaxExecutors = 1  MaxLabels = 2
  Trees <- MCTrees
  MaxDepth = 1  MaxPaths = 3
  Changes <- MCChanges
  MaxExport = 1  MaxCommands = 2
  Agent = {"Native", "Codex"}
  FleetChanges <- MCFleetChanges  CycleChanges <- MCCycleChanges  EvalRuns <- MCEvalRuns
  Budget <- MCBudget  Uses <- MCUses
  MaxRunning = 1  MinBudget = 2  MaxFanout = 2
  MaxWait = 1  MaxVerdicts = 2  MaxConsults = 1  MaxRuns = 2
  Chars = {"quote", "backslash", "linefeed", "n", "x"}  MaxInt = 2  MaxBatch = 2  MaxText = 2  MaxLine = 11
  Configs <- MCConfigs  NetRequests <- MCNetRequests  Batches <- MCBatches
  MaxModels = 4  MaxStream = 2  MaxCalls = 2
  Commands <- MCCommands  Hosts <- MCHosts
  ListedEnv = {"LD_PRELOAD"}  PrefixedEnv = {"GIT_DIR"}  SecretEnv = {"API_KEY"}
  PathListEnv = {"PATH"}  HomeEnv = {"HOME"}
  MaxOutput = 1  MaxWritten = 2
  Symbols <- MCSymbols  Entries <- MCEntries  LongLabel = {"long"}  Tokens <- MCTokens
  MaxBuffer = 2  MaxSaid = 4  Ttl = 1  MaxNow = 1
  Proc = {p1, p2}
  Chain = {x1, x2}  Calls <- MCCalls  MaxArtifacts = 1  MaxMinted = 2
  FileNames <- MCFileNames  Locations <- MCLocations  Links <- MCLinks  Requests <- MCRequests  MaxHops = 2  MaxChanges = 2
INVARIANTS
  PlannerIsHonest
  ReadyIsReviewed
  FleetIsBounded
  RoutedAndCharged
  PipeIsFaithful
  CommandsAreConfined
  NoSecretIsShown
  RecordsAreSound
  ToolsStayInside
PROPERTIES
  RunReturns
  NothingCompletesWithoutEvidence
CHECK_DEADLOCK FALSE
