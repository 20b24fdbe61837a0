SPECIFICATION PortalSpec
CONSTANTS
  Parts = {"fanout", "scan", "progress", "stream", "connections", "canvas", "admission", "registry"}
  NumItems = 3 PoolLimit = 2 Attempts = 3
  ScanRequests = {s1} SourceList <- MCSources ScanPool = 1 Ids <- MCIds GkeParts = {"gke", "gkep"} GcpResources <- MCResources Unowned = Unowned NoScan = NoScan MaxScanEvents = 1
  Plans <- MCPlans MaxRequests <- MCRequests
  LogLines = 2 PageStatuses = {"applying", "ready"} Gone = "gone" MaxBreaks = 1 MaxFrames = 2
  Drafts <- MCDrafts Cut <- MCCut ClusterNames <- MCClusterNames DatabaseNames <- MCDatabaseNames Resources <- MCBuckets AppNames <- MCAppNames OperatorNames <- MCOperatorNames MaxEdits = 2 MaxPosts = 2
  Records <- MCRecords PartNames = {"web"} Machines = {"n2", "e2"} MaxNodes = 9 MaxCanvasEdits = 3
  Worlds <- MCWorlds MachineInfo <- MCMachineInfo RegionCpus = 8 MaxLiveClusters = 3 MaxNodesPerCluster = 3
  MaxNvmePerNode = 1 TrialShards = 4 MaxParts = 2 Slug <- MCSlug TooLong <- MCTooLong Admins = {"root"} MaxOrders = 3 MaxOutages = 1
  NumInstances = 4 Slots = 2
INVARIANTS
  AnswerIsWhole ScanAccounts 
  RunningIsNotFull FailuresStayShown
  StreamIsWhole
  WiresAgree OneStateDatabase NamespacesAgree DnsNamesDistinct
  CanvasWhole StateBesideTarget
  FailureIsForeseen QuotaHolds BulkKeeps RecoveryKeeps
PROPERTIES PortalCallEnds StepsStayDone PortalPageCatchesUp SwitchKeepsDeployment
CHECK_DEADLOCK FALSE
