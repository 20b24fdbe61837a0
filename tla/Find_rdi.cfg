SPECIFICATION PortalSpec
CONSTANTS
  Parts = {"connections"}
  NumItems = 1 PoolLimit = 1 Attempts = 1
  ScanRequests = {s1} SourceList <- MCSources ScanPool = 1 Ids <- MCIds GkeParts = {"gke", "gkep"} GcpResources <- MCResources Unowned = Unowned NoScan = NoScan MaxScanEvents = 0
  Plans <- MCPlans MaxRequests <- MCRequests
  LogLines = 0 PageStatuses = {"applying"} Gone = "gone" MaxBreaks = 0 MaxFrames = 1
  Drafts <- MCDrafts Cut <- MCCut ClusterNames <- MCClusterNames DatabaseNames <- MCDatabaseNames Resources <- MCBuckets AppNames <- MCAppNames OperatorNames <- MCOperatorNames MaxEdits = 2 MaxPosts = 2
  Records <- MCRecords PartNames = {"web"} Machines = {"n2"} MaxNodes = 1 MaxCanvasEdits = 0
  Worlds <- MCWorlds MachineInfo <- MCMachineInfo RegionCpus = 8 MaxLiveClusters = 3 MaxNodesPerCluster = 3
  MaxNvmePerNode = 1 TrialShards = 4 MaxParts = 2 Slug <- MCSlug TooLong <- MCTooLong Admins = {"root"} MaxOrders = 3 MaxOutages = 1
  NumInstances = 4 Slots = 2
INVARIANT StateDatabaseNeverTwice
CHECK_DEADLOCK FALSE
