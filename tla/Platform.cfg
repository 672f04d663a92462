SPECIFICATION PlatformSpec
CONSTANTS
    WorkflowOf <- MCWorkflowOf
    Serving = "llm1"
    MaxPointerRevision = 5
    MaxNow = 1
    Runs = {"r1", "r2", "r3"}
    CandidateOf <- MCCandidateOf
    WorkflowRun <- MCWorkflowRun
    BlobsOf <- MCBlobsOf
    Operators = {"o1", "o2"}
    Documents = {"d1"}
    Failures = 2
    IngestEvents = {"e1", "e2"}
    Envelopes = {"x", "y"}
    Window = 1
    Retention = 2
    CleanupBatch = 1
    LastHour = 3
    OnWire = 1
    AtOnce = 2
    Recorders = {"t1", "t2"}
    AuditEvents = {"a1", "a2", "a3"}
    Metadata = {"m1", "m2"}
    LastTick = 1
    MaxRows = 3
    Sources = {"s1", "s2"}
    FormatOf <- MCFormatOf
    OcrReceipts <- MCOcrReceipts
    Rewrites = 1
    MaxExtractions = 2
    Corpus = {"d1", "d2"}
    Revisions = 1
    MaxLimit = 2
    Askers = {"a1", "a2"}
    Hits = {"c1", "c2", "c3"}
    DocumentOf <- MCDocumentOf
    TextOf <- MCTextOf
    Known = {"t1"}
    Threshold = 2
    Questions = 3
    Callers = {"c1", "c2"}
    Tokens = {"ta", "tb"}
    SubjectOf <- MCSubjectOf
    ScopesOf <- MCScopesOf
    KeyTtl = 1
    CacheSize = 1
    LastMinute = 1
    Deployments <- MCDeployments
    Servers = {"p1", "p2"}
    Threads = {"m1", "m2", "m3"}
    ServerOf <- MCServerOf
    Quadrants = {0, 1}
    Defaults <- MCDefaults
    Additions <- MCAdditions
    EvaluationTexts = {"z"}
    Managers = {"m1", "m3"}
    Predictors = {"m2"}
    MaxGenerations = 2
    Edits = 1
    Deaths = 1
    Examples = {1, 2, 3}
    Labels = {0, 1}
    Passes <- MCPasses
    Adjudications <- MCAdjudications
    Agreement <- MCAgreement
    Tools = {"k1"}
    Slots = {1}
    LastDay = 2
    Relabels = 2
    Cases = {"q1", "q2"}
    Probes = {"q2"}
    ReviewEdits = 1
    Runners = {"r1", "r2"}
    ReportPaths = {1, 2}
    Inputs = {"candidate", "thresholds"}
    Editions = {"v0", "v1"}
    MaximumDeadline = 1
    HoldoutEdits <- MCHoldoutEdits
    MaxReceipts = 2
    AnswerCases = {"h1", "h2", "h3", "h4"}
    CategoryOf <- MCCategoryOf
    Policies = {"p1", "p2"}
    AnswerShare <- MCShare
    Operations = {"o1", "o2"}
    AnswerReports = {1}
    ReceiptPaths = {1}
    CommitmentPaths = {1}
    LastValidDay = 1
    CorpusEdits = 2
    UserActions = {"trash"}
    MaxCommands = 2
    MaxMishaps = 2
    MaxTogether = 3
INVARIANTS
    PlatformTypeOK
    PointerIsSound
    SwitchIsSound
    TrailIsWhole
    IngestsWhatWasApproved
    AnswersAreSupported
    EffectsAreAccounted
    ServedModelIsSound
    EvaluationIsWitnessed
    MobileIsSound
PROPERTIES
    RegistryIsSound
    IntakeIsSound
VIEW Focused
CHECK_DEADLOCK FALSE
