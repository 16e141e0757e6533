SPECIFICATION Spec
CONSTANTS
    QbAdmin = admin
    QbJobs = {job}
    QbDesks = {desk}
    Realms = {"r1", "r2"}
    QbTags = {"t1"}
    AccountList <- MCAccounts
    PreferredCode <- MCPreferred
    SystemCodes <- MCSystem
    QbFaults = {"expire", "tokenEndpoint", "unavailable", "lostReply", "enqueue"}
    MaxTokensQb = 4
    QbBudgets <- MCQbBudgets
    SgProcs = {p, q}
    Maps = {"full", "partial"}
    GoodMaps = {"full"}
    SgScripts <- MCSgScripts
    ObUsers = {"ann", "bob"}
    ObProcs = {p, q}
    ObScripts <- MCObScripts
    InProcs = {p, q}
    Upcs <- MCUpcs
    Modifiers <- MCModifiers
    Shelves = {"A", "B"}
    InScripts <- MCInScripts
    PdProcs = {p, q}
    PdScripts <- MCPdScripts
    RpDays = {360, 364, 366}
    RpSales = {3, 4}
    RpCalendars <- MCRpCalendars
    RpToday = 364
    RpSpan = 4
    RpWindow = 2
    RpLimits = {2}
    RpFigures <- MCRpFigures
    MwStamps = {"timestamp"}
    MwScripts <- MCMwScripts
    PpRanges = {"r1", "r2"}
    PpPages = {1, 2}
    PpLimits = {10, 20}
    PpSyncs = {"s1", "s2"}
    PpScripts <- MCPpScripts
    SuTabs <- MCSuTabs
    SuFiles <- MCSuFiles
    SuMappings = {"ab", "c", "raw", "wide"}
    SuSuggested <- MCSuSuggested
    SuNormal <- MCSuNormal
    SuCompatible <- MCSuCompatible
    SuMatched <- MCSuMatched
    SuScripts <- MCSuScripts
    TxWorlds <- MCTxWorlds
    TxSections = {"payments", "ledger"}
    TxDates = {"d1", "d2"}
    TxBases = {"accrual"}
    TxReportKeys = {"profit-loss"}
    TxKinds = {"all"}
    TxIds = {"id1"}
    TxLimits = {1, 2}
    TxDepth = 3
    TxPlans <- MCTxPlans
    ApEntries = {"e1", "e2"}
    ApPlans <- MCApPlans
CHECK_DEADLOCK FALSE
INVARIANTS
    BackOfficeTypeOK
    SecretBacksSettings
    OneDocumentPerTag
    ActiveNamesSource
    ConnectorsAreMapped
    ClientsAgree
    RolesStayAtHome
    BarcodeAgrees
    CheckedSheetsAddUp
    ComputedFiguresAgree
    WizardAgrees
    RecordsMatchPage
    SavedWasChecked
    AccountingPagesAgree
PROPERTIES
    CodesAreKept
    PullEnds
