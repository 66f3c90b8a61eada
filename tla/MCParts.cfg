\* The system may stop when it has used up its exports, resets, runs, plans and calls.
SPECIFICATION Spec
CHECK_DEADLOCK FALSE
CONSTANTS
    CTeCompanies = {"tomador", "autxml"}
    CTeEvents = {"cancelamento", "desacordo"}
    Cancelamentos = {"cancelamento"}
    CTeAuthorOf <- MCCTeAuthorOf
    CTeQueue <- MCCTeQueue
    CTeImportable <- MCCTeImportable
    MaxCTeExports = 1
    MaxCTeResets = 2
    Envs = {"prod", "test"}
    Starts = {0, 2}
    Registrations <- MCRegistrations
    EditInputs <- MCEditInputs
    MaxEdits = 2
    Processes = {"desktop", "cli"}
    Chaves = {"nota"}
    NFSeFeed <- MCNFSeFeed
    MaxRuns = 2
    MaxNFSeResets = 1
    NFSeParties = {"prestador", "tomador"}
    Xmls = {"a", "b"}
    Handed <- MCHanded
    Exporters = {"desktop", "cli"}
    MaxNFSeExports = 2
    MaxTears = 1
    NFeCount = 2
    ConclusiveTypes = {"confirmacao", "desconhecimento"}
    MaxPerLote = 1
    Retries = 1
    Jobs = {1, 2}
    Elsewhere <- MCElsewhere
    MaxPlans = 2
    MaxForgets = 1
    Viewers = {"matriz", "filial"}
    RootOf <- MCRootOf
    Notas <- MCNotas
    DayLength = 2
    CienciaWarningDays = 1
    ConclusiveDeadlineDays = 2
    AuthorizedAt = 1
    LastInstant = 6
    MaxWipes = 1
    MaxBackups = 2
    MaxBytes = 2
    RecordSizes = {1, 3}
    MaxRecords = 4
    MaxLogFailures = 2
    Companies = {"A", "B"}
    FirstCompany = "A"
    Competences = {"jan", "fev"}
    Notes = {"nota"}
    Sessions <- MCSessions
    MaxAsked = 2
INVARIANTS
    TypeOK
    CTeExportComplete
    StatusFollowsEvents
    PolicyKept
    RunsInterrupted
    NFSeExportComplete
    OneConclusive
    ManifestacaoIsRegistered
    ShownOfHeader
    MarkersHonest
    SendsJustified
    PendingIsDue
    LogsInOrder
PROPERTIES
    CTeSharedSpec
