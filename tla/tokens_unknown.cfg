SPECIFICATION Reading
CONSTANTS
    Documents <- MCDocuments
    MinAreaPercent = 5
    MaxAspect = 8
    BatchSize = 2
    MaxAttempts = 1
    Env <- MCEnv
    Endpoints <- MCEndpoints
    CallHeaders <- MCCallHeaders
    Requests <- MCRequests
    MaxSource <- MCMaxSource
    Bounds <- MCBounds
    LabelOf <- MCLabelOf
    ScriptOf <- MCScriptOf
    WordChars <- MCWordChars
    Letters <- MCLetters
    Normal <- MCNormal
    Continuous = {"han", "thai"}
    Supported = {"latin", "han", "thai"}
    IsoOf <- MCIsoOf
    Cues <- MCCues
    Schema <- MCSchema
    Defaults <- MCDefaults
    ReadsAs <- MCReadsAs
    Meaning <- MCMeaning
    DomainOf <- MCDomainOf
    Unreached = {"gone"}
    SkipDirs = {"vendor"}
INVARIANT UnknownIsSilent
CHECK_DEADLOCK FALSE
