CONSTANTS
    Clients = {c1, c2}
    Devices = {d1, d2}
    MaxMemoryItems = 1
    SQLiteModes = {TRUE, FALSE}
    MaxSets = 3
    Admins = {a1, a2}
    Kinds = {"k1", "k2"}
    PlatformOf <- MCPlatformOf
    EmbeddedKinds <- MCEmbeddedKinds
    MaxObjects = 3
    MaxIds = 3
    MaxVotes = 1
    MaxRequests = 3
    Callers = {s1, s2}
    Keys = {"k1", "k2"}
    MediaOf <- MCMediaOf
    Sizes = {1, 2}
    L1MaxSize = 2
    L1MaxItems = 1
    L2MaxSize = 2
    MaxRestarts = 1
    MaxCalls = 4
    ReportingDevices = {"d1", "d2"}
    Reports <- MCReports
    MaxAnomalies = 2
    MaxValidations = 4
    Evidence <- MCEvidence
    TrustCallers = {t1, t2}
    MaxCalculations = 2
    Hosts <- MCHosts
    WantedCodecs = {"hevc", "av1", "vp9", "h264"}
    MaxDiscoveries = 2
    Addresses = {"a1", "a2"}
    Limit = 2
    Window = 2
    MaxNow = 5
    Fetches = {f1, f2}
    MaxLogins = 2
    MaxTokens = 4
SPECIFICATION StoresSpec
INVARIANTS CacheBounded  LookupsFind L1Books  BadSignsCapTrust WindowKept SessionSound
PROPERTIES   SelectionSound
CHECK_DEADLOCK FALSE
