SPECIFICATION Spec
CONSTANTS
    Absent = Absent
    s1 = s1
    c1 = c1
    c2 = c2
    p1 = p1
    k1 = k1
    k2 = k2
    kJoin = kJoin
    kProbe = kProbe
    idProbe = idProbe
    OwnIDs = {u1, u2, u3, u4}
    CleanupIDs = {}
    OtherIDs = {}
    Keys <- MCKeys
    JoinTokenKeys = {}
    Fields <- MCFields
    ProbedFields = {"hint"}
    DurationFields = {"x509SVIDTTL"}
    Second = 2
    Int32Half = 8
    IDs <- MCIDs
    PrefixesOf <- MCPrefixesOf
    EntryIDPrefix = "scm.eu."
    EntryIDPrefixCleanup = Absent
    StaticEntries = {s1}
    SPIFFEIDs = {c1}
    Specs <- MaskSpecs
    Pods = {p1}
    PodOf <- MCPodOf
    ClassName = "scm"
    WatchClassless = TRUE
    ProbeID = idProbe
    ProbeKey = kProbe
    ProbeFields <- MCProbeFields
    EnableEntryListCache = TRUE
    EnableEntryListHintFilter = FALSE
    BatchSize = 1
    ExternalEntries <- OneEntry
    InitialUnsupported = {"hint"}
    PartialListing = TRUE
    MaxChanges = 2
    MaxFaults = 1
SYMMETRY Symmetry
INVARIANTS CacheMirrorsServer StatusCoherent CacheLagsByStatuses KeysIdentify FailuresWithinPlan
PROPERTIES DeclaredEntriesKept
