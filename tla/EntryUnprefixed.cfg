SPECIFICATION Spec
CONSTANTS
    Absent = Absent
    s1 = s1
    c1 = c1
    c2 = c2
    p1 = p1
    k1 = k1
    k2 = k2
    kJoin = kJoin
    kProbe = kProbe
    idProbe = idProbe
    OwnIDs = {u1, u2, u3, u4}
    CleanupIDs = {}
    OtherIDs = {}
    Keys <- MCKeys
    JoinTokenKeys = {kJoin}
    Fields <- MCFields
    ProbedFields = {"hint"}
    DurationFields = {"x509SVIDTTL"}
    Second = 2
    Int32Half = 8
    IDs <- MCIDs
    PrefixesOf <- MCPrefixesOf
    EntryIDPrefix = ""
    EntryIDPrefixCleanup = Absent
    StaticEntries = {}
    SPIFFEIDs = {c1, c2}
    Specs <- FallbackSpecs
    Pods = {p1}
    PodOf <- MCPodOf
    ClassName = "scm"
    WatchClassless = TRUE
    ProbeID = idProbe
    ProbeKey = kProbe
    ProbeFields <- MCProbeFields
    EnableEntryListCache = FALSE
    EnableEntryListHintFilter = FALSE
    BatchSize = 2
    ExternalEntries <- JoinEntries
    InitialUnsupported = {}
    PartialListing = TRUE
    MaxChanges = 2
    MaxFaults = 1
SYMMETRY Symmetry
INVARIANTS DeletesSpareDeclared
PROPERTIES JoinTokenEntriesKept SharesServer
