SPECIFICATION FairSpec
CONSTANTS
    Absent = Absent
    s1 = s1
    c1 = c1
    c2 = c2
    p1 = p1
    k1 = k1
    k2 = k2
    kJoin = kJoin
    kProbe = kProbe
    idProbe = idProbe
    OwnIDs = {u1, u2}
    CleanupIDs = {o1}
    OtherIDs = {f1}
    Keys <- MCKeys
    JoinTokenKeys = {}
    Fields <- MCFields
    ProbedFields = {"hint"}
    DurationFields = {"x509SVIDTTL"}
    Second = 2
    Int32Half = 8
    IDs <- MCIDs
    PrefixesOf <- MCPrefixesOf
    EntryIDPrefix = "scm.eu."
    EntryIDPrefixCleanup = "scm."
    StaticEntries = {s1}
    SPIFFEIDs = {c1}
    Specs <- CutSpecs
    Pods = {p1}
    PodOf <- MCPodOf
    ClassName = "scm"
    WatchClassless = TRUE
    ProbeID = idProbe
    ProbeKey = kProbe
    ProbeFields <- MCProbeFields
    EnableEntryListCache = TRUE
    EnableEntryListHintFilter = FALSE
    BatchSize = 1
    ExternalEntries <- OneEntry
    InitialUnsupported = {"hint"}
    PartialListing = TRUE
    MaxChanges = 2
    MaxFaults = 1
PROPERTIES ForeignEntriesUntouched Converges Quiesces ProbeEntryCleaned StatusSettles
