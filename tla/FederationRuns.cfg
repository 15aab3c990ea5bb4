SPECIFICATION FairSpec
CONSTANTS
    Absent = Absent
    Unreadable = Unreadable
    a = a
    b = b
    Objects = {a, b}
    Specs <- MCSpecs
    Unvalidated = {b}
    TrustDomains = {"td1", "td2"}
    SPIFFEIDs = {"id1"}
    Bundles = {"b1", "b2", "b3"}
    Convertible = {"b1", "b2"}
    Served = {"b2"}
    FileRank <- MCFileRank
    External <- MCExternal
    ClassName = "scm"
    WatchClassless = TRUE
    BatchSize = 1
    MaxChanges = 1
    MaxFaults = 1
INVARIANT OneReconcileSuffices
PROPERTIES DeclaredRelationshipsKept SettledUntouched Converges Quiesces
