SPECIFICATION Spec
CONSTANTS
    Absent = Absent
    Failed = Failed
    p1 = p1
    p2 = p2
    p3 = p3
    n1 = n1
    n2 = n2
    e1 = e1
    SPIFFEIDs = {"c1", "c2"}
    Specs <- MCSpecs
    Malformed = {"not a td"}
    Numeric = {"number"}
    Pods = {p1, p2, p3}
    Nodes = {n1, n2}
    Endpoints = {e1}
    Targets <- MCTargets
    NodeOf <- MCNodeOf
    Data = {"x", "y"}
    Broken <- MCBroken
    ParentIDTemplate <- MCParentIDTemplate
    Initial <- MCInitial
    MaxRevision = 6
    CacheSize = 2
PROPERTY RendersAsUncached
