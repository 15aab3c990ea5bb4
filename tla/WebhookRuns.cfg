SPECIFICATION FairSpec
CONSTANTS
    Absent = Absent
    Written <- MCWritten
    Authorities = {1, 2}
    Hour = 6
    Lifetimes = {6, 7}
    SVIDMin = 1
    BundleMin = 2
    WebhookMin = 2
    MaxBackoff = 2
    MaxOutage = 1
    MaxChanges = 1
    MaxFaults = 1
INVARIANTS CertificateValid
PROPERTIES BackInService PatchesCease OthersWritesKept
