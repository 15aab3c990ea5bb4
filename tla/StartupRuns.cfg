SPECIFICATION FairSpec
CONSTANTS
    Unset = Unset
    Inputs <- MCInputs
INVARIANTS PrefixesDistinct KeyPairInPlace NothingLeft KubernetesUnused
PROPERTIES Stops
CHECK_DEADLOCK FALSE
