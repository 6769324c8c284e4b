\* Every mode list, clusters file and cluster header; every body and two headers.
CONSTANTS
    Nil = Nil
    Absent = Absent
    Null = Null
    Malformed = Malformed
    NotText = NotText
    Unset = Unset
    InCluster = InCluster
    acme = acme
    httpOnly = httpOnly
    domain = domain
    BoolOpts = {acme, httpOnly}
    TextOpts = {domain}
    Texts = {"true", "false", "junk"}
    TrueTexts = {"true"}
    FalseTexts = {"false"}
    FlagClass = "own"
    Setups <- SmallSetups
    Requests <- Mixes
SPECIFICATION Spec
INVARIANTS
    TypeOK
    OptionsTaken
    LoneBadFlagRefused
    RightCluster
    ModeServed
CHECK_DEADLOCK FALSE
