CONSTANTS
    Images = {i1, i2}
    NoImage = NoImage
    MaxPatches = 3
    Calls = {c1, c2}
    NoCredential = NoCredential
    Handles = {h1, h2, h3, h4, h5, h6, h7, h8}
    Tokens = {k1, k2, k3, k4, k5, k6, k7, k8}
    None = None
    MaxActs = 2
    Pages = {"page", "portfolio"}
    Stock = 3
    NoKey = NoKey
    MaxDeskActs = 3
SPECIFICATION ClientSpec
CHECK_DEADLOCK FALSE
INVARIANTS
    ClientTypeOK
    AvatarTruthful
    CredentialConfined
    NeverReplayed
    AttemptOnce
    QuietPagesAreCurrent
PROPERTIES
    DocsLoadEnds
    EndedIsConcealed
    JourneysEnd
