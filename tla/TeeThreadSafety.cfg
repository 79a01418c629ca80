CONSTANTS
    Cores = {c1, c2}
    NumThreads = 2
    Cookies = {k1, k2, k3}
    NoCookie = NoCookie
    Types = {"APPLICATION"}
    DefaultType = "APPLICATION"
    Prealloc = TRUE
    MayMisalign = FALSE
    MaxRpc = 1
SPECIFICATION Spec
SYMMETRY Symmetry
INVARIANTS OneCorePerThread UserMapFollowsThread CommandHasBuffer NothingLeaked
