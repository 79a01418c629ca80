CONSTANTS
    Cores = {c1, c2}
    NumThreads = 1
    Cookies = {k1, k2, k3}
    NoCookie = NoCookie
    Types = {"APPLICATION", "KERNEL_PRIVATE"}
    DefaultType = "APPLICATION"
    Prealloc = TRUE
    MayMisalign = FALSE
    MaxRpc = 3
SPECIFICATION FairSpec
INVARIANT FreedAsAllocated
PROPERTY CallReturns
