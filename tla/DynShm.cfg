SPECIFICATION Spec
CONSTANTS
  Threads = {t1, t2, t3}
  Cookies = {k1, k2}
  MaxReg = 3
  LateLookup = FALSE
  NoOne = NoOne
INVARIANT MappedWhileUsed
INVARIANT NoUseAfterFree
INVARIANT NoPanic
PROPERTY ReleaseEnds
