\* Only cancelled requests and restarts.
SPECIFICATION Spec
CONSTANTS
    c1 = c1  c2 = c2  c3 = c3  r1 = r1  r2 = r2  ta = ta  tb = tb
    Chunks <- SomeChunks
    RepoOf <- SomeRepos
    Tokens <- SomeTokens
    Texts <- SomeTexts
    Faults = {"cancel"}
SYMMETRY IndexSymmetry
INVARIANT KnownOnRestart
