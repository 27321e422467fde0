\* Every failure, over two repositories.
SPECIFICATION Spec
CONSTANTS
    c1 = c1  c2 = c2  c3 = c3  r1 = r1  r2 = r2  ta = ta  tb = tb
    Chunks <- TwoChunks
    RepoOf <- TwoRepos
    Tokens <- SomeTokens
    Texts <- SomeTexts
    Faults = {"save", "embed", "upsert", "short", "delete", "cancel"}
SYMMETRY IndexSymmetry
INVARIANTS SettledVectorsMatch SkipsAreReported UntornVectorsReadBack
