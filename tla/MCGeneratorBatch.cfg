SPECIFICATION Spec
CONSTANTS
  Pages = {p1, p2, p3, p4, p5}
  PageSize = 3
  Tokens <- Bit
  Jobs = {j1, j2}
  Prompts <- Mixed
  Hybrid = FALSE
  MTP = FALSE
  Depth = 0
  Chunk = 3
  MaxBatch = 2
  MaxTokens = 2
  MaxSkips = 1
SYMMETRY Symm
INVARIANTS RefCounts UniqueHashes NeverStarves WindowAlone
