SPECIFICATION Spec
CONSTANTS
  Pages = {p1, p2, p3, p4, p5}
  PageSize = 2
  Tokens <- Bit
  Jobs = {j1, j2}
  Prompts <- Follow
  Hybrid = FALSE
  MTP = FALSE
  Depth = 0
  Chunk = 2
  MaxBatch = 1
  MaxTokens = 4
  MaxSkips = 1
SYMMETRY Symm
INVARIANT KvValid
