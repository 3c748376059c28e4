SPECIFICATION Spec
CONSTANTS
  Pages = {p1, p2, p3, p4, p5, p6, p7, p8}
  PageSize = 2
  Tokens <- Bit
  Jobs = {j1, j2, j3, j4}
  Prompts <- LongPrefix
  Hybrid = FALSE
  MTP = FALSE
  Depth = 0
  Chunk = 4
  MaxBatch = 2
  MaxTokens = 1
  MaxSkips = 1
INVARIANT TwinComplete
