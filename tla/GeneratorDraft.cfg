SPECIFICATION Spec
CONSTANTS
  Pages = {p1, p2, p3}
  PageSize = 4
  Tokens <- Bit
  Jobs = {j1, j2}
  Prompts <- TwoStarts
  Hybrid = FALSE
  MTP = FALSE
  Depth = 3
  Chunk = 4
  MaxBatch = 1
  MaxTokens = 1
  MaxSkips = 1
SYMMETRY Symm
INVARIANT ContextRight
