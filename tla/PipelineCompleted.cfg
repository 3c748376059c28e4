SPECIFICATION MCSpec
CONSTANTS N = 2
 MaxRuns = 2
 MaxEdits = 0
 Packagers = {p1, p2}
 Donors = {"audited", "incomplete", "geometry", "tokenizer", "tensors", "infinite"}
 Directories <- Folders
 Rows = 3
 Recovered = 2
 RowBytes = 2
 StateBytes = 1
SYMMETRY Interchangeable
INVARIANT OnlyCompleted
CHECK_DEADLOCK FALSE
