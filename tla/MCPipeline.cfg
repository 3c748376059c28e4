SPECIFICATION MCSpec
CONSTANTS N = 2
 MaxRuns = 3
 MaxEdits = 1
 Packagers = {p1, p2}
 Donors = {"audited", "incomplete", "geometry", "tokenizer", "tensors", "infinite"}
 Directories <- Folders
 Rows = 3
 Recovered = 2
 RowBytes = 2
 StateBytes = 1
SYMMETRY Interchangeable
CONSTRAINT Affordable
INVARIANTS OneIdentity RowsExact AssemblyExact ReportTruthful PackageChained FinalAsReported
PROPERTY CheckpointSurvives
CHECK_DEADLOCK FALSE
