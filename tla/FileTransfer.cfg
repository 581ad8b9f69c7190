CONSTANTS
    NumFiles = 3
    Size <- MCSize
    None = None
    MaxJobs = 2
    MaxFailures = 1
SPECIFICATION Spec
INVARIANTS
    KeptFilesUntouched
    DoneMeansWhole
    NoTruncatedFile
PROPERTIES
    TransferEnds
CHECK_DEADLOCK FALSE
