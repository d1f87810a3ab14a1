SPECIFICATION ArchiveSpec
CONSTANTS
    Files = {f1, f2}
    NoFile = NoFile
INVARIANTS ReleasedFileIsBusy
CHECK_DEADLOCK FALSE
