CONSTANTS
    Chunks = 3
    PipeSize = 2
    Warnings = 2
    StderrSize = 1
SPECIFICATION CloneSpec
INVARIANTS RestoreIsBlamed
