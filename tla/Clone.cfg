CONSTANTS
    Chunks = 3
    PipeSize = 2
    Warnings = 2
    StderrSize = 1
    Databases = 3
SPECIFICATION FairTransferSpec
INVARIANTS TransferTypeOK CompleteOnReturn NoChildLeft LeavesComplete NoSshLeft
PROPERTIES TransferEnds StrayEnds ImplementsBlock
