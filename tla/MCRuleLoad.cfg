CONSTANTS
    NDirs = 2
    Names = {1, 2}
    MaxLines = 2
    Toks <- MCToks
INIT Init
NEXT Next
INVARIANTS
    TypeOK
    FilesFollowDirectories
    LinesFollowFile
