\* Three buffers' worth of data through two buffers, with an odd last byte.
CONSTANTS
    FileSize = 5
    BufSize = 2
SPECIFICATION FairSpec
INVARIANTS
    BufferOwnership
    ProgressIsHonest
PROPERTIES
    ImplementsFileCopy
    Terminates
