CONSTANTS
    Thread = {t1}
    Name = {a, b}
    NoName = none
    MaxFiles = 2
    TotalBlocks = 8
    BlockSize = 2
    BlocksMax = 3
    Byte = {0, 1}
    Sizes = {0, 5, 7}
    Payloads <- MCPayloads
    HostFiles <- MCHostFiles
    MaxFaults = 1
SPECIFICATION Spec
INVARIANTS TypeOK VolumeSound FilesAsPromised HandleIsFile ToolAgrees
CONSTRAINT Followed
SYMMETRY Perms
