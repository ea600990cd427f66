CONSTANTS
    LongBits = 8
    IntBits = 4
    PageBits = 2
    Scale <- MCScale
    MemStrings <- MCMemStrings
    VcpuStrings <- MCVcpuStrings
    MaxRunOptions = 3
    MemSize = 20
    NVcpus = 3
    DefaultWord = 2
    DefaultLine = 4
    ListStrings <- MCListStrings
    MaxStatusOptions = 3
SPECIFICATION Spec
INVARIANTS
    TypeOK
    SizesAsAsked
    BadOptionRefused
    CrashNeedsBadFile
    ListsAsWritten
    MaskAsWritten
    OwnRegsShown
    DumpCoversRequest
    DumpWithinHeader
CHECK_DEADLOCK FALSE
