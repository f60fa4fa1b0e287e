SPECIFICATION Spec
CONSTANTS
    Base = 8
    Magic <- MCMagic
    CompilerLen = 2
    HashLen = 1
    ChecksumLen = 1
    MaxFileSize = 80
    MaxSource = 2
    MaxTokens = 2
    MaxName = 2
    MaxScript = 64
    NotUtf8 = {3}
    Underscore = 4
    FlagsAllowed = {0, 1}
    CalculateChecksum <- MCChecksum
    Contents <- MCContents
    Files <- MCFiles
INVARIANTS AcceptedIsWhole AcceptedIffSerialized
