SPECIFICATION Spec
CONSTANTS
    Number <- MCNumber
    Unit = {"h", "d"}
    UnitLength <- MCUnitLength
    DefaultDownloads = 1
    DefaultTtl = 60
    MaxDownloads = 3
    Int16Max = 7
    MaxParts = 2
    Length = 3
    WordBits = 5
    LetterIdxBits = 2
    Letters = 3
    MaxWords = 2
INVARIANT DownloadsAsWritten
INVARIANT LettersAreFresh
