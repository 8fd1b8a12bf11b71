SPECIFICATION PartsSpec
CONSTANTS
    Requests <- MCRequests
    BodyMax = 4
    LineMax = 4
    None = None
    Buffers <- MCBuffers
    StallMax = 3
    Width = 3
    Universe <- MCUniverse
    Level <- MCLevel
    Queries <- MCQueries
    PatternMax = 3
    Word = 8
    MaxChanges = 1
    NoValue = NoValue
    Texts <- MCTexts
    Formats <- MCFormats
    Initial = 2
    IntMax = 15
    MaxLines = 20
INVARIANTS BodyExact RefusalIsClean NoGap GiveUpJustified ListingExact FramedExact TableWhole
PROPERTIES PartsEnd
