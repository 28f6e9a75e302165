SPECIFICATION Spec
CONSTANTS
    MaxDepth = 2
    Digits = 2
    Keys <- KeysDef
    Values <- ValuesDef
    Alphabets <- AlphabetsDef
    MaxText = 6
    MaxInt = 99
CHECK_DEADLOCK FALSE
INVARIANTS
    ReadsWhatWasSaved
    CutIsNotTaken
    
    HelpersKeepTheText
    HighestAreKept
