SPECIFICATION FairSpec
CONSTANTS
    NChan = 1
    Creators = {1}
    Speakers = {1}
    Splitters = {1}
    Initial = 2
    QLen = 2
    Every = 1
    Threshold = 0
    MaxLinks = 1
    MaxOpens = 2
    MaxSends = 1
    MaxFrames = 1
    MaxCancels = 1
CHECK_DEADLOCK FALSE
INVARIANT CreditsConserved
 
