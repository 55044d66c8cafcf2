CONSTANTS
    left = left
    right = right
    tweeter = tweeter
    woofers = woofers
    tweeters = tweeters
    Speakers <- MCSpeakers
    Groups <- MCGroups
    GroupOf <- MCGroupOf
    Gains <- MCGains
    Lowest <- MCLowest
    Parts = 2
    Period = 2
    MaxAvailable = 3
    Lease = 1
    Unknown = Unknown
SPECIFICATION FairSpec
INVARIANTS
    TypeOK
    WholeFrames
    LevelOfGain
PROPERTIES
    RenewedWhenSafe
    LouderOnlyWhenAsked
    RenewedAgain
