SPECIFICATION MCFairSpec
CONSTANTS
    MaxGen = 2
    MaxMsgs = 0
    MaxTalkers = 1
    Kinds = {"request"}
    Capacity = 1
    MaxDrops = 1
INVARIANTS
    DisconnectCanFollow
PROPERTIES
    DeadIsRetired
    EndReleasesEverything
