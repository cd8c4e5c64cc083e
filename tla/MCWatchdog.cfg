CONSTANTS
    Peer = {p1, p2}
    Electorates <- OneMayLeave
    Cooldown = 1
    NotifyRecovery = TRUE
    Outcomes = {"sent", "failed", "sentError"}
    MayRestart = TRUE
    MaxTime = 2
    MaxRaise = 2
    MaxUnsure = 1
SPECIFICATION WatchdogLiveSpec
INVARIANTS
    NoEpisodeIsLost
    OneMailPerIncident
PROPERTIES
    BacklogDrains
