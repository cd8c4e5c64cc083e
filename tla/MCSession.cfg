CONSTANTS
    Fragment = {"count", "list"}
    Collection = {"list"}
    Page <- MCPage
    NoMarkup = NoMarkup
    MailboxDepth = 2
    AckChannelDepth = 2
    AckWindow = 3
    CoalesceFlushAt = 1
    Ceiling = 2
    ResyncBurst = 1
    PanicBudget = 2
    MaxEvents = 3
    MaxEmits = 1
    MaxChanges = 2
    MaxLosses = 1
    MaxOversized = 1
    MaxIncidents = 4
SPECIFICATION LiveSpec
CHECK_DEADLOCK FALSE
INVARIANTS
    StaleRegionsAreDirty
    ClientShowsWhatWasSent
    RangesAreDisjoint
    SequencesAreAccounted
    NothingIsUnattributed
    HonestAcksAreValid
PROPERTIES Converges
