SPECIFICATION FairSpec
CONSTANTS
    Drives = {d0, d1}
    Limit = 1
    FifoSize = 3
    BurstLength = 2
    None = None
INVARIANTS TypeOK QueueFits
PROPERTIES ImplementsCommands OffersTaken CommandsAnswered
