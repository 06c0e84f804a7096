SPECIFICATION FairSpec
CONSTANTS
    Intents = {1}
PROPERTIES
    RestCycleUnblocks
