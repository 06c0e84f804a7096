SPECIFICATION FairSpec
CONSTANTS
    Intents = {1, 2}
PROPERTIES
    RiskOnlyWhenSound
    IntentsResolved
