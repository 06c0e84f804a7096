SPECIFICATION FairSpec
CONSTANTS
    w1 = w1
    w2 = w2
    i1 = i1
    i2 = i2
    Workers = {w1, w2}
    Intents = {i1}
    NoWorker = NoWorker
    NoIntent = NoIntent
    Qty = 2
PROPERTIES
    OutcomeIsRecorded
