SPECIFICATION FairSpec
CONSTANTS
    w1 = w1
    w2 = w2
    Workers = {w1, w2}
    Qty = 1
    MaxGen = 1
PROPERTIES
    SettlesWhenFlat
