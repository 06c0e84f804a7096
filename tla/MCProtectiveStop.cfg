SPECIFICATION Spec
CONSTANTS
    w1 = w1
    w2 = w2
    Workers = {w1, w2}
    Qty = 2
    MaxGen = 2
SYMMETRY Symmetry
INVARIANTS
    LiveStopIsOwned
    CanceledOnce
    ActiveWasInstalled
