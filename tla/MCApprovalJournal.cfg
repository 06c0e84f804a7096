SPECIFICATION FairSpec
CONSTANTS
    w1 = w1
    w2 = w2
    e1 = e1
    e2 = e2
    Workers = {w1, w2}
    Events = {e1, e2}
    Nobody = Nobody
    MaxProposals = 2
CHECK_DEADLOCK FALSE
INVARIANTS
    ApprovalBindsProposal
    WaitingWasShown
    OneReviewer
    PrimaryCalledOnce
PROPERTIES
    ImplementsCase
    CaseSettles
