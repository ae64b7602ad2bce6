CONSTANTS
    c1 = c1
    c2 = c2
    Callers = {c1, c2}
    MaxChildren = 2
    MaxRequests = 3
    Overrides = {"auto"}
    Offers <- MCOffers
SPECIFICATION FairSpec
INVARIANTS TypeOK WaitersArePending AnswerIsOwn NothingPendingOnceClosed CloseStopsLast
PROPERTY CallsEnd
CHECK_DEADLOCK FALSE
