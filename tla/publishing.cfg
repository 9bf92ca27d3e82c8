\* Two calls of every kind, one page with an Instagram account and one without.
SPECIFICATION FairSpec
CONSTANTS
    None = None
    p1 = p1
    p2 = p2
    o1 = o1
    Calls = {c1, c2}
    Pages = {p1, p2}
    Instagram = {p1}
    Objects = {o1, o2, o3}
    Inputs <- EveryRequest
    MinSchedule = 1
    MaxSchedule = 1
    MinItems = 2
    MaxItems = 3
    MaxPolls = 2
    MaxTime = 1
    MaxComments = 1
\* Every call is answered and every id is drawn in the end.
CHECK_DEADLOCK FALSE
INVARIANTS
    TypeOK
    PublishesFinishedOnly
    CarouselIsComplete
PROPERTIES
    ImplementsConfirmedWrite
    EveryCallIsAnswered
