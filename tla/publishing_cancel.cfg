\* A cancellation against Meta's scheduler.
SPECIFICATION Spec
CONSTANTS
    None = None
    p1 = p1
    p2 = p2
    o1 = o1
    Calls = {c1, c2}
    Pages = {p1}
    Instagram = {p1}
    Objects = {o1}
    Inputs <- Scheduling
    MinSchedule = 1
    MaxSchedule = 1
    MinItems = 2
    MaxItems = 3
    MaxPolls = 2
    MaxTime = 1
    MaxComments = 1
CHECK_DEADLOCK FALSE
PROPERTY CancelTakesOnlyScheduled
