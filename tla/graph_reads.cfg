\* Every read over every state Meta may be in, one read at a time.
SPECIFICATION FairSpec
CONSTANTS
    Metrics = {m1, m2, m3}
    SeriesOnly = {m3}
    DefaultMetrics = {m1, m3}
    Limits <- SomeLimits
    DefaultLimit = 2
    DefaultCommentLimit = 3
    MaxLimit = 4
    MaxPageSize = 2
    MaxPages = 3
    MaxItems = 7
    Days = {1, 2, 3}
    Times <- AroundMidnight
    DayLength = 3
    WindowDays = 2
    Absent = Absent
    Garbled = Garbled
    Scopes = {pages, instagram, ads}
    RequiredScopes = {pages, instagram}
INVARIANTS
    TypeOK
    InsightsAreComplete
    ListIsWhole
    OnlyRealFailuresFail
    
    StatusIsMetasWord
PROPERTY
    EveryReadIsAnswered
