-------------------------- MODULE GraphReads_proofs --------------------------
(***************************************************************************)
(* Proofs about GraphReads: type correctness, that insights answer for     *)
(* every metric, that a list is whole, that only real failures fail, what  *)
(* a window of days covers, what a diagnosis says and that a read runs out *)
(* of requests, for any metrics, limits, lists, days and permissions.      *)
(*                                                                         *)
(* Every proof has the same two halves.  CallShapes says in which four     *)
(* ways a read begins; RequestShapes, which requests a kind of read makes, *)
(* and that each but the diagnosis leaves alone what the read was about.   *)
(***************************************************************************)
EXTENDS GraphReads, FiniteSetTheorems, TLAPS

-----------------------------------------------------------------------------
(* The operators.                                                          *)

LEMMA ClampLimitBounds ==
    ASSUME NEW n \in Int, NEW default \in 1..MaxLimit
    PROVE  ClampLimit(n, default) \in 1..MaxLimit
  BY ReadsAssumption DEF ReadsAssumption, ClampLimit

LEMMA PageSizeBounds ==
    ASSUME NEW limit \in Nat
    PROVE  /\ PageSize(limit) \in 1..MaxPageSize
           /\ limit \in 1..MaxPageSize => PageSize(limit) = limit
  BY ReadsAssumption DEF ReadsAssumption, PageSize

\* The group of a request has only metrics that Meta may serve in it.
LEMMA GroupServed ==
    ASSUME NEW r, NEW m \in Group(r)
    PROVE  Served(m, r) <=> m \in supported
  BY DEF Group, Served

LEMMA DefaultsAsked ==
    ASSUME NEW metrics \in SUBSET Metrics
    PROVE  MetricsOrDefault(metrics) \in (SUBSET Metrics) \ {{}}
  BY ReadsAssumption DEF ReadsAssumption, MetricsOrDefault

-----------------------------------------------------------------------------
(* Days.                                                                   *)

LEMMA DayOrder ==
    ASSUME NEW a \in Int, NEW b \in Int
    PROVE  /\ FirstSecond(a) \in Int /\ LastSecond(a) \in Int
           /\ a <= b => FirstSecond(a) <= FirstSecond(b)
           /\ FirstSecond(a) < FirstSecond(b) + DayLength => a <= b
<1>1. DayLength \in Nat \ {0}
  BY ReadsAssumption DEF ReadsAssumption
<1>2. \A m, n \in Int : m <= n => m * DayLength <= n * DayLength
  BY <1>1
<1>3. (b + 1) * DayLength = b * DayLength + DayLength
  BY <1>1
<1>4. b + 1 <= a => (b + 1) * DayLength <= a * DayLength
  BY <1>2
<1> QED
  BY <1>1, <1>2, <1>3, <1>4 DEF FirstSecond, LastSecond

\* Every second belongs to a day.
LEMMA SecondOfDay ==
    ASSUME NEW x \in Int
    PROVE  \E day \in Int : x \in FirstSecond(day)..LastSecond(day)
<1>1. DayLength \in Nat \ {0}
  BY ReadsAssumption DEF ReadsAssumption
<1>2. /\ x \div DayLength \in Int /\ (x \div DayLength) * DayLength \in Int
      /\ (x \div DayLength) * DayLength <= x
      /\ x < (x \div DayLength) * DayLength + DayLength
  BY <1>1
<1>3. x \in FirstSecond(x \div DayLength)..LastSecond(x \div DayLength)
  BY <1>1, <1>2 DEF FirstSecond, LastSecond
<1> QED
  BY <1>2, <1>3

\* The days from a to b, second by second, have no gap and no more.
LEMMA DaysAreWhole ==
    ASSUME NEW a \in Int, NEW b \in Int
    PROVE  FirstSecond(a)..LastSecond(b) = UNION {FirstSecond(day)..LastSecond(day) : day \in a..b}
<1>0. DayLength \in Nat \ {0} /\ \A day \in Int : LastSecond(day) = FirstSecond(day) + DayLength - 1
  BY ReadsAssumption DEF ReadsAssumption, FirstSecond, LastSecond
<1>1. ASSUME NEW x \in FirstSecond(a)..LastSecond(b)
      PROVE  \E day \in a..b : x \in FirstSecond(day)..LastSecond(day)
  <2>1. x \in Int
    BY DayOrder
  <2>2. PICK day \in Int : x \in FirstSecond(day)..LastSecond(day)
    BY <2>1, SecondOfDay
  <2>3. FirstSecond(a) < FirstSecond(day) + DayLength
    BY <1>0, <2>1, <2>2, DayOrder
  <2>4. FirstSecond(day) < FirstSecond(b) + DayLength
    BY <1>0, <2>1, <2>2, DayOrder
  <2>5. day \in a..b
    BY <2>3, <2>4, DayOrder
  <2> QED
    BY <2>2, <2>5
<1>2. ASSUME NEW day \in a..b, NEW x \in FirstSecond(day)..LastSecond(day)
      PROVE  x \in FirstSecond(a)..LastSecond(b)
  <2>1. day \in Int /\ a <= day /\ day <= b
    OBVIOUS
  <2>2. FirstSecond(a) <= FirstSecond(day) /\ FirstSecond(day) <= FirstSecond(b)
    BY <2>1, DayOrder
  <2>3. /\ FirstSecond(a) \in Int /\ FirstSecond(b) \in Int /\ FirstSecond(day) \in Int
        /\ x \in Int /\ FirstSecond(day) <= x /\ x <= LastSecond(day)
    BY <2>1, DayOrder
  <2> QED
    BY <1>0, <2>1, <2>2, <2>3
<1> QED
  BY <1>1, <1>2

\* A window that is not refused is proper, and whole if both days are given.
LEMMA WindowBounds ==
    ASSUME NEW since \in Day, NEW until \in Day, NEW now \in Times,
           ~WindowRefused(since, until, now),
           NEW window, window = DateWindow(since, until, now)
    PROVE  /\ window \in [since : Day, until : Day, from : Int, to : Int]
           /\ window.from < window.to
           /\ {window.since, window.until} \subseteq Days =>
                 window.from..window.to =
                    UNION {FirstSecond(day)..LastSecond(day) : day \in window.since..window.until}
<1>1. /\ now \in Int /\ Days \subseteq Int /\ Absent \notin Days
      /\ DayLength \in Nat /\ WindowDays \in Nat
  BY ReadsAssumption DEF ReadsAssumption
<1>2. since \in Days \cup {Absent} /\ until \in Days \cup {Absent}
  BY DEF WindowRefused, Day
<1>3. /\ window.since = since /\ window.until = until
      /\ window.to = IF until = Absent THEN now ELSE LastSecond(until)
      /\ window.from = IF since = Absent THEN window.to - WindowDays * DayLength
                       ELSE FirstSecond(since)
      /\ window = [since |-> window.since, until |-> window.until, to |-> window.to,
                   from |-> window.from]
  BY DEF DateWindow
<1>4. window.to \in Int
  BY <1>1, <1>2, <1>3, DayOrder
<1>5. window.from \in Int
  BY <1>1, <1>2, <1>3, <1>4, DayOrder
<1>6. window.from < window.to
  BY <1>4, <1>5 DEF WindowRefused
<1>7. ASSUME since \in Days, until \in Days
      PROVE  window.from = FirstSecond(since) /\ window.to = LastSecond(until)
             /\ since \in Int /\ until \in Int
  BY <1>1, <1>3, <1>7
<1> QED
  BY <1>3, <1>4, <1>5, <1>6, <1>7, DaysAreWhole

-----------------------------------------------------------------------------
(* How a read begins, and what its requests leave alone.                   *)

Ops == InsightReads \cup ListReads \cup SingleReads \cup {"connection_status"}

WindowedReads == {"page_insights", "ig_account_insights"}

BeginRefused(op) == Refuse(op)

BeginInsights(op, group, metrics, window) ==
    /\ AskInsights(op, group, metrics, window)
    /\ op \in InsightReads
    /\ group = IF op # "ig_account_insights" \/ MetricsOrDefault(metrics) \subseteq SeriesOnly
               THEN "series" ELSE "totals"
    /\ \/ op \notin WindowedReads /\ window = NoWindow
       \/ \E since, until \in Day, now \in Times :
             ~WindowRefused(since, until, now) /\ window = DateWindow(since, until, now)

BeginList(op, limit) ==
    /\ op \in ListReads
    /\ limit \in 0..MaxLimit
    /\ AskListFrom(IF op = "page_ratings" THEN "summary" ELSE "page", op, limit)

BeginOne(op) == op \in SingleReads \cup {"connection_status"} /\ AskOne(op)

LEMMA WindowedShapes ==
    ASSUME NEW metrics \in SUBSET Metrics, NEW op \in WindowedReads, NEW group,
           group = IF op # "ig_account_insights" \/ MetricsOrDefault(metrics) \subseteq SeriesOnly
                   THEN "series" ELSE "totals",
           NEW since \in Day, NEW until \in Day, NEW now \in Times,
           Windowed(op, group, metrics, since, until, now)
    PROVE  \/ BeginRefused(op)
           \/ \E window : BeginInsights(op, group, metrics, window)
<1>1. CASE WindowRefused(since, until, now)
  BY <1>1 DEF Windowed, BeginRefused
<1>2. CASE ~WindowRefused(since, until, now)
  <2>1. AskInsights(op, group, metrics, DateWindow(since, until, now))
    BY <1>2 DEF Windowed
  <2>2. BeginInsights(op, group, metrics, DateWindow(since, until, now))
    BY <1>2, <2>1 DEF BeginInsights, WindowedReads, InsightReads
  <2> QED
    BY <2>2
<1> QED
  BY <1>1, <1>2

LEMMA ListShapes ==
    ASSUME NEW n \in Limits, NEW default \in {DefaultLimit, DefaultCommentLimit},
           NEW op \in ListReads \ {"page_ratings"}
    PROVE  /\ AskList(op, ClampLimit(n, default)) => \E limit : BeginList(op, limit)
           /\ AskList(op, 0) => \E limit : BeginList(op, limit)
           /\ AskListFrom("summary", "page_ratings", ClampLimit(n, default)) =>
                 \E limit : BeginList("page_ratings", limit)
<1>0. n \in Int /\ default \in 1..MaxLimit /\ MaxLimit \in Nat
  BY ReadsAssumption DEF ReadsAssumption
<1>1. ClampLimit(n, default) \in 0..MaxLimit /\ 0 \in 0..MaxLimit /\ "page_ratings" \in ListReads
  BY <1>0, ClampLimitBounds DEF ListReads
<1>2. AskList(op, ClampLimit(n, default)) => BeginList(op, ClampLimit(n, default))
  BY <1>1 DEF AskList, BeginList
<1>3. AskList(op, 0) => BeginList(op, 0)
  BY <1>1 DEF AskList, BeginList
<1>4. AskListFrom("summary", "page_ratings", ClampLimit(n, default))
      => BeginList("page_ratings", ClampLimit(n, default))
  BY <1>1 DEF BeginList
<1> QED
  BY <1>2, <1>3, <1>4

LEMMA ReadEndShapes ==
    ASSUME NEW op \in ListReads \ {"page_ratings"}
    PROVE  AskList(op, 0) => \E limit : BeginList(op, limit)
<1>1. AskList(op, 0) => BeginList(op, 0)
  BY ReadsAssumption DEF ReadsAssumption, AskList, BeginList
<1> QED
  BY <1>1

LEMMA CallShapes ==
    ASSUME Call
    PROVE  \/ \E op \in Ops : BeginRefused(op)
           \/ \E op \in Ops, metrics \in SUBSET Metrics : \E group, window :
                 BeginInsights(op, group, metrics, window)
           \/ \E op \in Ops : \E limit : BeginList(op, limit)
           \/ \E op \in Ops : BeginOne(op)
<1> DEFINE Shapes == \/ \E op \in Ops : BeginRefused(op)
                     \/ \E op \in Ops, metrics \in SUBSET Metrics : \E group, window :
                           BeginInsights(op, group, metrics, window)
                     \/ \E op \in Ops : \E limit : BeginList(op, limit)
                     \/ \E op \in Ops : BeginOne(op)
<1>1. ASSUME NEW metrics \in SUBSET Metrics, NEW op, ObjectInsights(op, metrics)
      PROVE  Shapes
  <2>1. BeginInsights(op, "series", metrics, NoWindow) /\ op \in Ops
    BY <1>1 DEF ObjectInsights, BeginInsights, InsightReads, WindowedReads, Ops
  <2> QED
    BY <2>1
<1>2. ASSUME NEW metrics \in SUBSET Metrics, NEW since \in Day, NEW until \in Day, NEW now \in Times,
             \/ PageInsights(metrics, since, until, now)
             \/ IGAccountInsights(metrics, since, until, now)
      PROVE  Shapes
  <2>1. PICK op \in WindowedReads :
           Windowed(op, IF op # "ig_account_insights"
                           \/ MetricsOrDefault(metrics) \subseteq SeriesOnly
                        THEN "series" ELSE "totals", metrics, since, until, now)
    BY <1>2 DEF PageInsights, IGAccountInsights, WindowedReads
  <2>2. op \in Ops
    BY <2>1 DEF Ops, WindowedReads, InsightReads
  <2> QED
    BY <2>1, <2>2, WindowedShapes
<1>3. ASSUME NEW n \in Limits,
             PagePostComments(n) \/ PageScheduledPosts(n) \/ PageRatings(n) \/ IGMediaComments(n)
      PROVE  Shapes
  <2>1. \E op \in ListReads : \E limit : BeginList(op, limit)
    BY <1>3, ListShapes
       DEF PagePostComments, PageScheduledPosts, PageRatings, IGMediaComments, ListReads
  <2> QED
    BY <2>1 DEF Ops
<1>4. ASSUME NEW n \in Limits, NEW since \in Day, PagePosts(n, since) \/ IGMedia(n, since)
      PROVE  Shapes
  <2>1. \E op \in {"page_posts", "ig_media"} :
           Refuse(op) \/ AskList(op, ClampLimit(n, DefaultLimit))
    BY <1>4 DEF PagePosts, IGMedia, AskListSince
  <2>2. \E op \in ListReads : BeginRefused(op) \/ \E limit : BeginList(op, limit)
    BY <2>1, ListShapes DEF ListReads, BeginRefused
  <2> QED
    BY <2>2 DEF Ops
<1>5. ASSUME IGStories \/ Accounts PROVE Shapes
  <2>1. \E op \in ListReads : \E limit : BeginList(op, limit)
    BY <1>5, ReadEndShapes DEF IGStories, Accounts, ListReads
  <2> QED
    BY <2>1 DEF Ops
<1>6. ASSUME \/ \E allowed \in BOOLEAN : IGFollowerDemographics(allowed)
             \/ ListPages \/ PageInsightsMetadata \/ ConnectionStatus
      PROVE  Shapes
  <2>1. \E op \in SingleReads \cup {"connection_status"} : Refuse(op) \/ AskOne(op)
    BY <1>6 DEF IGFollowerDemographics, ListPages, PageInsightsMetadata, ConnectionStatus, SingleReads
  <2> QED
    BY <2>1 DEF Ops, BeginRefused, BeginOne
<1> QED
  BY <1>1, <1>2, <1>3, <1>4, <1>5, <1>6 DEF Call

\* The steps a kind of read goes through.
StepsFit ==
    /\ read.step \in {"batch", "single"} => read.op \in InsightReads
    /\ read.step = "summary" => read.op = "page_ratings"
    /\ read.step = "page" => read.op \in ListReads
    /\ read.step = "request" => read.op \in SingleReads \cup {"connection_status"}
    /\ read.step \in {"debug", "link"} => read.op = "connection_status"

TypeInv == TypeOK /\ StepsFit

Answered == {"ok", "error", "refused"}

LEMMA KindsApart ==
    /\ InsightReads \cap ListReads = {} /\ InsightReads \cap SingleReads = {}
    /\ ListReads \cap SingleReads = {} /\ "page_ratings" \in ListReads
    /\ "connection_status" \notin InsightReads \cup ListReads \cup SingleReads
    /\ "none" \notin Ops /\ WindowedReads \subseteq InsightReads
  BY DEF InsightReads, ListReads, SingleReads, Ops, WindowedReads

LEMMA RequestShapes ==
    ASSUME TypeInv, Request
    PROVE  /\ read.op \in InsightReads =>
                 BatchServed \/ BatchRefused \/ (\E m \in Metrics : Single(m)) \/ Fails
           /\ read.op \in ListReads =>
                 Summary \/ ListPage \/ ReadPlainly \/ SummaryOnly \/ Fails
           /\ read.op \in SingleReads => RequestServed \/ Fails
           /\ read.op = "connection_status" =>
                 \/ TenantLoaded \/ DebugTokenFails \/ AttachReconnectLink \/ Fails
                 \/ \E valid \in BOOLEAN, granted \in SUBSET Scopes : DebugToken(valid, granted)
<1>1. /\ read.op \in InsightReads => read.step \notin {"summary", "page", "request", "debug", "link"}
      /\ read.op \in ListReads => read.step \notin {"batch", "single", "request", "debug", "link"}
      /\ read.op \in SingleReads =>
            read.step \notin {"batch", "single", "summary", "page", "debug", "link"}
      /\ read.op = "connection_status" => read.step \notin {"batch", "single", "summary", "page"}
  BY KindsApart DEF TypeInv, StepsFit
<1>2. /\ BatchServed \/ BatchRefused => read.step = "batch"
      /\ (\E m \in Metrics : Single(m)) => read.step = "single"
      /\ Summary => read.step = "summary"
      /\ ListPage \/ ReadPlainly \/ SummaryOnly => read.step = "page"
      /\ RequestServed => read.step = "request" /\ read.op \in SingleReads
      /\ TenantLoaded => read.step = "request" /\ read.op = "connection_status"
      /\ (\E valid \in BOOLEAN, granted \in SUBSET Scopes : DebugToken(valid, granted))
            => read.step = "debug"
      /\ DebugTokenFails => read.step = "debug"
      /\ AttachReconnectLink => read.step = "link"
  BY DEF BatchServed, BatchRefused, Single, Summary, ListPage, ReadPlainly, SummaryOnly,
         RequestServed, TenantLoaded, DebugToken, DebugTokenFails, Diagnose, AttachReconnectLink
<1> QED
  BY <1>1, <1>2, KindsApart DEF Request

-----------------------------------------------------------------------------
(* Type correctness.                                                       *)

LEMMA AfterGroupIsRead ==
    ASSUME NEW r \in Read, r.op \in InsightReads
    PROVE  /\ AfterGroup(r) \in Read
           /\ AfterGroup(r).op = r.op /\ AfterGroup(r).step \in {"batch", "ok"}
           /\ AfterGroup(r).asked = r.asked /\ AfterGroup(r).window = r.window
           /\ AfterGroup(r).values = r.values /\ AfterGroup(r).rejected = r.rejected
           /\ AfterGroup(r).broken = r.broken /\ AfterGroup(r).limit = r.limit
  BY DEF AfterGroup, Read

\* What a page does to a walk, and that the walk stays within its bounds.
LEMMA CollectIsRead ==
    ASSUME TypeOK, NEW r \in Read, r.step = "page", NEW k \in Nat, NEW more \in BOOLEAN,
           r.got + k <= total, NEW after, after = Collect(r, k, more)
    PROVE  /\ after \in Read
           /\ after.op = r.op /\ after.limit = r.limit /\ after.asked = r.asked
           /\ after.plain = r.plain /\ after.window = r.window /\ after.broken = r.broken
           /\ \/ /\ r.pages = MaxPages
                 /\ after.step = "ok" /\ after.got = r.got /\ after.pages = MaxPages
              \/ /\ r.limit > 0 /\ r.got + k >= r.limit
                 /\ after.step = "ok" /\ after.got = r.limit
              \/ /\ r.limit > 0 => r.got + k < r.limit
                 /\ after.got = r.got + k
                 /\ after.step = IF more THEN "page" ELSE "ok"
<1> DEFINE next == [r EXCEPT !.got = r.got + k, !.pages = r.pages + 1]
           Outcome(got, pages, step) ==
              \/ r.pages = MaxPages /\ step = "ok" /\ got = r.got /\ pages = MaxPages
              \/ r.limit > 0 /\ r.got + k >= r.limit /\ step = "ok" /\ got = r.limit
              \/ /\ r.limit > 0 => r.got + k < r.limit
                 /\ got = r.got + k
                 /\ step = IF more THEN "page" ELSE "ok"
<1>1. /\ MaxPages \in Nat /\ MaxItems \in Nat /\ MaxLimit \in Nat /\ total \in 0..MaxItems
      /\ r.pages \in 0..MaxPages /\ r.got \in 0..MaxItems /\ r.limit \in 0..MaxLimit
  BY ReadsAssumption DEF ReadsAssumption, TypeOK, Read
<1>2. /\ r.got + k \in 0..MaxItems
      /\ r.got + k >= r.limit => r.limit \in 0..MaxItems
      /\ r.pages # MaxPages => r.pages + 1 \in 0..MaxPages
  BY <1>1
<1>3. /\ next.got = r.got + k
      /\ [r EXCEPT !.step = "ok"] = [r EXCEPT !.got = r.got, !.pages = r.pages, !.step = "ok"]
      /\ next = [r EXCEPT !.got = r.got + k, !.pages = r.pages + 1, !.step = r.step]
      /\ [next EXCEPT !.step = "ok"]
            = [r EXCEPT !.got = r.got + k, !.pages = r.pages + 1, !.step = "ok"]
      /\ [next EXCEPT !.got = r.limit, !.step = "ok"]
            = [r EXCEPT !.got = r.limit, !.pages = r.pages + 1, !.step = "ok"]
  BY DEF Read
<1>4. \E got \in 0..MaxItems, pages \in 0..MaxPages, step \in {"page", "ok"} :
         /\ after = [r EXCEPT !.got = got, !.pages = pages, !.step = step]
         /\ Outcome(got, pages, step)
  <2>1. CASE r.pages = MaxPages
    <3>1. after = [r EXCEPT !.got = r.got, !.pages = r.pages, !.step = "ok"]
      BY <1>3, <2>1 DEF Collect
    <3>2. Outcome(r.got, r.pages, "ok")
      BY <2>1
    <3> QED
      BY <1>1, <3>1, <3>2
  <2>2. CASE r.pages # MaxPages /\ r.limit > 0 /\ r.got + k >= r.limit
    <3>1. after = [r EXCEPT !.got = r.limit, !.pages = r.pages + 1, !.step = "ok"]
      BY <1>3, <2>2 DEF Collect
    <3>2. Outcome(r.limit, r.pages + 1, "ok")
      BY <2>2
    <3> QED
      BY <1>2, <2>2, <3>1, <3>2
  <2>3. CASE r.pages # MaxPages /\ ~(r.limit > 0 /\ r.got + k >= r.limit)
    <3>1. r.limit > 0 => r.got + k < r.limit
      BY <1>1, <1>2, <2>3
    <3>2. Outcome(r.got + k, r.pages + 1, IF more THEN r.step ELSE "ok")
      BY <3>1
    <3>3. after = [r EXCEPT !.got = r.got + k, !.pages = r.pages + 1,
                            !.step = IF more THEN r.step ELSE "ok"]
      BY <1>3, <2>3 DEF Collect
    <3> QED
      BY <1>2, <2>3, <3>2, <3>3
  <2> QED
    BY <2>1, <2>2, <2>3
<1>5. PICK got \in 0..MaxItems, pages \in 0..MaxPages, step \in {"page", "ok"} :
         /\ after = [r EXCEPT !.got = got, !.pages = pages, !.step = step]
         /\ Outcome(got, pages, step)
  BY <1>4
<1> HIDE DEF Outcome
<1>6. /\ after \in Read
      /\ after.op = r.op /\ after.limit = r.limit /\ after.asked = r.asked
      /\ after.plain = r.plain /\ after.window = r.window /\ after.broken = r.broken
      /\ after.got = got /\ after.pages = pages /\ after.step = step
  <2>1. after = [r EXCEPT !.got = got, !.pages = pages, !.step = step]
    BY <1>5
  <2>2. after \in Read
    BY <2>1 DEF Read
  <2> QED
    BY <2>1, <2>2 DEF Read
<1> QED
  BY <1>5, <1>6 DEF Outcome

\* A request leaves alone what the read is about, and what Meta is.
Kept ==
    /\ read' \in Read /\ UNCHANGED metaVars
    /\ read'.op = read.op /\ read'.asked = read.asked
    /\ read'.window = read.window /\ read'.limit = read.limit
    /\ read'.step # "refused"

LEMMA RequestBegun ==
    ASSUME TypeInv, Request
    PROVE  read \in Read /\ read.step \notin Answered
<1>1. read.step \in {"batch", "single", "summary", "page", "request", "debug", "link"}
  BY DEF Request, BatchServed, BatchRefused, Single, Summary, ListPage, ReadPlainly, SummaryOnly,
         RequestServed, TenantLoaded, DebugToken, DebugTokenFails, Diagnose, AttachReconnectLink, Fails
<1> QED
  BY <1>1 DEF TypeInv, TypeOK, NoRead, Answered

LEMMA FailsKeeps ==
    ASSUME TypeInv, read \in Read, Fails
    PROVE  Kept /\ read'.step = "error" /\ read'.broken
  BY DEF Fails, Kept, Read

LEMMA InsightsKeep ==
    ASSUME TypeInv, read \in Read, read.op \in InsightReads,
           BatchServed \/ BatchRefused \/ \E m \in Metrics : Single(m)
    PROVE  Kept /\ read'.broken = read.broken /\ read'.step \in {"batch", "single", "ok"}
<1>1. Group(read) \in SUBSET Metrics
  BY DEF Group, Read
<1>2. CASE BatchServed
  <2> DEFINE done == [read EXCEPT !.values = @ \cup Group(read)]
  <2>1. done \in Read /\ done.op = read.op /\ done.asked = read.asked
        /\ done.window = read.window /\ done.limit = read.limit /\ done.broken = read.broken
    BY <1>1 DEF Read
  <2>2. read' = AfterGroup(done) /\ UNCHANGED metaVars
    BY <1>2 DEF BatchServed
  <2> HIDE DEF done
  <2> QED
    BY <2>1, <2>2, AfterGroupIsRead DEF Kept
<1>3. CASE BatchRefused
  BY <1>1, <1>3 DEF BatchRefused, Kept, Read
<1>4. ASSUME NEW m \in Metrics, Single(m)
      PROVE  Kept /\ read'.broken = read.broken /\ read'.step \in {"batch", "single", "ok"}
  <2> DEFINE rest == read.left \ {m}
             done == [read EXCEPT !.left = rest,
                         !.values   = IF Served(m, read) THEN @ \cup {m} ELSE @,
                         !.rejected = IF Served(m, read) THEN @ ELSE @ \cup {m}]
  <2>1. done \in Read /\ done.op = read.op /\ done.asked = read.asked /\ done.step = read.step
        /\ done.window = read.window /\ done.limit = read.limit /\ done.broken = read.broken
    BY DEF Read
  <2>2. (read' = IF rest = {} THEN AfterGroup(done) ELSE done)
        /\ UNCHANGED metaVars /\ read.step = "single"
    BY <1>4 DEF Single
  <2> HIDE DEF rest, done
  <2> QED
    BY <2>1, <2>2, AfterGroupIsRead DEF Kept
<1> QED
  BY <1>2, <1>3, <1>4

LEMMA ListsKeep ==
    ASSUME TypeInv, read \in Read, read.op \in ListReads,
           Summary \/ ListPage \/ ReadPlainly \/ SummaryOnly
    PROVE  Kept /\ read'.broken = read.broken /\ read'.step \in {"page", "ok"}
<1>1. CASE Summary
  BY <1>1 DEF Summary, Kept, Read
<1>2. CASE ListPage
  <2>1. PICK k \in 0..PageSize(read.limit), more \in BOOLEAN :
           read.got + k <= total /\ read' = Collect(read, k, more)
    BY <1>2 DEF ListPage
  <2>2. read.limit \in Nat
    BY ReadsAssumption DEF ReadsAssumption, Read
  <2>3. k \in Nat
    BY <2>2, PageSizeBounds
  <2> QED
    BY <1>2, <2>1, <2>3, CollectIsRead DEF TypeInv, ListPage, Kept
<1>3. CASE ReadPlainly
  <2>1. 0 \in 0..MaxItems /\ 0 \in 0..MaxPages
    BY ReadsAssumption DEF ReadsAssumption
  <2> QED
    BY <1>3, <2>1 DEF ReadPlainly, Kept, Read
<1>4. CASE SummaryOnly
  BY <1>4 DEF SummaryOnly, Kept, Read
<1> QED
  BY <1>1, <1>2, <1>3, <1>4

LEMMA FillIsStatus ==
    ASSUME NEW told \in BOOLEAN, NEW valid \in BOOLEAN, NEW granted \in SUBSET Scopes,
           NEW status, status = Fill(told, valid, granted)
    PROVE  /\ status \in Status
           /\ status.told = told /\ status.valid = valid /\ status.granted = granted
           /\ status.healthy <=> valid /\ (granted # {} => RequiredScopes \subseteq granted)
           /\ status.link = "none"
<1> DEFINE missing == IF granted = {} THEN {} ELSE RequiredScopes \ granted
<1>1. status = [told |-> told, valid |-> valid, granted |-> granted, missing |-> missing,
                healthy |-> valid /\ missing = {}, link |-> "none"]
  BY DEF Fill
<1>2. missing \subseteq RequiredScopes
      /\ (missing = {} <=> (granted # {} => RequiredScopes \subseteq granted))
  OBVIOUS
<1> HIDE DEF missing
<1>3. PICK healthy \in BOOLEAN : healthy = (valid /\ missing = {})
  OBVIOUS
<1>4. status = [told |-> told, valid |-> valid, granted |-> granted, missing |-> missing,
                healthy |-> healthy, link |-> "none"]
  BY <1>1, <1>3
<1>5. status \in Status
  BY <1>2, <1>4 DEF Status
<1>6. /\ status.told = told /\ status.valid = valid /\ status.granted = granted
      /\ status.healthy = healthy /\ status.link = "none"
  BY <1>4
<1> QED
  BY <1>2, <1>3, <1>5, <1>6

\* Whatever is diagnosed was filled in from what Meta said, or from its silence.
LEMMA DiagnosisShape ==
    ASSUME DebugTokenFails \/ \E valid \in BOOLEAN, granted \in SUBSET Scopes : DebugToken(valid, granted)
    PROVE  \E told, valid \in BOOLEAN, granted \in SUBSET Scopes :
              (valid => told) /\ Diagnose(Fill(told, valid, granted))
<1>1. CASE DebugTokenFails
  <2>1. (FALSE => FALSE) /\ Diagnose(Fill(FALSE, FALSE, {})) /\ {} \in SUBSET Scopes
    BY <1>1 DEF DebugTokenFails
  <2> QED
    BY <2>1
<1>2. ASSUME NEW valid \in BOOLEAN, NEW granted \in SUBSET Scopes, DebugToken(valid, granted)
      PROVE  (valid => TRUE) /\ Diagnose(Fill(TRUE, valid, granted))
  BY <1>2 DEF DebugToken
<1> QED
  BY <1>1, <1>2

LEMMA OthersKeep ==
    ASSUME TypeInv, read \in Read,
           \/ RequestServed \/ TenantLoaded \/ DebugTokenFails \/ AttachReconnectLink
           \/ \E valid \in BOOLEAN, granted \in SUBSET Scopes : DebugToken(valid, granted)
    PROVE  /\ Kept /\ read'.broken = read.broken
           /\ \/ read'.step = "ok"
              \/ read.op = "connection_status" /\ read'.step \in {"debug", "link"}
<1>1. CASE RequestServed
  BY <1>1 DEF RequestServed, Kept, Read
<1>2. CASE TenantLoaded
  BY <1>2 DEF TenantLoaded, Kept, Read
<1>3. CASE AttachReconnectLink
  <2>1. PICK link \in {"drawn", "lost"} :
             read' = [read EXCEPT !.status.link = link, !.step = "ok"]
    BY <1>3 DEF AttachReconnectLink
  <2> DEFINE status == [read.status EXCEPT !.link = link]
  <2>2. status \in Status
    BY DEF Read, Status
  <2>3. read' = [read EXCEPT !.status = status, !.step = "ok"] /\ UNCHANGED metaVars
    BY <1>3, <2>1 DEF AttachReconnectLink, Read
  <2> HIDE DEF status
  <2> QED
    BY <2>2, <2>3 DEF Kept, Read
<1>4. CASE DebugTokenFails \/ \E valid \in BOOLEAN, granted \in SUBSET Scopes : DebugToken(valid, granted)
  <2>1. PICK told, valid \in BOOLEAN, granted \in SUBSET Scopes : Diagnose(Fill(told, valid, granted))
    BY <1>4, DiagnosisShape
  <2> DEFINE status == Fill(told, valid, granted)
  <2>2. status \in Status
    BY FillIsStatus
  <2>3. /\ read' = [read EXCEPT !.status = status, !.step = IF status.healthy THEN "ok" ELSE "link"]
        /\ read.step = "debug" /\ UNCHANGED metaVars
    BY <2>1 DEF Diagnose
  <2>4. read.op = "connection_status"
    BY <2>3 DEF TypeInv, StepsFit
  <2> HIDE DEF status
  <2> QED
    BY <2>2, <2>3, <2>4 DEF Kept, Read
<1> QED
  BY <1>1, <1>2, <1>3, <1>4

LEMMA RequestKeeps == ASSUME TypeInv, Request PROVE Kept /\ StepsFit'
<1>1. read \in Read /\ read.op \in InsightReads \cup ListReads \cup SingleReads \cup {"connection_status"}
  BY RequestBegun DEF Read
<1>2. CASE Fails
  BY <1>1, <1>2, FailsKeeps DEF StepsFit
<1>3. CASE read.op \in InsightReads /\ ~Fails
  BY <1>1, <1>3, RequestShapes, InsightsKeep DEF StepsFit, Kept
<1>4. CASE read.op \in ListReads /\ ~Fails
  BY <1>1, <1>4, RequestShapes, ListsKeep DEF StepsFit, Kept
<1>5. CASE read.op \in SingleReads \cup {"connection_status"} /\ ~Fails
  BY <1>1, <1>5, RequestShapes, OthersKeep DEF StepsFit, Kept
<1> QED
  BY <1>1, <1>2, <1>3, <1>4, <1>5

LEMMA NoReadFields ==
    /\ NoRead \notin Read /\ NoRead.op = "none" /\ NoRead.step = "idle" /\ ~NoRead.broken
    /\ NoRead.window = NoWindow
  BY DEF NoRead, Read

LEMMA BegunRefused ==
    ASSUME NEW op \in Ops, BeginRefused(op)
    PROVE  /\ read = NoRead /\ UNCHANGED metaVars
           /\ read' \in Read /\ read'.op = op /\ read'.step = "refused"
           /\ ~read'.broken /\ read'.window = NoWindow
<1>1. 0 \in 0..MaxLimit /\ 0 \in 0..MaxItems /\ 0 \in 0..MaxPages
      /\ NoWindow \in [since : Day, until : Day, from : Int, to : Int]
  BY ReadsAssumption DEF ReadsAssumption, NoWindow, Day
<1>2. NoStatus \in Status
  BY DEF NoStatus, Status
<1>3. read = NoRead /\ UNCHANGED metaVars /\ read' = [NoRead EXCEPT !.op = op, !.step = "refused"]
  BY DEF BeginRefused, Refuse, Ask
<1> QED
  BY <1>1, <1>2, <1>3 DEF NoRead, Read, Ops

LEMMA BegunOne ==
    ASSUME NEW op \in Ops, BeginOne(op)
    PROVE  /\ read = NoRead /\ UNCHANGED metaVars /\ op \in SingleReads \cup {"connection_status"}
           /\ read' \in Read /\ read'.op = op /\ read'.step = "request"
           /\ ~read'.broken /\ read'.window = NoWindow
<1>1. 0 \in 0..MaxLimit /\ 0 \in 0..MaxItems /\ 0 \in 0..MaxPages
      /\ NoWindow \in [since : Day, until : Day, from : Int, to : Int]
  BY ReadsAssumption DEF ReadsAssumption, NoWindow, Day
<1>2. NoStatus \in Status
  BY DEF NoStatus, Status
<1>3. read = NoRead /\ UNCHANGED metaVars /\ read' = [NoRead EXCEPT !.op = op, !.step = "request"]
      /\ op \in SingleReads \cup {"connection_status"}
  BY DEF BeginOne, AskOne, Ask
<1> QED
  BY <1>1, <1>2, <1>3 DEF NoRead, Read, Ops

LEMMA BegunList ==
    ASSUME NEW op \in Ops, NEW limit, BeginList(op, limit)
    PROVE  /\ read = NoRead /\ op \in ListReads
           /\ supported' = supported /\ total' \in 0..MaxItems
           /\ inlined' \in BOOLEAN /\ retired' \in BOOLEAN
           /\ read' \in Read /\ read'.op = op /\ read'.limit = limit /\ limit \in 0..MaxLimit
           /\ read'.step = IF op = "page_ratings" THEN "summary" ELSE "page"
           /\ read'.got = 0 /\ read'.pages = 0
           /\ ~read'.broken /\ read'.window = NoWindow
<1>1. 0 \in 0..MaxItems /\ 0 \in 0..MaxPages
      /\ NoWindow \in [since : Day, until : Day, from : Int, to : Int]
  BY ReadsAssumption DEF ReadsAssumption, NoWindow, Day
<1>2. NoStatus \in Status
  BY DEF NoStatus, Status
<1>3. /\ read = NoRead /\ op \in ListReads /\ limit \in 0..MaxLimit
      /\ supported' = supported /\ total' \in 0..MaxItems
      /\ inlined' \in BOOLEAN /\ retired' \in BOOLEAN
      /\ read' = [NoRead EXCEPT !.op = op, !.limit = limit,
                     !.step = IF op = "page_ratings" THEN "summary" ELSE "page"]
  BY DEF BeginList, AskListFrom, Ask, NoRead
<1> QED
  BY <1>1, <1>2, <1>3 DEF NoRead, Read, Ops

LEMMA BegunInsights ==
    ASSUME NEW op \in Ops, NEW group, NEW metrics \in SUBSET Metrics, NEW window,
           BeginInsights(op, group, metrics, window)
    PROVE  /\ read = NoRead /\ op \in InsightReads
           /\ UNCHANGED <<inlined, retired, total>> /\ supported' \in SUBSET Metrics
           /\ read' \in Read /\ read'.op = op /\ read'.step = "batch"
           /\ read'.values = {} /\ read'.rejected = {}
           /\ read'.group = IF op # "ig_account_insights" \/ read'.asked \subseteq SeriesOnly
                            THEN "series" ELSE "totals"
           /\ ~read'.broken /\ read'.window = window
           /\ op \in WindowedReads => window.from < window.to
           /\ {window.since, window.until} \subseteq Days =>
                 window.from..window.to =
                    UNION {FirstSecond(day)..LastSecond(day) : day \in window.since..window.until}
<1> DEFINE asked == MetricsOrDefault(metrics)
<1>1. 0 \in 0..MaxItems /\ 0 \in 0..MaxPages /\ 0 \in 0..MaxLimit /\ asked \in SUBSET Metrics
  BY ReadsAssumption, DefaultsAsked DEF ReadsAssumption
<1>2. NoStatus \in Status
  BY DEF NoStatus, Status
<1>3. /\ window \in [since : Day, until : Day, from : Int, to : Int]
      /\ op \in WindowedReads => window.from < window.to
      /\ {window.since, window.until} \subseteq Days =>
            window.from..window.to =
               UNION {FirstSecond(day)..LastSecond(day) : day \in window.since..window.until}
  <2>1. CASE op \notin WindowedReads /\ window = NoWindow
    <3>1. window.since = Absent /\ window \in [since : Day, until : Day, from : Int, to : Int]
      BY <2>1 DEF NoWindow, Day
    <3>2. Absent \notin Days
      BY ReadsAssumption DEF ReadsAssumption
    <3> QED
      BY <2>1, <3>1, <3>2
  <2>2. ASSUME NEW since \in Day, NEW until \in Day, NEW now \in Times,
               ~WindowRefused(since, until, now), window = DateWindow(since, until, now)
        PROVE  /\ window \in [since : Day, until : Day, from : Int, to : Int]
               /\ op \in WindowedReads => window.from < window.to
               /\ {window.since, window.until} \subseteq Days =>
                     window.from..window.to =
                        UNION {FirstSecond(day)..LastSecond(day) : day \in window.since..window.until}
    BY <2>2, WindowBounds
  <2> QED
    BY <2>1, <2>2 DEF BeginInsights
<1>4. /\ read = NoRead /\ op \in InsightReads /\ group \in {"totals", "series"}
      /\ group = IF op # "ig_account_insights" \/ asked \subseteq SeriesOnly
                 THEN "series" ELSE "totals"
      /\ UNCHANGED <<inlined, retired, total>> /\ supported' \in SUBSET Metrics
      /\ read' = [NoRead EXCEPT !.op = op, !.step = "batch", !.group = group,
                                !.asked = asked, !.window = window]
  BY DEF BeginInsights, AskInsights, Ask
<1> HIDE DEF asked
<1>5. /\ read' \in Read /\ read'.op = op /\ read'.step = "batch"
      /\ read'.values = {} /\ read'.rejected = {} /\ read'.asked = asked
      /\ read'.group = group /\ ~read'.broken /\ read'.window = window
  BY <1>1, <1>2, <1>3, <1>4 DEF NoRead, Read
<1> QED
  BY <1>3, <1>4, <1>5

LEMMA InitTypeInv == Init => TypeInv
<1> SUFFICES ASSUME Init PROVE TypeInv
  OBVIOUS
<1>1. StepsFit
  BY DEF Init, StepsFit, NoRead
<1>2. total \in 0..MaxItems
  BY ReadsAssumption DEF ReadsAssumption, Init
<1>3. inlined \in BOOLEAN /\ retired \in BOOLEAN /\ supported \subseteq Metrics /\ read = NoRead
  BY DEF Init
<1> QED
  BY <1>1, <1>2, <1>3 DEF TypeInv, TypeOK

LEMMA NextTypeInv == TypeInv /\ [Next]_vars => TypeInv'
<1> SUFFICES ASSUME TypeInv, [Next]_vars PROVE TypeInv'
  OBVIOUS
<1>1. CASE UNCHANGED vars
  BY <1>1 DEF vars, metaVars, TypeInv, TypeOK, StepsFit
<1>2. CASE Request
  <2>1. Kept /\ StepsFit'
    BY <1>2, RequestKeeps
  <2> QED
    BY <2>1 DEF TypeInv, TypeOK, Kept, metaVars
<1>3. CASE Return
  <2>1. StepsFit'
    BY <1>3 DEF Return, StepsFit, NoRead
  <2>2. total' \in 0..MaxItems
    BY <1>3, ReadsAssumption DEF ReadsAssumption, Return
  <2>3. inlined' \in BOOLEAN /\ retired' \in BOOLEAN /\ supported' \subseteq Metrics /\ read' = NoRead
    BY <1>3 DEF Return
  <2> QED
    BY <2>1, <2>2, <2>3 DEF TypeInv, TypeOK
<1>4. ASSUME NEW op \in Ops, BeginRefused(op) PROVE TypeInv'
  BY <1>4, BegunRefused DEF TypeInv, TypeOK, StepsFit, metaVars
<1>5. ASSUME NEW op \in Ops, BeginOne(op) PROVE TypeInv'
  BY <1>5, BegunOne DEF TypeInv, TypeOK, StepsFit, metaVars
<1>6. ASSUME NEW op \in Ops, NEW limit, BeginList(op, limit) PROVE TypeInv'
  BY <1>6, BegunList DEF TypeInv, TypeOK, StepsFit
<1>7. ASSUME NEW op \in Ops, NEW group, NEW metrics \in SUBSET Metrics, NEW window,
             BeginInsights(op, group, metrics, window)
      PROVE  TypeInv'
  BY <1>7, BegunInsights DEF TypeInv, TypeOK, StepsFit
<1> QED
  BY <1>1, <1>2, <1>3, <1>4, <1>5, <1>6, <1>7, CallShapes DEF Next

\* Type correctness: whatever is asked, whatever Meta serves and however it cuts
\* its lists, a read stays in its domains, the counts of items and of pages in
\* theirs (the handlers of reads.go and collect).
THEOREM TypeCorrect == Spec => []TypeOK
<1>1. TypeInv => TypeOK
  BY DEF TypeInv
<1> QED
  BY <1>1, InitTypeInv, NextTypeInv, PTL DEF Spec

-----------------------------------------------------------------------------
(* Failures.                                                               *)

\* A read is broken from the request that failed until it is answered.
BrokenEnds == read.broken <=> read.step = "error"

FailureInv == TypeInv /\ BrokenEnds

LEMMA NextFailureInv == FailureInv /\ [Next]_vars => FailureInv'
<1> SUFFICES ASSUME FailureInv, [Next]_vars PROVE BrokenEnds'
  BY NextTypeInv DEF FailureInv
<1>1. CASE UNCHANGED vars
  BY <1>1 DEF vars, FailureInv, BrokenEnds
<1>2. CASE Request
  <2>1. TypeInv /\ read \in Read /\ ~read.broken
    BY <1>2, RequestBegun DEF FailureInv, BrokenEnds, Answered
  <2>2. read.op \in InsightReads \cup ListReads \cup SingleReads \cup {"connection_status"}
    BY <2>1 DEF Read
  <2>3. CASE Fails
    BY <2>1, <2>3, FailsKeeps DEF BrokenEnds
  <2>4. CASE read.op \in InsightReads /\ ~Fails
    BY <1>2, <2>1, <2>4, RequestShapes, InsightsKeep DEF BrokenEnds
  <2>5. CASE read.op \in ListReads /\ ~Fails
    BY <1>2, <2>1, <2>5, RequestShapes, ListsKeep DEF BrokenEnds
  <2>6. CASE read.op \in SingleReads \cup {"connection_status"} /\ ~Fails
    BY <1>2, <2>1, <2>6, RequestShapes, OthersKeep DEF BrokenEnds
  <2> QED
    BY <2>2, <2>3, <2>4, <2>5, <2>6
<1>3. CASE Return
  BY <1>3, NoReadFields DEF Return, BrokenEnds
<1>4. CASE Call
  <2>1. ~read'.broken /\ read'.step # "error"
    BY <1>4, CallShapes, BegunRefused, BegunOne, BegunList, BegunInsights
  <2> QED
    BY <2>1 DEF BrokenEnds
<1> QED
  BY <1>1, <1>2, <1>3, <1>4 DEF Next

\* A read fails exactly when one of its requests failed for a reason of its own,
\* whatever Meta refuses or has retired (insightsWithFallback, PagePosts and
\* PageRatings).
THEOREM RealFailures == Spec => []OnlyRealFailuresFail
<1>1. Init => FailureInv
  BY InitTypeInv, NoReadFields DEF Init, FailureInv, BrokenEnds
<1>2. FailureInv => OnlyRealFailuresFail
  BY DEF FailureInv, BrokenEnds, OnlyRealFailuresFail
<1> QED
  BY <1>1, <1>2, NextFailureInv, PTL DEF Spec

-----------------------------------------------------------------------------
(* Windows.                                                                *)

WindowInv == TypeInv /\ WindowIsWholeDays

LEMMA NoWindowIsWhole ==
    ASSUME NEW window, window = NoWindow
    PROVE  ~({window.since, window.until} \subseteq Days)
  BY ReadsAssumption DEF ReadsAssumption, NoWindow

LEMMA NextWindowInv == WindowInv /\ [Next]_vars => WindowInv'
<1> SUFFICES ASSUME WindowInv, [Next]_vars PROVE WindowIsWholeDays'
  BY NextTypeInv DEF WindowInv
<1>0. /\ TypeInv
      /\ {read.window.since, read.window.until} \subseteq Days =>
            read.window.from..read.window.to =
               UNION {FirstSecond(day)..LastSecond(day) : day \in read.window.since..read.window.until}
      /\ read.op \in WindowedReads /\ read.step # "refused" =>
            read.window.from < read.window.to
  BY DEF WindowInv, WindowIsWholeDays, WindowedReads
<1>1. CASE UNCHANGED vars
  BY <1>0, <1>1 DEF vars, WindowIsWholeDays, WindowedReads
<1>2. CASE Request
  <2>1. read'.window = read.window /\ read'.op = read.op /\ read.step # "refused"
    BY <1>0, <1>2, RequestKeeps, RequestBegun DEF Kept, Answered
  <2> QED
    BY <1>0, <2>1 DEF WindowIsWholeDays, WindowedReads
<1>3. CASE Return
  <2>1. read'.window = NoWindow /\ read'.op \notin WindowedReads
    BY <1>3, NoReadFields DEF Return, WindowedReads
  <2> QED
    BY <2>1, NoWindowIsWhole DEF WindowIsWholeDays, WindowedReads
<1>4. ASSUME read'.window = NoWindow, read'.op \notin WindowedReads \/ read'.step = "refused"
      PROVE  WindowIsWholeDays'
  BY <1>4, NoWindowIsWhole DEF WindowIsWholeDays, WindowedReads
<1>5. ASSUME NEW op \in Ops, BeginRefused(op) PROVE WindowIsWholeDays'
  BY <1>4, <1>5, BegunRefused
<1>6. ASSUME NEW op \in Ops, BeginOne(op) PROVE WindowIsWholeDays'
  BY <1>4, <1>6, BegunOne, KindsApart
<1>7. ASSUME NEW op \in Ops, NEW limit, BeginList(op, limit) PROVE WindowIsWholeDays'
  BY <1>4, <1>7, BegunList, KindsApart
<1>8. ASSUME NEW op \in Ops, NEW group, NEW metrics \in SUBSET Metrics, NEW window,
             BeginInsights(op, group, metrics, window)
      PROVE  WindowIsWholeDays'
  BY <1>8, BegunInsights DEF WindowIsWholeDays, WindowedReads
<1> QED
  BY <1>1, <1>2, <1>3, <1>5, <1>6, <1>7, <1>8, CallShapes DEF Next

\* A window of two days given is exactly these days and those between, second
\* by second, and no window is empty or runs backwards, for days and lengths of
\* a day of any size (dateWindow).
THEOREM WholeDays == Spec => []WindowIsWholeDays
<1>1. Init => WindowInv
  <2>1. ASSUME Init PROVE WindowIsWholeDays
    <3>1. read.window = NoWindow /\ read.op \notin WindowedReads
      BY <2>1, NoReadFields DEF Init, WindowedReads
    <3> QED
      BY <3>1, NoWindowIsWhole DEF WindowIsWholeDays, WindowedReads
  <2> QED
    BY <2>1, InitTypeInv DEF WindowInv
<1>2. WindowInv => WindowIsWholeDays
  BY DEF WindowInv
<1> QED
  BY <1>1, <1>2, NextWindowInv, PTL DEF Spec

-----------------------------------------------------------------------------
(* Insights.                                                               *)

Later(r) == IF r.group = "totals" THEN r.asked \cap SeriesOnly ELSE {}

\* The metrics a read has no answer for yet.
Pending(r) ==
    IF r.step = "batch" THEN Group(r) \cup Later(r)
    ELSE IF r.step = "single" THEN r.left \cup Later(r) ELSE {}

\* Only an account has totals; what is asked metric by metric is of the group;
\* every metric that is not pending has its values or is reported.
Accounted(r) ==
    /\ r.group = "totals" => r.op = "ig_account_insights"
    /\ r.step = "single" => r.left \subseteq Group(r)
    /\ r.values = (r.asked \ Pending(r)) \cap supported
    /\ r.rejected = (r.asked \ Pending(r)) \ supported

InsightsInv ==
    /\ TypeInv
    /\ read.op \in InsightReads /\ read.step \in {"batch", "single", "ok"} => Accounted(read)

LEMMA GroupOf ==
    ASSUME NEW r, r.group \in {"totals", "series"}, r.group = "totals" => r.op = "ig_account_insights"
    PROVE  /\ Group(r) \subseteq r.asked /\ Later(r) \subseteq r.asked
           /\ Group(r) \cap Later(r) = {}
           /\ \A m \in Group(r) : Served(m, r) <=> m \in supported
  BY GroupServed DEF Group, Later

\* The next group is what the first one has left over.
LEMMA AfterGroupPends ==
    ASSUME NEW r \in Read, r.group = "totals" => r.op = "ig_account_insights",
           NEW after, after = AfterGroup(r)
    PROVE  /\ Pending(after) = Later(r) /\ after.step \in {"batch", "ok"}
           /\ after.op = r.op /\ after.asked = r.asked
           /\ after.values = r.values /\ after.rejected = r.rejected
           /\ after.group = "totals" => r.group = "totals"
<1>1. CASE r.group = "totals" /\ r.asked \cap SeriesOnly # {}
  <2>1. after = [r EXCEPT !.group = "series", !.step = "batch"]
    BY <1>1 DEF AfterGroup
  <2>2. /\ after.step = "batch" /\ after.group = "series" /\ after.op = "ig_account_insights"
        /\ after.op = r.op /\ after.asked = r.asked
        /\ after.values = r.values /\ after.rejected = r.rejected
    BY <1>1, <2>1 DEF Read
  <2>3. Group(after) = r.asked \cap SeriesOnly /\ Later(after) = {}
    BY <2>2 DEF Group, Later
  <2> QED
    BY <1>1, <2>2, <2>3 DEF Pending, Later
<1>2. CASE ~(r.group = "totals" /\ r.asked \cap SeriesOnly # {})
  <2>1. after = [r EXCEPT !.step = "ok"]
    BY <1>2 DEF AfterGroup
  <2>2. /\ after.step = "ok" /\ after.group = r.group
        /\ after.op = r.op /\ after.asked = r.asked
        /\ after.values = r.values /\ after.rejected = r.rejected
    BY <2>1 DEF Read
  <2>3. Later(r) = {} /\ Pending(after) = {}
    BY <1>2, <2>2 DEF Pending, Later
  <2> QED
    BY <2>2, <2>3
<1> QED
  BY <1>1, <1>2

LEMMA AfterGroupAccounted ==
    ASSUME NEW r \in Read, r.group = "totals" => r.op = "ig_account_insights",
           r.values = (r.asked \ Later(r)) \cap supported,
           r.rejected = (r.asked \ Later(r)) \ supported
    PROVE  Accounted(AfterGroup(r))
<1> DEFINE after == AfterGroup(r)
<1>1. /\ Pending(after) = Later(r) /\ after.step \in {"batch", "ok"}
      /\ after.op = r.op /\ after.asked = r.asked
      /\ after.values = r.values /\ after.rejected = r.rejected
      /\ after.group = "totals" => r.group = "totals"
  BY AfterGroupPends
<1> HIDE DEF after
<1>2. Accounted(after)
  BY <1>1 DEF Accounted
<1> QED
  BY <1>2 DEF after

LEMMA BatchServedAccounted ==
    ASSUME TypeInv, read \in Read, read.op \in InsightReads, Accounted(read), BatchServed
    PROVE  Accounted(read')
<1> DEFINE done == [read EXCEPT !.values = @ \cup Group(read)]
<1>1. read' = AfterGroup(done) /\ read.step = "batch"
      /\ \A m \in Group(read) : Served(m, read)
  BY DEF BatchServed
<1>2. /\ read.group \in {"totals", "series"}
      /\ read.group = "totals" => read.op = "ig_account_insights"
      /\ read.values = (read.asked \ (Group(read) \cup Later(read))) \cap supported
      /\ read.rejected = (read.asked \ (Group(read) \cup Later(read))) \ supported
  BY <1>1 DEF Accounted, Pending, Read
<1>3. /\ Group(read) \subseteq supported
      /\ Group(read) \subseteq read.asked /\ Later(read) \subseteq read.asked
      /\ Group(read) \cap Later(read) = {}
  BY <1>1, <1>2, GroupOf
<1>4. /\ done.values = read.values \cup Group(read) /\ done.rejected = read.rejected
      /\ done.group = read.group /\ done.asked = read.asked /\ done.op = read.op
  BY DEF Read
<1>5. done \in Read
  <2>1. Group(read) \in SUBSET Metrics
    BY <1>3 DEF Read
  <2> QED
    BY <2>1 DEF Read
<1> HIDE DEF done
<1>6. Later(done) = Later(read)
  BY <1>4 DEF Later
<1>7. /\ done.values = (done.asked \ Later(done)) \cap supported
      /\ done.rejected = (done.asked \ Later(done)) \ supported
  BY <1>2, <1>3, <1>4, <1>6
<1> QED
  BY <1>1, <1>2, <1>4, <1>5, <1>7, AfterGroupAccounted

LEMMA BatchRefusedAccounted ==
    ASSUME TypeInv, read \in Read, read.op \in InsightReads, Accounted(read), BatchRefused
    PROVE  Accounted(read')
<1>1. read' = [read EXCEPT !.step = "single", !.left = Group(read)] /\ read.step = "batch"
  BY DEF BatchRefused
<1>2. /\ read'.step = "single" /\ read'.left = Group(read)
      /\ read'.group = read.group /\ read'.asked = read.asked /\ read'.op = read.op
      /\ read'.values = read.values /\ read'.rejected = read.rejected
  BY <1>1 DEF Read
<1>3. Group(read') = Group(read) /\ Later(read') = Later(read)
  BY <1>2 DEF Group, Later
<1> QED
  BY <1>1, <1>2, <1>3 DEF Accounted, Pending

LEMMA SingleAccounted ==
    ASSUME TypeInv, read \in Read, read.op \in InsightReads, Accounted(read),
           NEW m \in Metrics, Single(m)
    PROVE  Accounted(read')
<1> DEFINE rest == read.left \ {m}
           done == [read EXCEPT !.left = rest,
                       !.values   = IF Served(m, read) THEN @ \cup {m} ELSE @,
                       !.rejected = IF Served(m, read) THEN @ ELSE @ \cup {m}]
<1>1. /\ (read' = IF rest = {} THEN AfterGroup(done) ELSE done)
      /\ read.step = "single" /\ m \in read.left
  BY DEF Single
<1>2. /\ read.group \in {"totals", "series"} /\ read.left \subseteq Group(read)
      /\ read.group = "totals" => read.op = "ig_account_insights"
      /\ read.values = (read.asked \ (read.left \cup Later(read))) \cap supported
      /\ read.rejected = (read.asked \ (read.left \cup Later(read))) \ supported
  BY <1>1 DEF Accounted, Pending, Read
<1>3. /\ Group(read) \subseteq read.asked /\ Later(read) \subseteq read.asked
      /\ Group(read) \cap Later(read) = {}
      /\ Served(m, read) <=> m \in supported
  BY <1>1, <1>2, GroupOf
<1>4. /\ done.values = (IF Served(m, read) THEN read.values \cup {m} ELSE read.values)
      /\ done.rejected = (IF Served(m, read) THEN read.rejected ELSE read.rejected \cup {m})
      /\ done.left = rest /\ done.step = read.step
      /\ done.group = read.group /\ done.asked = read.asked /\ done.op = read.op
  BY DEF Read
<1>5. done \in Read
  BY DEF Read
<1> HIDE DEF done
<1>6. Later(done) = Later(read) /\ Group(done) = Group(read)
  BY <1>4 DEF Later, Group
<1>7. /\ done.values = (done.asked \ (rest \cup Later(done))) \cap supported
      /\ done.rejected = (done.asked \ (rest \cup Later(done))) \ supported
  BY <1>1, <1>2, <1>3, <1>4, <1>6
<1>8. CASE rest = {}
  <2>1. /\ done.values = (done.asked \ Later(done)) \cap supported
        /\ done.rejected = (done.asked \ Later(done)) \ supported
    BY <1>7, <1>8
  <2> QED
    BY <1>1, <1>2, <1>4, <1>5, <1>8, <2>1, AfterGroupAccounted
<1>9. CASE rest # {}
  <2>1. read' = done /\ done.step = "single" /\ done.left = rest
    BY <1>1, <1>4, <1>9
  <2>2. Pending(done) = rest \cup Later(done)
    BY <2>1 DEF Pending
  <2>3. rest \subseteq Group(done)
    BY <1>2, <1>6
  <2>4. Accounted(done)
    BY <1>2, <1>4, <1>7, <2>1, <2>2, <2>3 DEF Accounted
  <2> QED
    BY <2>1, <2>4
<1> QED
  BY <1>8, <1>9

LEMMA NextInsightsInv == InsightsInv /\ [Next]_vars => InsightsInv'
<1> DEFINE Held == read.op \in InsightReads /\ read.step \in {"batch", "single", "ok"}
                   => Accounted(read)
<1> SUFFICES ASSUME InsightsInv, [Next]_vars PROVE Held'
  BY NextTypeInv DEF InsightsInv
<1>0. TypeInv /\ Held
  BY DEF InsightsInv
<1>1. CASE UNCHANGED vars
  BY <1>0, <1>1 DEF vars, metaVars, Accounted
<1>2. CASE Request
  <2>1. /\ read \in Read /\ read.step \notin Answered
        /\ read'.op = read.op /\ supported' = supported
    BY <1>0, <1>2, RequestKeeps, RequestBegun DEF Kept, metaVars
  <2>2. CASE read.op \notin InsightReads
    BY <2>1, <2>2
  <2>3. CASE Fails
    <3>1. read'.step = "error"
      BY <1>0, <2>1, <2>3, FailsKeeps
    <3> QED
      BY <3>1
  <2>4. CASE read.op \in InsightReads /\ ~Fails
    <3>1. BatchServed \/ BatchRefused \/ \E m \in Metrics : Single(m)
      BY <1>0, <1>2, <2>4, RequestShapes
    <3>2. read.step \in {"batch", "single"}
      BY <3>1 DEF BatchServed, BatchRefused, Single
    <3>3. Accounted(read)
      BY <1>0, <2>4, <3>2
    <3>4. LET r == read' IN Accounted(r)
      BY <1>0, <2>1, <2>4, <3>1, <3>3,
         BatchServedAccounted, BatchRefusedAccounted, SingleAccounted
    <3> QED
      BY <2>1, <3>4 DEF Accounted
  <2> QED
    BY <2>2, <2>3, <2>4
<1>3. CASE Return
  BY <1>3, NoReadFields DEF Return, InsightReads
<1>4. ASSUME read'.op \notin InsightReads \/ read'.step = "refused" PROVE Held'
  BY <1>4
<1>5. ASSUME NEW op \in Ops, BeginRefused(op) PROVE Held'
  BY <1>4, <1>5, BegunRefused
<1>6. ASSUME NEW op \in Ops, BeginOne(op) PROVE Held'
  BY <1>4, <1>6, BegunOne, KindsApart
<1>7. ASSUME NEW op \in Ops, NEW limit, BeginList(op, limit) PROVE Held'
  BY <1>4, <1>7, BegunList, KindsApart
<1>8. ASSUME NEW op \in Ops, NEW group, NEW metrics \in SUBSET Metrics, NEW window,
             BeginInsights(op, group, metrics, window)
      PROVE  Held'
  <2>1. /\ read'.step = "batch" /\ read'.values = {} /\ read'.rejected = {}
        /\ read'.group = IF read'.op # "ig_account_insights" \/ read'.asked \subseteq SeriesOnly
                         THEN "series" ELSE "totals"
    BY <1>8, BegunInsights
  <2>2. Group(read') \cup Later(read') = read'.asked
    BY <2>1 DEF Group, Later
  <2>3. Pending(read') = read'.asked
    BY <2>1, <2>2 DEF Pending
  <2>4. Accounted(read)'
    BY <2>1, <2>3 DEF Accounted
  <2> QED
    BY <2>4
<1> QED
  BY <1>1, <1>2, <1>3, <1>5, <1>6, <1>7, <1>8, CallShapes DEF Next

\* Insights answer for every metric asked for: the values of those Meta serves,
\* and by name those it does not, however a refused batch was taken apart and
\* in whichever group a metric had to be asked for (insightsWithFallback,
\* IGAccountInsights).
THEOREM InsightsComplete == Spec => []InsightsAreComplete
<1>1. Init => InsightsInv
  BY InitTypeInv, NoReadFields DEF Init, InsightsInv, InsightReads
<1>2. InsightsInv => InsightsAreComplete
  <2>1. ASSUME read.op \in InsightReads, read.step = "ok", Accounted(read)
        PROVE  read.values = read.asked \cap supported /\ read.rejected = read.asked \ supported
    BY <2>1 DEF Accounted, Pending
  <2> QED
    BY <2>1 DEF InsightsInv, InsightsAreComplete
<1> QED
  BY <1>1, <1>2, NextInsightsInv, PTL DEF Spec

-----------------------------------------------------------------------------
(* Lists.                                                                  *)

\* A walk that goes on is short of its limit and has no more than there is.
Walking ==
    /\ read.got <= total
    /\ read.limit > 0 => read.got < read.limit

ListsInv ==
    /\ TypeInv
    /\ read.op \in ListReads /\ read.step \in {"summary", "page"} => Walking
    /\ ListIsWhole

LEMMA ListPageWhole ==
    ASSUME TypeInv, read \in Read, read.op \in ListReads, Walking, ListPage
    PROVE  /\ read'.step = "page" => Walking'
           /\ ListIsWhole'
<1>1. PICK k \in 0..PageSize(read.limit), more \in BOOLEAN :
         /\ read.got + k <= total /\ (~more => read.got + k = total)
         /\ read' = Collect(read, k, more)
  BY DEF ListPage
<1>2. read.limit \in Nat /\ read.got \in Nat /\ total \in Nat /\ read.step = "page"
      /\ total' = total
  BY ReadsAssumption DEF ReadsAssumption, TypeInv, TypeOK, Read, ListPage, metaVars
<1>3. k \in Nat
  BY <1>1, <1>2, PageSizeBounds
<1>4. /\ read'.limit = read.limit
      /\ \/ read.pages = MaxPages
            /\ read'.step = "ok" /\ read'.got = read.got /\ read'.pages = MaxPages
         \/ /\ read.limit > 0 /\ read.got + k >= read.limit
            /\ read'.step = "ok" /\ read'.got = read.limit
         \/ /\ read.limit > 0 => read.got + k < read.limit
            /\ read'.got = read.got + k
            /\ read'.step = IF more THEN "page" ELSE "ok"
  BY <1>1, <1>2, <1>3, CollectIsRead DEF TypeInv
<1>5. CASE read.pages = MaxPages
            /\ read'.step = "ok" /\ read'.got = read.got /\ read'.pages = MaxPages
  BY <1>2, <1>4, <1>5 DEF Walking, ListIsWhole
<1>6. CASE /\ read.limit > 0 /\ read.got + k >= read.limit
           /\ read'.step = "ok" /\ read'.got = read.limit
  BY <1>2, <1>4, <1>6 DEF Walking, ListIsWhole
<1>7. CASE /\ read.limit > 0 => read.got + k < read.limit
           /\ read'.got = read.got + k
           /\ read'.step = IF more THEN "page" ELSE "ok"
  <2>1. CASE more
    BY <1>1, <1>2, <1>3, <1>4, <1>7, <2>1 DEF Walking, ListIsWhole
  <2>2. CASE ~more
    BY <1>1, <1>2, <1>3, <1>4, <1>7, <2>2 DEF Walking, ListIsWhole
  <2> QED
    BY <2>1, <2>2
<1> QED
  BY <1>4, <1>5, <1>6, <1>7

LEMMA NextListsInv == ListsInv /\ [Next]_vars => ListsInv'
<1> DEFINE Held == read.op \in ListReads /\ read.step \in {"summary", "page"} => Walking
<1> SUFFICES ASSUME ListsInv, [Next]_vars PROVE Held' /\ ListIsWhole'
  BY NextTypeInv DEF ListsInv
<1>0. TypeInv /\ Held /\ ListIsWhole
  BY DEF ListsInv
<1>1. CASE UNCHANGED vars
  BY <1>0, <1>1 DEF vars, metaVars, Walking, ListIsWhole, EdgeRefused
<1>2. ASSUME read'.op \notin ListReads \/ read'.step \in {"refused", "error"}
      PROVE  Held' /\ ListIsWhole'
  BY <1>2 DEF ListIsWhole
<1>3. CASE Request
  <2>1. read \in Read /\ Kept
    BY <1>0, <1>3, RequestKeeps, RequestBegun
  <2>2. CASE read.op \notin ListReads
    BY <1>2, <2>1, <2>2 DEF Kept
  <2>3. CASE Fails
    BY <1>0, <1>2, <2>1, <2>3, FailsKeeps
  <2>4. CASE read.op \in ListReads /\ ~Fails
    <3>1. Summary \/ ListPage \/ ReadPlainly \/ SummaryOnly
      BY <1>0, <1>3, <2>4, RequestShapes
    <3>2. read'.step \in {"page", "ok"}
      BY <1>0, <2>1, <2>4, <3>1, ListsKeep
    <3>3. Walking
      BY <1>0, <2>4, <3>1 DEF Summary, ListPage, ReadPlainly, SummaryOnly
    <3>4. CASE Summary
      <4>1. /\ read'.step = "page" /\ read'.got = read.got /\ read'.limit = read.limit
            /\ total' = total
        BY <2>1, <3>4 DEF Summary, Read, metaVars
      <4> QED
        BY <3>3, <4>1 DEF Walking, ListIsWhole
    <3>5. CASE ListPage
      BY <1>0, <2>1, <2>4, <3>2, <3>3, <3>5, ListPageWhole
    <3>6. CASE ReadPlainly
      <4>1. /\ read'.step = "page" /\ read'.got = 0 /\ read'.limit = read.limit
            /\ total' \in Nat
        BY <1>0, <2>1, <3>6, ReadsAssumption
           DEF ReadsAssumption, ReadPlainly, Read, metaVars, TypeInv, TypeOK
      <4> QED
        BY <4>1 DEF Walking, ListIsWhole
    <3>7. CASE SummaryOnly
      <4>1. /\ read'.step = "ok" /\ read'.got = read.got /\ read'.limit = read.limit
            /\ read'.op = read.op /\ retired' = retired /\ EdgeRefused
        BY <2>1, <3>7 DEF SummaryOnly, Read, metaVars
      <4>2. read.limit > 0 => read.got <= read.limit
        BY <2>1, <3>3, ReadsAssumption DEF ReadsAssumption, Walking, Read
      <4> QED
        BY <4>1, <4>2 DEF ListIsWhole, EdgeRefused
    <3> QED
      BY <3>1, <3>4, <3>5, <3>6, <3>7
  <2> QED
    BY <2>2, <2>3, <2>4
<1>4. CASE Return
  BY <1>2, <1>4, NoReadFields DEF Return, ListReads
<1>5. ASSUME NEW op \in Ops, BeginRefused(op) PROVE Held' /\ ListIsWhole'
  BY <1>2, <1>5, BegunRefused
<1>6. ASSUME NEW op \in Ops, BeginOne(op) PROVE Held' /\ ListIsWhole'
  BY <1>2, <1>6, BegunOne, KindsApart
<1>7. ASSUME NEW op \in Ops, NEW limit, BeginList(op, limit) PROVE Held' /\ ListIsWhole'
  <2>1. /\ read'.step \in {"summary", "page"} /\ read'.got = 0 /\ read'.limit \in 0..MaxLimit
        /\ total' \in 0..MaxItems
    BY <1>7, BegunList
  <2> QED
    BY <2>1, ReadsAssumption DEF ReadsAssumption, Walking, ListIsWhole
<1>8. ASSUME NEW op \in Ops, NEW group, NEW metrics \in SUBSET Metrics, NEW window,
             BeginInsights(op, group, metrics, window)
      PROVE  Held' /\ ListIsWhole'
  BY <1>2, <1>8, BegunInsights, KindsApart
<1> QED
  BY <1>1, <1>3, <1>4, <1>5, <1>6, <1>7, <1>8, CallShapes DEF Next

\* A list that is answered is the whole list, or its first items up to the
\* limit, or what the pages allowed had, or the summary alone of reviews that
\* Meta retired; never more than the limit, however Meta cuts it into pages
\* (collect, clampLimit, PageRatings).
THEOREM ListWhole == Spec => []ListIsWhole
<1>1. Init => ListsInv
  BY InitTypeInv, NoReadFields DEF Init, ListsInv, ListIsWhole, ListReads
<1>2. ListsInv => ListIsWhole
  BY DEF ListsInv
<1> QED
  BY <1>1, <1>2, NextListsInv, PTL DEF Spec

-----------------------------------------------------------------------------
(* The diagnosis.                                                          *)

\* Once filled in, a diagnosis says what Meta said; a link is about to be tried
\* for, or has been, when it says that something is wrong, and never otherwise.
Diagnosed ==
    /\ read.status.healthy <=>
          /\ read.status.told /\ read.status.valid
          /\ read.status.granted # {} => RequiredScopes \subseteq read.status.granted
    /\ read.step = "link" => ~read.status.healthy
    /\ read.step = "ok" => (read.status.healthy <=> read.status.link = "none")

StatusInv ==
    /\ TypeInv
    /\ read.op = "connection_status" /\ read.step \in {"link", "ok"} => Diagnosed

LEMMA NextStatusInv == StatusInv /\ [Next]_vars => StatusInv'
<1> DEFINE Held == read.op = "connection_status" /\ read.step \in {"link", "ok"} => Diagnosed
<1> SUFFICES ASSUME StatusInv, [Next]_vars PROVE Held'
  BY NextTypeInv DEF StatusInv
<1>0. TypeInv /\ Held
  BY DEF StatusInv
<1>1. CASE UNCHANGED vars
  BY <1>0, <1>1 DEF vars, Diagnosed
<1>2. ASSUME read'.op # "connection_status" \/ read'.step \notin {"link", "ok"} PROVE Held'
  BY <1>2
<1>3. CASE Request
  <2>1. read \in Read /\ Kept
    BY <1>0, <1>3, RequestKeeps, RequestBegun
  <2>2. CASE read.op # "connection_status"
    BY <1>2, <2>1, <2>2 DEF Kept
  <2>3. CASE Fails
    BY <1>0, <1>2, <2>1, <2>3, FailsKeeps
  <2>4. CASE TenantLoaded
    <3>1. read'.step = "debug"
      BY <2>1, <2>4 DEF TenantLoaded, Read
    <3> QED
      BY <1>2, <3>1
  <2>5. CASE DebugTokenFails
             \/ \E valid \in BOOLEAN, granted \in SUBSET Scopes : DebugToken(valid, granted)
    <3>1. PICK told, valid \in BOOLEAN, granted \in SUBSET Scopes :
             (valid => told) /\ Diagnose(Fill(told, valid, granted))
      BY <2>5, DiagnosisShape
    <3>2. PICK status : status = Fill(told, valid, granted)
      OBVIOUS
    <3>3. /\ status.told = told /\ status.valid = valid /\ status.granted = granted
          /\ status.healthy <=> valid /\ (granted # {} => RequiredScopes \subseteq granted)
          /\ status.link = "none" /\ status.healthy \in BOOLEAN
      BY <3>2, FillIsStatus DEF Status
    <3>4. read' = [read EXCEPT !.status = status, !.step = IF status.healthy THEN "ok" ELSE "link"]
      BY <3>1, <3>2 DEF Diagnose
    <3>5. read'.status = status /\ read'.step = IF status.healthy THEN "ok" ELSE "link"
      BY <2>1, <3>4 DEF Read
    <3> QED
      BY <3>1, <3>3, <3>5 DEF Diagnosed
  <2>6. CASE AttachReconnectLink
    <3>1. PICK link \in {"drawn", "lost"} :
             read' = [read EXCEPT !.status.link = link, !.step = "ok"]
      BY <2>6 DEF AttachReconnectLink
    <3>2. Diagnosed /\ read.step = "link"
      BY <1>0, <2>6 DEF TypeInv, StepsFit, AttachReconnectLink
    <3>3. /\ read'.status.told = read.status.told /\ read'.status.valid = read.status.valid
          /\ read'.status.granted = read.status.granted
          /\ read'.status.healthy = read.status.healthy /\ read'.step = "ok"
          /\ read'.status.link # "none"
      BY <2>1, <3>1 DEF Read, Status
    <3> QED
      BY <3>2, <3>3 DEF Diagnosed
  <2> QED
    BY <1>0, <1>3, <2>2, <2>3, <2>4, <2>5, <2>6, RequestShapes
<1>4. CASE Return
  BY <1>2, <1>4, NoReadFields DEF Return
<1>5. ASSUME NEW op \in Ops, BeginRefused(op) PROVE Held'
  BY <1>2, <1>5, BegunRefused
<1>6. ASSUME NEW op \in Ops, BeginOne(op) PROVE Held'
  BY <1>2, <1>6, BegunOne
<1>7. ASSUME NEW op \in Ops, NEW limit, BeginList(op, limit) PROVE Held'
  BY <1>2, <1>7, BegunList, KindsApart
<1>8. ASSUME NEW op \in Ops, NEW group, NEW metrics \in SUBSET Metrics, NEW window,
             BeginInsights(op, group, metrics, window)
      PROVE  Held'
  BY <1>2, <1>8, BegunInsights, KindsApart
<1> QED
  BY <1>1, <1>3, <1>4, <1>5, <1>6, <1>7, <1>8, CallShapes DEF Next

\* A connection is reported healthy exactly on Meta's word, told in this very
\* diagnosis, and a link to reconnect is tried for exactly when it is not (fill,
\* attachReconnectLink).
THEOREM StatusOnMetasWord == Spec => []StatusIsMetasWord
<1>1. Init => StatusInv
  BY InitTypeInv, NoReadFields DEF Init, StatusInv
<1>2. StatusInv => StatusIsMetasWord
  BY DEF StatusInv, StatusIsMetasWord, Diagnosed
<1> QED
  BY <1>1, <1>2, NextStatusInv, PTL DEF Spec

-----------------------------------------------------------------------------
(* A read ends: what it may still send becomes less with every request.    *)

\* A group that is refused is asked for once more, metric by metric.
GroupRequests(S) == IF S = {} THEN 0 ELSE 1 + Cardinality(S)

\* How many requests a read may still send, the one it is about to included.
RequestsLeft ==
    CASE read.step = "batch"   -> 1 + Cardinality(Group(read)) + GroupRequests(Later(read))
      [] read.step = "single"  -> Cardinality(read.left) + GroupRequests(Later(read))
      [] read.step = "summary" -> MaxPages + 2
      [] read.step = "page"    -> IF NumbersRefused THEN MaxPages + 2 ELSE MaxPages + 1 - read.pages
      [] read.step = "request" -> IF read.op = "connection_status" THEN 3 ELSE 1
      [] read.step = "debug"   -> 2
      [] read.step = "link"    -> 1
      [] OTHER                 -> 0

LEMMA Counted ==
    ASSUME NEW S \in SUBSET Metrics
    PROVE  /\ IsFiniteSet(S) /\ Cardinality(S) \in Nat /\ GroupRequests(S) \in Nat
           /\ \A m \in S : Cardinality(S \ {m}) = Cardinality(S) - 1 /\ Cardinality(S) > 0
<1>1. IsFiniteSet(S) /\ Cardinality(S) \in Nat
  BY ReadsAssumption, FS_Subset, FS_CardinalityType DEF ReadsAssumption
<1>2. \A m \in S : Cardinality(S \ {m}) = Cardinality(S) - 1 /\ Cardinality(S \ {m}) \in Nat
  BY <1>1, FS_RemoveElement, FS_CardinalityType
<1> QED
  BY <1>1, <1>2 DEF GroupRequests

LEMMA GroupsOfMetrics ==
    ASSUME NEW r \in Read
    PROVE  Group(r) \in SUBSET Metrics /\ Later(r) \in SUBSET Metrics /\ r.left \in SUBSET Metrics
  BY DEF Group, Later, Read

LEMMA RequestsLeftIsNat == TypeInv => RequestsLeft \in Nat
<1> SUFFICES ASSUME TypeInv PROVE RequestsLeft \in Nat
  OBVIOUS
<1>1. CASE read = NoRead
  BY <1>1, NoReadFields DEF RequestsLeft
<1>2. CASE read \in Read
  <2>1. /\ MaxPages \in Nat /\ read.pages \in 0..MaxPages
        /\ Cardinality(Group(read)) \in Nat /\ GroupRequests(Later(read)) \in Nat
        /\ Cardinality(read.left) \in Nat
    BY <1>2, ReadsAssumption, GroupsOfMetrics, Counted DEF ReadsAssumption, Read
  <2>2. MaxPages + 1 - read.pages \in Nat
    BY <2>1
  <2> QED
    BY <2>1, <2>2 DEF RequestsLeft
<1> QED
  BY <1>1, <1>2 DEF TypeInv, TypeOK

\* The other group takes what was counted for it.
LEMMA AfterGroupLeft ==
    ASSUME NEW r \in Read, r.group = "totals" => r.op = "ig_account_insights",
           read' = AfterGroup(r)
    PROVE  RequestsLeft' = GroupRequests(Later(r))
<1>1. CASE r.group = "totals" /\ r.asked \cap SeriesOnly # {}
  <2>1. read' = [r EXCEPT !.group = "series", !.step = "batch"]
    BY <1>1 DEF AfterGroup
  <2>2. /\ read'.step = "batch" /\ read'.group = "series"
        /\ read'.op = "ig_account_insights" /\ read'.asked = r.asked
    BY <1>1, <2>1 DEF Read
  <2>3. Group(read') = Later(r) /\ Later(read') = {} /\ Later(r) # {} /\ Later(r) \in SUBSET Metrics
    BY <1>1, <2>2, GroupsOfMetrics DEF Group, Later
  <2>4. RequestsLeft' = 1 + Cardinality(Group(read')) + GroupRequests(Later(read'))
    BY <2>2 DEF RequestsLeft
  <2>5. Cardinality(Later(r)) \in Nat
    BY <2>3, Counted
  <2>6. RequestsLeft' = 1 + Cardinality(Later(r)) + 0
    BY <2>3, <2>4 DEF GroupRequests
  <2> QED
    BY <2>3, <2>5, <2>6 DEF GroupRequests
<1>2. CASE ~(r.group = "totals" /\ r.asked \cap SeriesOnly # {})
  <2>1. read' = [r EXCEPT !.step = "ok"] /\ Later(r) = {}
    BY <1>2 DEF AfterGroup, Later
  <2>2. read'.step = "ok"
    BY <2>1 DEF Read
  <2> QED
    BY <2>1, <2>2 DEF RequestsLeft, GroupRequests
<1> QED
  BY <1>1, <1>2

LEMMA InsightsRunOut ==
    ASSUME TypeInv, read \in Read, Accounted(read),
           BatchServed \/ BatchRefused \/ \E m \in Metrics : Single(m)
    PROVE  RequestsLeft' < RequestsLeft
<1>0. /\ Group(read) \in SUBSET Metrics /\ Later(read) \in SUBSET Metrics
      /\ read.left \in SUBSET Metrics
      /\ Cardinality(Group(read)) \in Nat /\ GroupRequests(Later(read)) \in Nat
      /\ Cardinality(read.left) \in Nat
      /\ read.group = "totals" => read.op = "ig_account_insights"
  BY GroupsOfMetrics, Counted DEF Accounted
<1>1. CASE BatchServed
  <2> DEFINE done == [read EXCEPT !.values = @ \cup Group(read)]
  <2>1. read' = AfterGroup(done) /\ read.step = "batch"
    BY <1>1 DEF BatchServed
  <2>2. done \in Read /\ done.group = read.group /\ done.asked = read.asked /\ done.op = read.op
    BY <1>0 DEF Read
  <2> HIDE DEF done
  <2>3. RequestsLeft' = GroupRequests(Later(done)) /\ Later(done) = Later(read)
    BY <1>0, <2>1, <2>2, AfterGroupLeft DEF Later
  <2>4. RequestsLeft = 1 + Cardinality(Group(read)) + GroupRequests(Later(read))
    BY <2>1 DEF RequestsLeft
  <2> QED
    BY <1>0, <2>3, <2>4
<1>2. CASE BatchRefused
  <2>1. /\ read.step = "batch" /\ read'.step = "single" /\ read'.left = Group(read)
        /\ read'.group = read.group /\ read'.asked = read.asked
    BY <1>2 DEF BatchRefused, Read
  <2>2. Later(read') = Later(read)
    BY <2>1 DEF Later
  <2>3. RequestsLeft' = Cardinality(read'.left) + GroupRequests(Later(read'))
    BY <2>1 DEF RequestsLeft
  <2>4. RequestsLeft = 1 + Cardinality(Group(read)) + GroupRequests(Later(read))
    BY <2>1 DEF RequestsLeft
  <2> QED
    BY <1>0, <2>1, <2>2, <2>3, <2>4
<1>3. ASSUME NEW m \in Metrics, Single(m) PROVE RequestsLeft' < RequestsLeft
  <2> DEFINE rest == read.left \ {m}
             done == [read EXCEPT !.left = rest,
                         !.values   = IF Served(m, read) THEN @ \cup {m} ELSE @,
                         !.rejected = IF Served(m, read) THEN @ ELSE @ \cup {m}]
  <2>1. /\ (read' = IF rest = {} THEN AfterGroup(done) ELSE done)
        /\ read.step = "single" /\ m \in read.left
    BY <1>3 DEF Single
  <2>2. /\ done \in Read /\ done.group = read.group /\ done.asked = read.asked
        /\ done.op = read.op /\ done.left = rest /\ done.step = read.step
    BY DEF Read
  <2>3. /\ Cardinality(rest) = Cardinality(read.left) - 1 /\ Cardinality(read.left) > 0
        /\ RequestsLeft = Cardinality(read.left) + GroupRequests(Later(read))
    BY <1>0, <2>1, Counted DEF RequestsLeft
  <2> HIDE DEF rest, done
  <2>4. Later(done) = Later(read)
    BY <2>2 DEF Later
  <2>5. CASE rest = {}
    <3>1. RequestsLeft' = GroupRequests(Later(read))
      BY <1>0, <2>1, <2>2, <2>4, <2>5, AfterGroupLeft
    <3> QED
      BY <1>0, <2>3, <3>1
  <2>6. CASE rest # {}
    <3>1. read' = done /\ read'.step = "single"
      BY <2>1, <2>2, <2>6
    <3>2. RequestsLeft' = Cardinality(read'.left) + GroupRequests(Later(read'))
      BY <3>1 DEF RequestsLeft
    <3>3. RequestsLeft' = Cardinality(rest) + GroupRequests(Later(read))
      BY <2>2, <2>4, <3>1, <3>2
    <3> QED
      BY <1>0, <2>3, <3>3
  <2> QED
    BY <2>5, <2>6
<1> QED
  BY <1>1, <1>2, <1>3

LEMMA ListsRunOut ==
    ASSUME TypeInv, read \in Read, read.op \in ListReads,
           Summary \/ ListPage \/ ReadPlainly \/ SummaryOnly
    PROVE  RequestsLeft' < RequestsLeft
<1>0. MaxPages \in Nat /\ read.pages \in 0..MaxPages
  BY ReadsAssumption DEF ReadsAssumption, Read
<1>1. CASE Summary
  <2>1. /\ read.step = "summary" /\ read'.step = "page" /\ read'.pages = read.pages
        /\ read'.op = read.op /\ read.op = "page_ratings"
    BY <1>1 DEF Summary, Read, TypeInv, StepsFit
  <2>2. RequestsLeft = MaxPages + 2 /\ RequestsLeft' = MaxPages + 1 - read'.pages
    BY <2>1 DEF RequestsLeft, NumbersRefused
  <2> QED
    BY <1>0, <2>1, <2>2
<1>2. CASE ListPage
  <2>1. PICK k \in Nat, more \in BOOLEAN : read' = Collect(read, k, more)
    BY <1>2 DEF ListPage, PageSize
  <2>2. /\ read.step = "page" /\ ~NumbersRefused /\ inlined' = inlined
        /\ RequestsLeft = MaxPages + 1 - read.pages
    BY <1>2 DEF ListPage, metaVars, RequestsLeft
  <2>3. \/ read'.step = "ok"
        \/ /\ read'.step = "page" /\ read'.pages = read.pages + 1
           /\ read'.op = read.op /\ read'.plain = read.plain
    BY <2>1, <2>2 DEF Collect, Read
  <2>4. CASE read'.step = "ok"
    <3>1. RequestsLeft' = 0
      BY <2>4 DEF RequestsLeft
    <3> QED
      BY <1>0, <2>2, <3>1
  <2>5. CASE read'.step = "page" /\ read'.pages = read.pages + 1
             /\ read'.op = read.op /\ read'.plain = read.plain
    <3>1. ~NumbersRefused'
      BY <2>2, <2>5 DEF NumbersRefused
    <3>2. RequestsLeft' = MaxPages + 1 - read'.pages
      BY <2>5, <3>1 DEF RequestsLeft
    <3> QED
      BY <1>0, <2>2, <2>5, <3>2
  <2> QED
    BY <2>3, <2>4, <2>5
<1>3. CASE ReadPlainly
  <2>1. /\ read.step = "page" /\ NumbersRefused
        /\ read'.step = "page" /\ read'.plain /\ read'.pages = 0
    BY <1>3 DEF ReadPlainly, Read
  <2>2. RequestsLeft = MaxPages + 2 /\ RequestsLeft' = MaxPages + 1 - read'.pages
    BY <2>1 DEF RequestsLeft, NumbersRefused
  <2> QED
    BY <1>0, <2>1, <2>2
<1>4. CASE SummaryOnly
  <2>1. read.step = "page" /\ ~NumbersRefused /\ read'.step = "ok"
    BY <1>4 DEF SummaryOnly, EdgeRefused, NumbersRefused, Read
  <2>2. RequestsLeft = MaxPages + 1 - read.pages /\ RequestsLeft' = 0
    BY <2>1 DEF RequestsLeft
  <2> QED
    BY <1>0, <2>2
<1> QED
  BY <1>1, <1>2, <1>3, <1>4

LEMMA OthersRunOut ==
    ASSUME TypeInv, read \in Read,
           \/ RequestServed \/ TenantLoaded \/ DebugTokenFails \/ AttachReconnectLink
           \/ \E valid \in BOOLEAN, granted \in SUBSET Scopes : DebugToken(valid, granted)
    PROVE  RequestsLeft' < RequestsLeft
<1>1. CASE RequestServed
  <2>1. read.step = "request" /\ read'.step = "ok" /\ read.op # "connection_status"
    BY <1>1, KindsApart DEF RequestServed, Read
  <2> QED
    BY <2>1 DEF RequestsLeft
<1>2. CASE TenantLoaded
  <2>1. read.step = "request" /\ read'.step = "debug" /\ read.op = "connection_status"
    BY <1>2 DEF TenantLoaded, Read
  <2> QED
    BY <2>1 DEF RequestsLeft
<1>3. ASSUME NEW status, Diagnose(status) PROVE RequestsLeft' < RequestsLeft
  <2>1. read.step = "debug" /\ read'.step \in {"ok", "link"}
    BY <1>3 DEF Diagnose, Read
  <2> QED
    BY <2>1 DEF RequestsLeft
<1>4. CASE AttachReconnectLink
  <2>1. read.step = "link" /\ read'.step = "ok"
    BY <1>4 DEF AttachReconnectLink, Read
  <2> QED
    BY <2>1 DEF RequestsLeft
<1> QED
  BY <1>1, <1>2, <1>3, <1>4 DEF DebugToken, DebugTokenFails

\* Metrics are asked for alone only while some are left.
SomeLeft == read.step = "single" => read.left # {}

LEMMA NextSomeLeft == TypeInv /\ SomeLeft /\ [Next]_vars => SomeLeft'
<1> SUFFICES ASSUME TypeInv, SomeLeft, [Next]_vars PROVE SomeLeft'
  OBVIOUS
<1>1. CASE UNCHANGED vars
  BY <1>1 DEF vars, SomeLeft
<1>2. CASE Request
  <2>0. read \in Read
    BY <1>2, RequestBegun
  <2>1. ASSUME read'.step # "single" PROVE SomeLeft'
    BY <2>1 DEF SomeLeft
  <2>2. CASE Fails
    BY <2>0, <2>1, <2>2, FailsKeeps
  <2>3. CASE read.op \in InsightReads /\ ~Fails
    <3>1. CASE BatchServed
      <4>1. Group(read) \in SUBSET Metrics
        BY <2>0, GroupsOfMetrics
      <4>2. [read EXCEPT !.values = @ \cup Group(read)] \in Read
        BY <2>0, <4>1 DEF Read
      <4>3. read'.step \in {"batch", "ok"}
        BY <3>1, <4>2 DEF BatchServed, AfterGroup, Read
      <4> QED
        BY <2>1, <4>3
    <3>2. CASE BatchRefused
      BY <2>0, <3>2 DEF BatchRefused, SomeLeft, Read
    <3>3. ASSUME NEW m \in Metrics, Single(m) PROVE SomeLeft'
      <4> DEFINE rest == read.left \ {m}
                 done == [read EXCEPT !.left = rest,
                             !.values   = IF Served(m, read) THEN @ \cup {m} ELSE @,
                             !.rejected = IF Served(m, read) THEN @ ELSE @ \cup {m}]
      <4>1. read' = IF rest = {} THEN AfterGroup(done) ELSE done
        BY <3>3 DEF Single
      <4>2. done \in Read /\ done.left = rest
        BY <2>0 DEF Read
      <4> HIDE DEF rest, done
      <4>3. rest = {} => read'.step \in {"batch", "ok"}
        BY <4>1, <4>2 DEF AfterGroup, Read
      <4> QED
        BY <4>1, <4>2, <4>3 DEF SomeLeft
    <3> QED
      BY <1>2, <2>3, <3>1, <3>2, <3>3, RequestShapes
  <2>4. CASE read.op \in ListReads /\ ~Fails
    <3>1. read'.step \in {"page", "ok"}
      BY <1>2, <2>0, <2>4, RequestShapes, ListsKeep
    <3> QED
      BY <2>1, <3>1
  <2>5. CASE read.op \in SingleReads \cup {"connection_status"} /\ ~Fails
    <3>1. read'.step \in {"debug", "link", "ok"}
      BY <1>2, <2>0, <2>5, RequestShapes
         DEF RequestServed, TenantLoaded, DebugToken, DebugTokenFails, Diagnose,
             AttachReconnectLink, Read
    <3> QED
      BY <2>1, <3>1
  <2> QED
    BY <2>0, <2>2, <2>3, <2>4, <2>5 DEF Read
<1>3. CASE Return
  BY <1>3, NoReadFields DEF Return, SomeLeft
<1>4. CASE Call
  <2>1. read'.step # "single"
    BY <1>4, CallShapes, BegunRefused, BegunInsights, BegunList, BegunOne
  <2> QED
    BY <2>1 DEF SomeLeft
<1> QED
  BY <1>1, <1>2, <1>3, <1>4 DEF Next

LEMMA FailsRunsOut == ASSUME TypeInv, SomeLeft, Fails PROVE RequestsLeft' < RequestsLeft
<1>1. /\ read \in Read /\ read.step \in {"batch", "single", "summary", "page", "request"}
      /\ MaxPages \in Nat /\ read.pages \in 0..MaxPages
  BY ReadsAssumption DEF ReadsAssumption, TypeInv, TypeOK, Fails, NoRead, Read
<1>2. /\ Cardinality(Group(read)) \in Nat /\ GroupRequests(Later(read)) \in Nat
      /\ Cardinality(read.left) \in Nat
      /\ read.step = "single" => Cardinality(read.left) > 0
  BY <1>1, GroupsOfMetrics, Counted DEF SomeLeft
<1>3. RequestsLeft > 0
  BY <1>1, <1>2 DEF RequestsLeft
<1>4. read'.step = "error"
  BY <1>1, FailsKeeps
<1>5. RequestsLeft' = 0
  BY <1>4 DEF RequestsLeft
<1> QED
  BY <1>3, <1>5

LEMMA RequestRunsOut ==
    ASSUME InsightsInv, SomeLeft, Request
    PROVE  RequestsLeft' < RequestsLeft
<1>1. TypeInv /\ read \in Read
  BY RequestBegun DEF InsightsInv
<1>2. CASE Fails
  BY <1>1, <1>2, FailsRunsOut
<1>3. CASE read.op \in InsightReads /\ ~Fails
  <2>1. BatchServed \/ BatchRefused \/ \E m \in Metrics : Single(m)
    BY <1>1, <1>3, RequestShapes
  <2>2. read.step \in {"batch", "single"}
    BY <2>1 DEF BatchServed, BatchRefused, Single
  <2> QED
    BY <1>1, <1>3, <2>1, <2>2, InsightsRunOut DEF InsightsInv
<1>4. CASE read.op \in ListReads /\ ~Fails
  BY <1>1, <1>4, RequestShapes, ListsRunOut
<1>5. CASE read.op \in SingleReads \cup {"connection_status"} /\ ~Fails
  BY <1>1, <1>5, RequestShapes, OthersRunOut
<1> QED
  BY <1>1, <1>2, <1>3, <1>4, <1>5 DEF Read

\* Every request of a read leaves it fewer to send: as many as its metrics, once
\* in a batch and once alone, the pages up to the cap and one more, the second
\* reading included, or the three of a diagnosis.  With the fairness of requests
\* this is why a read is answered (collect, insightsWithFallback).
THEOREM ReadsRunOut ==
    Spec => [](RequestsLeft \in Nat) /\ [][Request => RequestsLeft' < RequestsLeft]_vars
<1>1. Init => InsightsInv /\ SomeLeft
  BY InitTypeInv, NoReadFields DEF Init, InsightsInv, InsightReads, SomeLeft
<1>2. InsightsInv /\ SomeLeft /\ [Next]_vars => (InsightsInv /\ SomeLeft)'
  BY NextInsightsInv, NextSomeLeft DEF InsightsInv
<1>3. InsightsInv => RequestsLeft \in Nat
  BY RequestsLeftIsNat DEF InsightsInv
<1>4. InsightsInv /\ SomeLeft => [Request => RequestsLeft' < RequestsLeft]_vars
  BY RequestRunsOut
<1> QED
  BY <1>1, <1>2, <1>3, <1>4, PTL DEF Spec
=============================================================================
