------------------------------ MODULE GraphReads ------------------------------
(***************************************************************************)
(* How the Graph client reads: insights, asked for in one batch and then   *)
(* metric by metric when Meta refuses the batch over one name; listings,   *)
(* walked page by page up to a limit and a cap; posts and media, read      *)
(* again without their numbers when Meta retired one of these; ratings,    *)
(* whose list may be retired while the summary is not; the diagnosis of    *)
(* the tenant's own token, which must say something even if Meta does not. *)
(*                                                                         *)
(* Meta is external: which metrics it serves, how many items a list has    *)
(* and how it cuts it into pages (it may promise a next page that turns    *)
(* out empty, for ever), what it says of a token.  It may change between   *)
(* two reads: its variables are chosen when one begins.  Any request may   *)
(* fail for another reason, Client.call's own retry included.  An item is  *)
(* its rank in the list: what was collected is a number.  Time is in       *)
(* seconds, DayLength of them to a day; a day is a number, or Absent, or   *)
(* Garbled.  Resolution of the page is in Publishing.                      *)
(***************************************************************************)
EXTENDS Integers, FiniteSets

CONSTANTS
    Metrics,            \* metric names a caller may ask for
    SeriesOnly,         \* timeSeriesIGMetrics
    DefaultMetrics,     \* DefaultPageMetrics, DefaultPostMetrics, ...
    Limits,             \* the limits callers ask for
    DefaultLimit,       \* defaultPostLimit, defaultMediaLimit, ...
    DefaultCommentLimit,
    MaxLimit,           \* maxPostLimit, maxCommentLimit, ...
    MaxPageSize,        \* graphMaxPageSize
    MaxPages,           \* maxPages
    MaxItems,           \* bound: length of a list at Meta
    Days,               \* days callers ask for
    Times,              \* when they ask
    DayLength,          \* seconds in a day
    WindowDays,         \* defaultWindowDays
    Absent, Garbled,    \* a day that is not given, one that does not parse
    Scopes,             \* permissions a user may grant
    RequiredScopes      \* those of the configuration

ASSUME ReadsAssumption ==
    /\ SeriesOnly \subseteq Metrics /\ IsFiniteSet(Metrics)
    /\ DefaultMetrics \subseteq Metrics /\ DefaultMetrics # {}
    /\ Limits \subseteq Int
    /\ MaxLimit \in Nat \ {0} /\ {DefaultLimit, DefaultCommentLimit} \subseteq 1..MaxLimit
    /\ MaxPageSize \in Nat \ {0} /\ MaxPages \in Nat \ {0} /\ MaxItems \in Nat
    /\ Days \subseteq Int /\ Times \subseteq Int
    /\ DayLength \in Nat \ {0, 1} /\ WindowDays \in Nat \ {0}
    /\ Absent \notin Int /\ Garbled \notin Int /\ Absent # Garbled
    /\ RequiredScopes \subseteq Scopes

VARIABLES
    supported,          \* Meta: the metrics it serves for the object
    inlined,            \* Meta: whether it serves the numbers inlined in a list
    retired,            \* Meta: whether the edge of the reviews is retired
    total,              \* Meta: length of the list
    read                \* the read under way

metaVars == <<supported, inlined, retired, total>>
vars == <<metaVars, read>>

-----------------------------------------------------------------------------

InsightReads == {"page_insights", "page_post_insights", "ig_media_insights", "ig_account_insights"}
ListReads    == {"page_posts", "ig_media", "page_post_comments", "ig_media_comments",
                 "page_scheduled_posts", "page_ratings", "ig_stories", "accounts"}
SingleReads  == {"ig_follower_demographics", "list_pages", "page_insights_metadata"}

Day      == Days \cup {Absent, Garbled}
NoWindow == [since |-> Absent, until |-> Absent, from |-> 0, to |-> 0]

\* What connection_status reports.  told: Meta answered.  link: none tried for,
\* one drawn, or one "lost" because the store could not keep its state.
Status == [told : BOOLEAN, valid : BOOLEAN, granted : SUBSET Scopes,
           missing : SUBSET RequiredScopes, healthy : BOOLEAN,
           link : {"none", "drawn", "lost"}]

NoStatus == [told |-> FALSE, valid |-> FALSE, granted |-> {}, missing |-> {},
             healthy |-> FALSE, link |-> "none"]

\* asked, left, values, rejected: metrics.  group: how they are asked for.
\* plain: without the inlined numbers.  got: items so far.  pages: fetched so
\* far.  broken: some request failed for a reason of its own.
Read == [op : InsightReads \cup ListReads \cup SingleReads \cup {"connection_status"},
         step : {"batch", "single", "summary", "page", "request", "debug", "link",
                 "ok", "error", "refused"},
         asked : SUBSET Metrics, group : {"totals", "series"}, left : SUBSET Metrics,
         values : SUBSET Metrics, rejected : SUBSET Metrics,
         limit : 0..MaxLimit, plain : BOOLEAN, got : 0..MaxItems, pages : 0..MaxPages,
         window : [since : Day, until : Day, from : Int, to : Int],
         status : Status, broken : BOOLEAN]

NoRead == [op |-> "none", step |-> "idle", asked |-> {}, group |-> "totals", left |-> {},
           values |-> {}, rejected |-> {}, limit |-> 0, plain |-> FALSE, got |-> 0, pages |-> 0,
           window |-> NoWindow, status |-> NoStatus, broken |-> FALSE]

TypeOK ==
    /\ supported \subseteq Metrics
    /\ inlined \in BOOLEAN /\ retired \in BOOLEAN
    /\ total \in 0..MaxItems
    /\ read \in Read \cup {NoRead}

Init ==
    /\ supported = {} /\ total = 0
    /\ inlined = FALSE /\ retired = FALSE
    /\ read = NoRead

\* A read begins.
Ask(r) == read = NoRead /\ read' = r

Refuse(op) == Ask([NoRead EXCEPT !.op = op, !.step = "refused"]) /\ UNCHANGED metaVars

-----------------------------------------------------------------------------
(* Dates.                                                                  *)

FirstSecond(day) == day * DayLength
LastSecond(day)  == day * DayLength + DayLength - 1

\* Mutant: until its first second.
DateWindowShort(since, until, now) ==
    LET to == IF until = Absent THEN now ELSE FirstSecond(until)
    IN  [since |-> since, until |-> until, to |-> to,
         from |-> IF since = Absent THEN to - WindowDays * DayLength ELSE FirstSecond(since)]

\* dateWindow, for days that parse: the last day is read whole.
DateWindow(since, until, now) ==
    LET to == IF until = Absent THEN now ELSE LastSecond(until)
    IN  [since |-> since, until |-> until, to |-> to,
         from |-> IF since = Absent THEN to - WindowDays * DayLength ELSE FirstSecond(since)]

\* parseDay, and since.Before(until).
WindowRefused(since, until, now) ==
    \/ Garbled \in {since, until}
    \/ LET window == DateWindow(since, until, now) IN window.from >= window.to

-----------------------------------------------------------------------------
(* Insights.                                                               *)

\* Mutant: every metric asked for as a total.
GroupOfTotals(r) ==
    IF r.op # "ig_account_insights" \/ r.group = "totals" THEN r.asked ELSE {}

\* The metrics of a request; only Instagram accounts have two groups.
Group(r) ==
    IF r.op # "ig_account_insights" THEN r.asked
    ELSE IF r.group = "totals" THEN r.asked \ SeriesOnly ELSE r.asked \cap SeriesOnly

\* Meta refuses a time series asked for as a total.
Served(m, r) ==
    m \in supported /\ (r.op = "ig_account_insights" /\ r.group = "totals" => m \notin SeriesOnly)

MetricsOrDefault(metrics) == IF metrics = {} THEN DefaultMetrics ELSE metrics

AskInsights(op, group, metrics, window) ==
    /\ Ask([NoRead EXCEPT !.op = op, !.step = "batch", !.group = group,
                          !.asked = MetricsOrDefault(metrics), !.window = window])
    /\ supported' \in SUBSET Metrics
    /\ UNCHANGED <<inlined, retired, total>>

\* PageInsights, IGAccountInsights: over a window of days.
Windowed(op, group, metrics, since, until, now) ==
    IF WindowRefused(since, until, now) THEN Refuse(op)
    ELSE AskInsights(op, group, metrics, DateWindow(since, until, now))

PageInsights(metrics, since, until, now) ==
    Windowed("page_insights", "series", metrics, since, until, now)

\* PagePostInsights, IGMediaInsights
ObjectInsights(op, metrics) ==
    /\ op \in {"page_post_insights", "ig_media_insights"}
    /\ AskInsights(op, "series", metrics, NoWindow)

\* The time series have a request of their own, an empty group has none.
IGAccountInsights(metrics, since, until, now) ==
    Windowed("ig_account_insights",
             IF MetricsOrDefault(metrics) \subseteq SeriesOnly THEN "series" ELSE "totals",
             metrics, since, until, now)

\* On to the other group, if there is one that is not empty.
AfterGroup(r) ==
    IF r.group = "totals" /\ r.asked \cap SeriesOnly # {}
    THEN [r EXCEPT !.group = "series", !.step = "batch"]
    ELSE [r EXCEPT !.step = "ok"]

BatchServed ==
    /\ read.step = "batch"
    /\ \A m \in Group(read) : Served(m, read)
    /\ read' = AfterGroup([read EXCEPT !.values = @ \cup Group(read)])
    /\ UNCHANGED metaVars

\* insightsWithFallback: one bad name condemns the batch.
BatchRefused ==
    /\ read.step = "batch"
    /\ \E m \in Group(read) : ~Served(m, read)
    /\ read' = [read EXCEPT !.step = "single", !.left = Group(read)]
    /\ UNCHANGED metaVars

\* One metric at a time; a refused one is only reported.
Single(m) ==
    LET rest == read.left \ {m}
        next == [read EXCEPT !.left = rest,
                    !.values   = IF Served(m, read) THEN @ \cup {m} ELSE @,
                    !.rejected = IF Served(m, read) THEN @ ELSE @ \cup {m}]
    IN  /\ read.step = "single" /\ m \in read.left
        /\ read' = IF rest = {} THEN AfterGroup(next) ELSE next
        /\ UNCHANGED metaVars

-----------------------------------------------------------------------------
(* Lists.                                                                  *)

ClampLimit(n, default) == IF n <= 0 THEN default ELSE IF n > MaxLimit THEN MaxLimit ELSE n

PageSize(limit) == IF limit <= 0 \/ limit > MaxPageSize THEN MaxPageSize ELSE limit

AskListFrom(step, op, limit) ==
    /\ Ask([NoRead EXCEPT !.op = op, !.step = step, !.limit = limit])
    /\ total' \in 0..MaxItems
    /\ inlined' \in BOOLEAN /\ retired' \in BOOLEAN
    /\ UNCHANGED supported

AskList(op, limit) == AskListFrom("page", op, limit)

\* optionalDay: total is the length of the list from that day on.
AskListSince(op, since, n) ==
    IF since = Garbled THEN Refuse(op) ELSE AskList(op, ClampLimit(n, DefaultLimit))

PagePosts(n, since) == AskListSince("page_posts", since, n)
IGMedia(n, since)   == AskListSince("ig_media", since, n)

PagePostComments(n)   == AskList("page_post_comments", ClampLimit(n, DefaultCommentLimit))
IGMediaComments(n)    == AskList("ig_media_comments", ClampLimit(n, DefaultCommentLimit))
PageScheduledPosts(n) == AskList("page_scheduled_posts", ClampLimit(n, DefaultLimit))

\* Read to the end: the stories, and the accounts of a user.
IGStories == AskList("ig_stories", 0)
Accounts  == AskList("accounts", 0)

PageRatings(n) == AskListFrom("summary", "page_ratings", ClampLimit(n, DefaultLimit))

\* PageRatings reads the summary first.
Summary ==
    /\ read.step = "summary"
    /\ read' = [read EXCEPT !.step = "page"]
    /\ UNCHANGED metaVars

\* Whether Meta refuses the list as such: the numbers inlined in it, or the edge.
NumbersRefused == read.op \in {"page_posts", "ig_media"} /\ ~read.plain /\ ~inlined
EdgeRefused    == read.op = "page_ratings" /\ retired

\* Mutant: an empty page is taken for the end.
CollectUntilEmpty(r, k, more) ==
    LET next == [r EXCEPT !.got = @ + k, !.pages = @ + 1]
    IN  IF r.pages = MaxPages THEN [r EXCEPT !.step = "ok"]
        ELSE IF r.limit > 0 /\ next.got >= r.limit THEN [next EXCEPT !.got = r.limit, !.step = "ok"]
        ELSE IF ~more \/ k = 0 THEN [next EXCEPT !.step = "ok"]
        ELSE next

\* Mutant: at the cap, the walk starts again.
CollectForever(r, k, more) ==
    LET next == [r EXCEPT !.got = @ + k, !.pages = @ + 1]
    IN  IF r.pages = MaxPages THEN [r EXCEPT !.got = 0, !.pages = 0]
        ELSE IF r.limit > 0 /\ next.got >= r.limit THEN [next EXCEPT !.got = r.limit, !.step = "ok"]
        ELSE IF ~more THEN [next EXCEPT !.step = "ok"]
        ELSE next

\* Mutant: one page too many.
CollectOneMore(r, k, more) ==
    LET next == [r EXCEPT !.got = @ + k, !.pages = @ + 1]
    IN  IF r.limit > 0 /\ next.got >= r.limit THEN [next EXCEPT !.got = r.limit, !.step = "ok"]
        ELSE IF ~more \/ r.pages = MaxPages THEN [next EXCEPT !.step = "ok"]
        ELSE next

\* collect, given a page of k items and whether it names a next one.  The page
\* after the last one allowed is fetched too and not looked at.
Collect(r, k, more) ==
    LET next == [r EXCEPT !.got = @ + k, !.pages = @ + 1]
    IN  IF r.pages = MaxPages THEN [r EXCEPT !.step = "ok"]
        ELSE IF r.limit > 0 /\ next.got >= r.limit THEN [next EXCEPT !.got = r.limit, !.step = "ok"]
        ELSE IF ~more THEN [next EXCEPT !.step = "ok"]
        ELSE next

ListPage ==
    /\ read.step = "page"
    /\ ~NumbersRefused /\ ~EdgeRefused
    /\ \E k \in 0..PageSize(read.limit), more \in BOOLEAN :
        /\ read.got + k <= total
        /\ ~more => read.got + k = total
        /\ read' = Collect(read, k, more)
    /\ UNCHANGED metaVars

\* Mutant: no second reading.
NumbersRefusedFails ==
    /\ read.step = "page" /\ NumbersRefused
    /\ read' = [read EXCEPT !.step = "error"]
    /\ UNCHANGED metaVars

\* PagePosts, IGMedia: the list is read again, plainly and from the start.
ReadPlainly ==
    /\ read.step = "page" /\ NumbersRefused
    /\ read' = [read EXCEPT !.plain = TRUE, !.got = 0, !.pages = 0]
    /\ UNCHANGED metaVars

\* PageRatings: the summary is answered alone.
SummaryOnly ==
    /\ read.step = "page" /\ EdgeRefused
    /\ read' = [read EXCEPT !.step = "ok"]
    /\ UNCHANGED metaVars

-----------------------------------------------------------------------------
(* Reads of one request, to Meta or to the store, and the diagnosis.       *)

\* A single request decides: Meta's answer for the demographics, the store's for
\* list_pages and, as it finds the page or not, for page_insights_metadata, whose
\* list is a constant.
AskOne(op) == Ask([NoRead EXCEPT !.op = op, !.step = "request"]) /\ UNCHANGED metaVars

\* AllowedBreakdowns are checked first.
IGFollowerDemographics(allowed) ==
    IF allowed THEN AskOne("ig_follower_demographics") ELSE Refuse("ig_follower_demographics")

ListPages            == AskOne("list_pages")
PageInsightsMetadata == AskOne("page_insights_metadata")

RequestServed ==
    /\ read.step = "request" /\ read.op \in SingleReads
    /\ read' = [read EXCEPT !.step = "ok"]
    /\ UNCHANGED metaVars

\* ConnectionStatus: TenantByID and ListPages, then DebugToken.
ConnectionStatus == AskOne("connection_status")

TenantLoaded ==
    /\ read.step = "request" /\ read.op = "connection_status"
    /\ read' = [read EXCEPT !.step = "debug"]
    /\ UNCHANGED metaVars

\* fill: no list of permissions counts as none missing.
Fill(told, valid, granted) ==
    LET missing == IF granted = {} THEN {} ELSE RequiredScopes \ granted
    IN  [told |-> told, valid |-> valid, granted |-> granted, missing |-> missing,
         healthy |-> valid /\ missing = {}, link |-> "none"]

\* Mutant: only a token that is not valid asks for a link.
DiagnoseToken(status) ==
    /\ read.step = "debug"
    /\ read' = [read EXCEPT !.status = status, !.step = IF status.valid THEN "ok" ELSE "link"]
    /\ UNCHANGED metaVars

Diagnose(status) ==
    /\ read.step = "debug"
    /\ read' = [read EXCEPT !.status = status, !.step = IF status.healthy THEN "ok" ELSE "link"]
    /\ UNCHANGED metaVars

DebugToken(valid, granted) == Diagnose(Fill(TRUE, valid, granted))

\* Meta could not be asked: the token is not said to be valid.
DebugTokenFails == Diagnose(Fill(FALSE, FALSE, {}))

\* attachReconnectLink; a link that is lost is not reported, the answer has none.
AttachReconnectLink ==
    /\ read.step = "link"
    /\ \E link \in {"drawn", "lost"} :
           read' = [read EXCEPT !.status.link = link, !.step = "ok"]
    /\ UNCHANGED metaVars

-----------------------------------------------------------------------------

\* An expired token, a quota, a timeout, an answer that cannot be decoded; a
\* statement of the store.
Fails ==
    /\ read.step \in {"batch", "single", "summary", "page", "request"}
    /\ read' = [read EXCEPT !.step = "error", !.broken = TRUE]
    /\ UNCHANGED metaVars

Return ==
    /\ read.step \in {"ok", "error", "refused"}
    /\ read' = NoRead
    /\ supported' = {} /\ total' = 0
    /\ inlined' = FALSE /\ retired' = FALSE

Call ==
    \/ \E metrics \in SUBSET Metrics :
        \/ ObjectInsights("page_post_insights", metrics) \/ ObjectInsights("ig_media_insights", metrics)
        \/ \E since, until \in Day, now \in Times :
            \/ PageInsights(metrics, since, until, now)
            \/ IGAccountInsights(metrics, since, until, now)
    \/ \E n \in Limits :
        \/ PagePostComments(n) \/ PageScheduledPosts(n) \/ PageRatings(n) \/ IGMediaComments(n)
        \/ \E since \in Day : PagePosts(n, since) \/ IGMedia(n, since)
    \/ IGStories \/ Accounts
    \/ \E allowed \in BOOLEAN : IGFollowerDemographics(allowed)
    \/ ListPages \/ PageInsightsMetadata \/ ConnectionStatus

Request ==
    \/ BatchServed \/ BatchRefused \/ \E m \in Metrics : Single(m)
    \/ Summary \/ ListPage \/ ReadPlainly \/ SummaryOnly
    \/ RequestServed \/ TenantLoaded
    \/ \E valid \in BOOLEAN, granted \in SUBSET Scopes : DebugToken(valid, granted)
    \/ DebugTokenFails \/ AttachReconnectLink
    \/ Fails

Next == Call \/ Request \/ Return

Spec == Init /\ [][Next]_vars

\* A read goes on to its next request until it is answered.
FairSpec == Spec /\ WF_vars(Request)

-----------------------------------------------------------------------------
(* Properties.                                                             *)

\* An answer accounts for every metric asked for: those Meta serves have their
\* values and those alone are missing that it does not serve, however the batch
\* was refused and split (insightsWithFallback, IGAccountInsights: "one
\* deprecated name never costs the caller the rest").
InsightsAreComplete ==
    read.op \in InsightReads /\ read.step = "ok" =>
        /\ read.values = read.asked \cap supported
        /\ read.rejected = read.asked \ supported

\* A list that is answered has all it was asked for, or the cap was reached, or
\* the edge is retired, and never more than the limit (collect, clampLimit).
ListIsWhole ==
    read.op \in ListReads /\ read.step = "ok" =>
        /\ read.limit > 0 => read.got <= read.limit
        /\ \/ read.got = total
           \/ read.limit > 0 /\ read.got = read.limit
           \/ read.pages = MaxPages
           \/ EdgeRefused

\* A read fails if and only if one of its requests failed for a reason of its
\* own: what Meta retired is never a failure, and a failure is never taken for
\* something retired (PagePosts, PageRatings, insightsWithFallback: "is a real
\* failure and must reach the caller").
OnlyRealFailuresFail ==
    /\ read.step = "ok" => ~read.broken
    /\ read.step = "error" => read.broken

\* A read is answered, even over a cursor that never ends (collect: "so a
\* runaway cursor cannot loop forever").
EveryReadIsAnswered == read.step # "idle" ~> read.step \in {"ok", "error", "refused"}

\* A window of two days given is these days and all between, from the first
\* second to the last, also when they are one day; and none is empty or runs
\* backwards, whatever was given and whenever (dateWindow: "Include the whole
\* day the caller asked for").
WindowIsWholeDays ==
    LET window == read.window
    IN  /\ {window.since, window.until} \subseteq Days =>
            window.from..window.to =
                UNION {FirstSecond(day)..LastSecond(day) : day \in window.since..window.until}
        /\ read.op \in {"page_insights", "ig_account_insights"} /\ read.step # "refused" =>
            window.from < window.to

\* A connection is reported healthy exactly when Meta, asked in this very
\* diagnosis, calls the token valid and leaves out none of the permissions
\* required, if it names any.  A link to reconnect is tried for whenever the
\* connection is not healthy, for the want of a permission as much as of a token,
\* and only then; the answer goes without one only if the store could not keep
\* it (fill, attachReconnectLink: "only when something is actually wrong").
StatusIsMetasWord ==
    LET status == read.status
    IN  read.op = "connection_status" /\ read.step = "ok" =>
        /\ status.healthy <=> status.told /\ status.valid
                              /\ (status.granted # {} => RequiredScopes \subseteq status.granted)
        /\ status.healthy <=> status.link = "none"
=============================================================================
