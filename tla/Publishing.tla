------------------------------ MODULE Publishing ------------------------------
(***************************************************************************)
(* The write tools over the Graph client: publish a post, now or later,    *)
(* publish on Instagram, reply, moderate, delete, cancel.  A tool resolves *)
(* the page it acts for, checks its arguments, stops at a preview unless   *)
(* the call is confirmed, and then sends one POST, or for Instagram a      *)
(* chain of them with polling in between.  Every request may be refused,   *)
(* throttled and sent once more, lost on its way or on its way back, and   *)
(* any other call, Meta's own scheduler and visitors may come in between   *)
(* two of them.                                                            *)
(*                                                                         *)
(* The tenant's pages are TenantLifecycle's: a call finds some set of them *)
(* stored, the next call may find another.  Meta's side is external: which *)
(* requests it accepts with a page's token, when a container is processed, *)
(* when a scheduled post goes out.  A refusal, throttling included,        *)
(* changes nothing there.  Texts, links and media are good or bad; a       *)
(* failing read of the store is a refusal.                                 *)
(***************************************************************************)
EXTENDS Integers, FiniteSets

CONSTANTS
    Calls,                      \* tool calls
    Pages,                      \* Facebook Pages
    Instagram,                  \* those linked to an Instagram account
    Objects,                    \* pool of Graph object ids
    Inputs,                     \* the arguments calls are made with
    MinSchedule, MaxSchedule,   \* minSchedule, maxSchedule
    MinItems, MaxItems,         \* minCarouselItems, maxCarouselItems
    MaxPolls,                   \* maxPollAttempts
    MaxTime,                    \* bound: the clock stops here
    MaxComments,                \* bound: visitors comment while there are fewer
    None

VARIABLES
    now,            \* the clock
    objects,        \* Meta: posts, comments and Instagram containers
    call,           \* call[c]: the arguments and the progress of a call
    wrote           \* history: how many visible changes Meta made for a call

vars == <<now, objects, call, wrote>>

-----------------------------------------------------------------------------
(* Data.                                                                   *)

PageTools == {"page_publish_post", "page_reply_comment", "page_moderate_comment",
              "page_delete_post", "page_cancel_scheduled_post"}
IGTools   == {"ig_publish", "ig_reply_comment", "ig_moderate_comment"}
Replies     == {"page_reply_comment", "ig_reply_comment"}
Moderations == {"page_moderate_comment", "ig_moderate_comment"}
PostRemovals == {"page_delete_post", "page_cancel_scheduled_post"}

\* good: content the builders take (text, https URLs), or a known action.
\* at: the scheduled date, 0 for none.  slides: 0 unless it is a carousel.
Input == [tool : PageTools \cup IGTools, page : Pages \cup {None}, target : Objects \cup {None},
          good : BOOLEAN, action : {"hide", "unhide", "delete"}, at : Nat, slides : Nat,
          confirm : BOOLEAN]

ASSUME PublishingAssumption ==
    /\ Instagram \subseteq Pages
    /\ Inputs \subseteq Input
    /\ MinSchedule \in Nat \ {0} /\ MaxSchedule \in Nat
    /\ MinItems \in Nat \ {0} /\ MaxItems \in Nat /\ MaxPolls \in Nat \ {0}
    /\ MaxTime \in Nat /\ MaxComments \in Nat
    /\ None \notin Pages \cup Objects
    /\ IsFiniteSet(Objects) /\ IsFiniteSet(Pages)

Requests == {"write", "item", "container", "poll", "publish"}
Answers  == {"preview", "done", "refused", "failed"}
NoInput  == [tool |-> "none", page |-> None, target |-> None, good |-> FALSE, action |-> "none",
             at |-> 0, slides |-> 0, confirm |-> FALSE]
Progress(step, in, page) ==
    [step |-> step, in |-> in, page |-> page, retried |-> FALSE, items |-> {}, container |-> None,
     attempt |-> 0]
NotCalled == Progress("new", NoInput, None)

Calling  == [step : Requests, in : Inputs, page : Pages, retried : BOOLEAN,
             items : SUBSET Objects, container : Objects \cup {None}, attempt : 0..MaxPolls - 1]
Answered == {Progress(a, [NoInput EXCEPT !.confirm = ok], None) : a \in Answers, ok \in BOOLEAN}

\* named: the id starts with the id of the page.  A media is its container.
Object == [kind : {"post", "comment", "container"}, page : Pages, named : BOOLEAN, at : Nat,
           state : {"scheduled", "public", "hidden", "deleted",
                    "processing", "finished", "error", "expired"}]
NoObject == [kind |-> "none", page |-> None, named |-> FALSE, at |-> 0, state |-> "none"]
NewObject(kind, page, named, at, state) ==
    [kind |-> kind, page |-> page, named |-> named, at |-> at, state |-> state]

\* Meta draws a new id.
Draw(o) == objects[o] = NoObject /\ o = CHOOSE i \in Objects : objects[i] = NoObject

TypeOK ==
    /\ now \in 0..MaxTime
    /\ objects \in [Objects -> Object \cup {NoObject}]
    /\ call \in [Calls -> Calling \cup Answered \cup {NotCalled}]
    /\ wrote \in [Calls -> Nat]

Init ==
    /\ now = 0
    /\ objects = [o \in Objects |-> NoObject]
    /\ call = [c \in Calls |-> NotCalled]
    /\ wrote = [c \in Calls |-> 0]

-----------------------------------------------------------------------------
(* Which page a call acts for: one of those the tenant owns, or none.      *)

\* page
Page(owned, id) == owned \cap {id}

\* igPage
IGPage(owned, id) == Page(owned, id) \cap Instagram

\* The page an object id is prefixed with.
Prefix(o) == IF o = None THEN None ELSE IF objects[o].named THEN objects[o].page ELSE None

\* The only one of S, if there is only one.
Only(S) == IF Cardinality(S) = 1 THEN S ELSE {}

\* ownerPage: the hint, else the prefix, else the only page.
OwnerPage(owned, hint, o) ==
    IF o = None THEN {}
    ELSE IF hint # None THEN Page(owned, hint)
    ELSE IF Prefix(o) \in owned THEN {Prefix(o)}
    ELSE Only(owned)

\* ownerIGPage
OwnerIGPage(owned, hint) ==
    IF hint # None THEN IGPage(owned, hint) ELSE Only(owned \cap Instagram)

Resolve(owned, in) ==
    CASE in.tool = "page_publish_post" -> Page(owned, in.page)
      [] in.tool = "ig_publish"        -> IGPage(owned, in.page)
      [] in.tool \in PageTools \ {"page_publish_post"} -> OwnerPage(owned, in.page, in.target)
      [] in.tool \in IGTools \ {"ig_publish"}          -> OwnerIGPage(owned, in.page)

\* parseSchedule
Schedulable(at) == at - now >= MinSchedule /\ at - now <= MaxSchedule

\* buildPublishRequest, buildIGPublishRequest, and the checks of the others.
Valid(in) ==
    /\ in.good
    /\ in.tool = "page_publish_post" /\ in.at # 0 => Schedulable(in.at)
    /\ in.tool = "ig_publish" /\ in.slides # 0 => in.slides \in MinItems..MaxItems
    /\ in.tool \in Moderations \cup PostRemovals => in.target # None

-----------------------------------------------------------------------------
(* The call up to its first request.                                       *)

FirstRequest(in) ==
    CASE in.tool # "ig_publish" -> "write"
      [] in.tool = "ig_publish" /\ in.slides # 0 -> "item"
      [] in.tool = "ig_publish" /\ in.slides = 0 -> "container"

\* Of an answered call only the confirmation is remembered.
Past(in) == [NoInput EXCEPT !.confirm = in.confirm]

Begin(c, in, step, page) ==
    /\ call[c].step = "new"
    /\ call' = [call EXCEPT ![c] = Progress(step, in, page)]
    /\ UNCHANGED <<now, objects, wrote>>

Reject(c, in) ==
    /\ (\E owned \in SUBSET Pages : Resolve(owned, in) = {}) \/ ~Valid(in)
    /\ Begin(c, Past(in), "refused", None)

Preview(c, in) ==
    /\ Valid(in) /\ ~in.confirm
    /\ \E owned \in SUBSET Pages : Resolve(owned, in) # {}
    /\ Begin(c, Past(in), "preview", None)

\* Mutant: the gate is forgotten.
StartUnconfirmed(c, in) ==
    /\ Valid(in)
    /\ \E owned \in SUBSET Pages : \E page \in Resolve(owned, in) : Begin(c, in, FirstRequest(in), page)

Start(c, in) ==
    /\ Valid(in) /\ in.confirm
    /\ \E owned \in SUBSET Pages : \E page \in Resolve(owned, in) : Begin(c, in, FirstRequest(in), page)

-----------------------------------------------------------------------------
(* How a request may end without effect: Client.call, Client.callOnce.     *)

End(c, answer) == call' = [call EXCEPT ![c] = Progress(answer, Past(@.in), None)]

Refused(c) ==
    /\ call[c].step \in Requests
    /\ End(c, "refused")
    /\ UNCHANGED <<now, objects, wrote>>

\* Mutant: tried again for as long as it is throttled.
ThrottledForever(c) ==
    /\ call[c].step \in Requests
    /\ call' = [call EXCEPT ![c].retried = ~@]
    /\ UNCHANGED <<now, objects, wrote>>

\* One retry after a rate limit.
Throttled(c) ==
    /\ call[c].step \in Requests
    /\ IF call[c].retried THEN End(c, "refused") ELSE call' = [call EXCEPT ![c].retried = TRUE]
    /\ UNCHANGED <<now, objects, wrote>>

\* The request never arrives, or the caller gives up while the tool waits.
Breaks(c) ==
    /\ call[c].step \in Requests
    /\ End(c, "failed")
    /\ UNCHANGED <<now, objects, wrote>>

-----------------------------------------------------------------------------
(* The requests that change something users see.                           *)

\* Mutant: any error is retried.
WroteRetrying(c) ==
    /\ wrote' = [wrote EXCEPT ![c] = @ + 1]
    /\ IF call[c].retried THEN End(c, "done")
       ELSE End(c, "done") \/ call' = [call EXCEPT ![c].retried = TRUE]

\* Meta acts; its answer arrives, or is lost, empty or unreadable.
Wrote(c) ==
    /\ wrote' = [wrote EXCEPT ![c] = @ + 1]
    /\ \E answer \in {"done", "failed"} : End(c, answer)

\* PublishPost
PublishPost(c, o) ==
    LET in == call[c].in
        state == IF in.at = 0 THEN "public" ELSE "scheduled"
    IN  /\ call[c].step = "write" /\ in.tool = "page_publish_post"
        /\ Draw(o)
        /\ \E named \in BOOLEAN :
            objects' = [objects EXCEPT ![o] = NewObject("post", call[c].page, named, in.at, state)]
        /\ Wrote(c)
        /\ UNCHANGED now

\* What Meta lets the token of call c's page act upon.
Reaches(c, kind, states) ==
    LET target == call[c].in.target
    IN  /\ target # None
        /\ objects[target].kind = kind
        /\ objects[target].page = call[c].page
        /\ objects[target].state \in states

\* ReplyToComment, IGReplyToComment
ReplyToComment(c, o) ==
    /\ call[c].step = "write" /\ call[c].in.tool \in Replies
    /\ Reaches(c, "comment", {"public", "hidden"})
    /\ Draw(o)
    /\ objects' = [objects EXCEPT ![o] =
            NewObject("comment", call[c].page, objects[call[c].in.target].named, 0, "public")]
    /\ Wrote(c)
    /\ UNCHANGED now

\* SetCommentHidden
SetCommentHidden(c) ==
    LET in == call[c].in
    IN  /\ call[c].step = "write" /\ in.tool \in Moderations /\ in.action # "delete"
        /\ Reaches(c, "comment", {"public", "hidden"})
        /\ objects' = [objects EXCEPT ![in.target].state =
                          IF in.action = "hide" THEN "hidden" ELSE "public"]
        /\ Wrote(c)
        /\ UNCHANGED now

\* DeleteObject: whichever tool asks for it, whatever the id names.
DeleteObject(c) ==
    LET in == call[c].in
    IN  /\ call[c].step = "write"
        /\ in.tool \in PostRemovals \/ (in.tool \in Moderations /\ in.action = "delete")
        /\ Reaches(c, "comment", {"public", "hidden"}) \/ Reaches(c, "post", {"public", "scheduled"})
        /\ objects' = [objects EXCEPT ![in.target].state = "deleted"]
        /\ Wrote(c)
        /\ UNCHANGED now

-----------------------------------------------------------------------------
(* IGPublish: item containers, the container, polling, publication.        *)

\* A container is created; unless the answer is lost, the call goes on with it.
CreateContainer(c, o, following) ==
    /\ Draw(o)
    /\ objects' = [objects EXCEPT ![o] = NewObject("container", call[c].page, FALSE, 0, "processing")]
    /\ End(c, "failed") \/ call' = [call EXCEPT ![c] = following]
    /\ UNCHANGED <<now, wrote>>

\* Mutant: a slide too few.
CreateCarouselItemShort(c, o) ==
    LET items == call[c].items \cup {o}
        next  == IF Cardinality(items) >= call[c].in.slides - 1 THEN "container" ELSE "item"
    IN  /\ call[c].step = "item"
        /\ CreateContainer(c, o, [call[c] EXCEPT !.step = next, !.items = items, !.retried = FALSE])

\* createCarouselItems
CreateCarouselItem(c, o) ==
    LET items == call[c].items \cup {o}
        next  == IF Cardinality(items) = call[c].in.slides THEN "container" ELSE "item"
    IN  /\ call[c].step = "item"
        /\ CreateContainer(c, o, [call[c] EXCEPT !.step = next, !.items = items, !.retried = FALSE])

\* createIGContainer
CreateIGContainer(c, o) ==
    /\ call[c].step = "container"
    /\ CreateContainer(c, o, [call[c] EXCEPT !.step = "poll", !.container = o, !.retried = FALSE])

Status(c) == objects[call[c].container].state

PollFinished(c) ==
    /\ call[c].step = "poll" /\ Status(c) = "finished"
    /\ call' = [call EXCEPT ![c].step = "publish", ![c].retried = FALSE]
    /\ UNCHANGED <<now, objects, wrote>>

PollRejected(c) ==
    /\ call[c].step = "poll" /\ Status(c) \in {"error", "expired"}
    /\ End(c, "refused")
    /\ UNCHANGED <<now, objects, wrote>>

\* Mutant: one attempt too many.
PollPendingOnceMore(c) ==
    /\ call[c].step = "poll" /\ Status(c) = "processing"
    /\ IF call[c].attempt < MaxPolls
       THEN call' = [call EXCEPT ![c].attempt = @ + 1, ![c].retried = FALSE]
       ELSE End(c, "refused")
    /\ UNCHANGED <<now, objects, wrote>>

\* Mutant: the loop ends and the media is published whatever its state.
PollPendingPublishes(c) ==
    /\ call[c].step = "poll" /\ Status(c) = "processing"
    /\ IF call[c].attempt + 1 < MaxPolls
       THEN call' = [call EXCEPT ![c].attempt = @ + 1, ![c].retried = FALSE]
       ELSE call' = [call EXCEPT ![c].step = "publish"]
    /\ UNCHANGED <<now, objects, wrote>>

\* waitForIGContainer gives up after maxPollAttempts answers like this one.
PollPending(c) ==
    /\ call[c].step = "poll" /\ Status(c) = "processing"
    /\ IF call[c].attempt + 1 < MaxPolls
       THEN call' = [call EXCEPT ![c].attempt = @ + 1, ![c].retried = FALSE]
       ELSE End(c, "refused")
    /\ UNCHANGED <<now, objects, wrote>>

\* media_publish
PublishContainer(c) ==
    /\ call[c].step = "publish" /\ Status(c) = "finished"
    /\ objects' = [objects EXCEPT ![call[c].container].state = "public"]
    /\ Wrote(c)
    /\ UNCHANGED now

-----------------------------------------------------------------------------
(* Meta, visitors, and the rest of the server.                             *)

Tick ==
    /\ now < MaxTime
    /\ now' = now + 1
    /\ UNCHANGED <<objects, call, wrote>>

\* On a post of the page, or on a media of its Instagram account.
VisitorComments(o) ==
    /\ Cardinality({i \in Objects : objects[i].kind = "comment"}) < MaxComments
    /\ Draw(o)
    /\ \E page \in Pages, named \in BOOLEAN :
        /\ named \/ page \in Instagram
        /\ objects' = [objects EXCEPT ![o] = NewObject("comment", page, named, 0, "public")]
    /\ UNCHANGED <<now, call, wrote>>

ScheduledPostGoesOut(o) ==
    /\ objects[o].state = "scheduled" /\ now >= objects[o].at
    /\ objects' = [objects EXCEPT ![o].state = "public"]
    /\ UNCHANGED <<now, call, wrote>>

ContainerProceeds(o) ==
    /\ \/ objects[o].state = "processing" /\ \E s \in {"finished", "error"} :
            objects' = [objects EXCEPT ![o].state = s]
       \/ objects[o].state \in {"processing", "finished"}
            /\ objects' = [objects EXCEPT ![o].state = "expired"]
    /\ UNCHANGED <<now, call, wrote>>

Meta(o) == VisitorComments(o) \/ ScheduledPostGoesOut(o) \/ ContainerProceeds(o)

Ask(c) == \E in \in Inputs : Reject(c, in) \/ Preview(c, in) \/ Start(c, in)

Request(c) ==
    \/ Refused(c) \/ Throttled(c) \/ Breaks(c)
    \/ SetCommentHidden(c) \/ DeleteObject(c)
    \/ PollFinished(c) \/ PollRejected(c) \/ PollPending(c)
    \/ PublishContainer(c)
    \/ \E o \in Objects :
        PublishPost(c, o) \/ ReplyToComment(c, o) \/ CreateCarouselItem(c, o) \/ CreateIGContainer(c, o)

Next ==
    \/ Tick
    \/ \E o \in Objects : Meta(o)
    \/ \E c \in Calls : Ask(c) \/ Request(c)

Spec == Init /\ [][Next]_vars

\* Every request ends, if only by the client's timeout, and so does every
\* delay between two.  Nobody has to call a tool.
FairSpec == Spec /\ \A c \in Calls : WF_vars(Request(c))

-----------------------------------------------------------------------------
(* Properties.                                                             *)

\* Nothing without confirm=true, one visible change at most, and an answer
\* that can be relied upon, whatever is throttled, retried or lost (the write
\* tools over Client.call; README, "Nothing gets published without a human").
AnswerOf(c) ==
    CASE call[c].step = "new"      -> "none"
      [] call[c].step \in Requests -> "pending"
      [] call[c].step \in Answers  -> call[c].step
ConfirmedWrites == INSTANCE ConfirmedWrite WITH
    confirmed <- [c \in Calls |-> call[c].in.confirm],
    effects   <- wrote,
    answer    <- [c \in Calls |-> AnswerOf(c)]
ImplementsConfirmedWrite == ConfirmedWrites!WriteSpec

\* media_publish is only sent for a container Meta had finished processing,
\* although polling ends after a fixed number of attempts (waitForIGContainer).
PublishesFinishedOnly ==
    \A c \in Calls : call[c].step = "publish" => Status(c) \in {"finished", "expired"}

\* A carousel that gets as far as its own container has every slide, whichever
\* requests were throttled or lost before (createCarouselItems).
CarouselIsComplete ==
    \A c \in Calls : call[c].container # None =>
        /\ Cardinality(call[c].items) = call[c].in.slides
        /\ \A o \in call[c].items : objects[o].page = objects[call[c].container].page

\* Every call is answered, however Meta behaves: one retry per request and a
\* bounded number of polls (Client.call, waitForIGContainer).
EveryCallIsAnswered ==
    \A c \in Calls : call[c].step \in Requests ~> call[c].step \in Answers

(* What the documentation says and the code does not.                      *)

\* page_cancel_scheduled_post.go: "deletes a post Meta had not published yet".
CancelTakesOnlyScheduled ==
    [][\A c \in Calls, o \in Objects :
        /\ call[c].in.tool = "page_cancel_scheduled_post"
        /\ call[c].step = "write" /\ wrote'[c] # wrote[c]
        /\ objects[o].state # "deleted" /\ objects'[o].state = "deleted"
        => objects[o].state = "scheduled"]_vars
=============================================================================
