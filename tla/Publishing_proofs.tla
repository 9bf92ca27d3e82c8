-------------------------- MODULE Publishing_proofs --------------------------
(***************************************************************************)
(* Proofs about Publishing: type correctness, that Instagram media is      *)
(* published finished and whole, that every write tool keeps the promise   *)
(* of ConfirmedWrite and that a call runs out of requests, for any calls,  *)
(* pages, objects, inputs and bounds.                                      *)
(***************************************************************************)
EXTENDS Publishing, FiniteSetTheorems, TLAPS

-----------------------------------------------------------------------------
(* The page a call acts for.                                               *)

\* Whatever hint, prefix or fallback decides, a call acts for one page at most
\* and only for one the tenant owns (page, igPage, ownerPage, ownerIGPage).
LEMMA OnlyIsOne ==
    ASSUME NEW S, IsFiniteSet(S)
    PROVE  Only(S) \subseteq S /\ \A p, q \in Only(S) : p = q
<1>1. CASE Cardinality(S) = 1
  <2>1. PICK x : S = {x}
    BY <1>1, FS_Singleton
  <2> QED
    BY <2>1 DEF Only
<1>2. CASE Cardinality(S) # 1
  BY <1>2 DEF Only
<1> QED
  BY <1>1, <1>2

THEOREM ResolvesOwnedPage ==
    ASSUME NEW owned \in SUBSET Pages, NEW in \in Inputs
    PROVE  /\ Resolve(owned, in) \subseteq owned
           /\ \A p, q \in Resolve(owned, in) : p = q
<1>1. IsFiniteSet(owned) /\ IsFiniteSet(owned \cap Instagram)
  BY PublishingAssumption, FS_Subset DEF PublishingAssumption
<1>2. in.tool \in PageTools \cup IGTools
  BY PublishingAssumption DEF PublishingAssumption, Input
<1>3. ASSUME NEW id
      PROVE  /\ Page(owned, id) \subseteq owned /\ IGPage(owned, id) \subseteq owned
             /\ \A p, q \in Page(owned, id) : p = q
             /\ \A p, q \in IGPage(owned, id) : p = q
  BY DEF Page, IGPage
<1>4. CASE in.tool = "page_publish_post"
  BY <1>3, <1>4 DEF Resolve, PageTools, IGTools
<1>5. CASE in.tool = "ig_publish"
  BY <1>3, <1>5 DEF Resolve, PageTools, IGTools
<1>6. CASE in.tool \in PageTools \ {"page_publish_post"}
  <2>1. Resolve(owned, in) = OwnerPage(owned, in.page, in.target)
    BY <1>6 DEF Resolve, PageTools, IGTools
  <2> QED
    BY <1>1, <1>3, <2>1, OnlyIsOne DEF OwnerPage
<1>7. CASE in.tool \in IGTools \ {"ig_publish"}
  <2>1. Resolve(owned, in) = OwnerIGPage(owned, in.page)
    BY <1>7 DEF Resolve, PageTools, IGTools
  <2> QED
    BY <1>1, <1>3, <2>1, OnlyIsOne DEF OwnerIGPage
<1> QED
  BY <1>2, <1>4, <1>5, <1>6, <1>7

-----------------------------------------------------------------------------
(* Type correctness.                                                       *)

LEMMA NoObjectIsNone ==
    /\ NoObject \notin Object /\ NoObject.kind = "none"
    /\ Requests \cap Answers = {} /\ "new" \notin Requests \cup Answers
  BY DEF NoObject, Object, Requests, Answers

LEMMA CallType ==
    ASSUME TypeOK, NEW c \in Calls
    PROVE  /\ call[c].step \in Requests <=> call[c] \in Calling
           /\ call[c].step = "new" <=> call[c] = NotCalled
           /\ call[c].step \in Requests \cup Answers \cup {"new"}
  BY DEF TypeOK, Calling, Answered, NotCalled, Progress, Requests, Answers

LEMMA InputType ==
    ASSUME NEW in \in Inputs
    PROVE  in \in Input /\ in.confirm \in BOOLEAN /\ in.at \in Nat /\ in.slides \in Nat
  BY PublishingAssumption DEF PublishingAssumption, Input

LEMMA AnsweredType ==
    ASSUME NEW in, in.confirm \in BOOLEAN, NEW answer \in Answers
    PROVE  Progress(answer, Past(in), None) \in Answered
  BY DEF Answered, Past

LEMMA StartType ==
    ASSUME NEW in \in Inputs, NEW page \in Pages
    PROVE  Progress(FirstRequest(in), in, page) \in Calling
<1>1. FirstRequest(in) \in Requests
  BY InputType DEF FirstRequest, Requests
<1>2. 0 \in 0..MaxPolls - 1
  BY PublishingAssumption DEF PublishingAssumption
<1> QED
  BY <1>1, <1>2 DEF Progress, Calling

LEMMA DrawnType ==
    ASSUME TypeOK, NEW o \in Objects, NEW object \in Object,
           objects' = [objects EXCEPT ![o] = object]
    PROVE  objects' \in [Objects -> Object \cup {NoObject}]
  BY DEF TypeOK

LEMMA StateType ==
    ASSUME TypeOK, NEW o \in Objects, objects[o].kind # "none",
           NEW state \in {"scheduled", "public", "hidden", "deleted",
                          "processing", "finished", "error", "expired"},
           objects' = [objects EXCEPT ![o].state = state]
    PROVE  objects' \in [Objects -> Object \cup {NoObject}]
<1>1. objects[o] \in Object
  BY DEF TypeOK, NoObject
<1>2. [objects[o] EXCEPT !.state = state] \in Object
  BY <1>1 DEF Object
<1> QED
  BY <1>2 DEF TypeOK

LEMMA EndType ==
    ASSUME TypeOK, NEW c \in Calls, call[c].step \in Requests, NEW answer \in Answers,
           End(c, answer)
    PROVE  call' \in [Calls -> Calling \cup Answered \cup {NotCalled}]
<1>1. call[c].in.confirm \in BOOLEAN
  BY CallType, InputType DEF Calling
<1>2. Progress(answer, Past(call[c].in), None) \in Answered
  BY <1>1, AnsweredType
<1> QED
  BY <1>2 DEF End, TypeOK

LEMMA ContinueType ==
    ASSUME TypeOK, NEW c \in Calls, NEW progress \in Calling,
           call' = [call EXCEPT ![c] = progress]
    PROVE  call' \in [Calls -> Calling \cup Answered \cup {NotCalled}]
  BY DEF TypeOK

LEMMA WroteType ==
    ASSUME TypeOK, NEW c \in Calls, call[c].step \in Requests, Wrote(c)
    PROVE  /\ call' \in [Calls -> Calling \cup Answered \cup {NotCalled}]
           /\ wrote' \in [Calls -> Nat]
<1>1. \A answer \in {"done", "failed"} : answer \in Answers
  BY DEF Answers
<1> QED
  BY <1>1, EndType DEF Wrote, TypeOK

-----------------------------------------------------------------------------
(* The inductive invariant.  A call holds the containers it created, of its *)
(* own page, and no other call holds its last one.                         *)

CallSound(c) ==
    /\ call[c].step \in {"poll", "publish"} <=> call[c].container # None
    /\ call[c].container # None =>
          /\ objects[call[c].container].kind = "container"
          /\ objects[call[c].container].page = call[c].page
          /\ Cardinality(call[c].items) = call[c].in.slides
    /\ call[c].step = "item" => Cardinality(call[c].items) < call[c].in.slides
    /\ call[c].step = "container" => Cardinality(call[c].items) = call[c].in.slides
    /\ \A o \in call[c].items : objects[o].kind = "container" /\ objects[o].page = call[c].page
    /\ call[c].step = "publish" => Status(c) \in {"finished", "expired"}

ContainersApart ==
    \A c, d \in Calls : call[c].container # None /\ call[c].container = call[d].container => c = d

ContainersUnscheduled ==
    \A o \in Objects : objects[o].kind = "container" => objects[o].state # "scheduled"

PublishingInv ==
    TypeOK /\ (\A c \in Calls : CallSound(c)) /\ ContainersApart /\ ContainersUnscheduled

\* What no step does to an object that exists: it keeps its kind and its page,
\* and a finished container other than p stays so or expires.
ObjectsStay(p) ==
    \A o \in Objects : objects[o].kind # "none" =>
        /\ objects'[o].kind = objects[o].kind /\ objects'[o].page = objects[o].page
        /\ objects[o].kind = "container" /\ objects[o].state \in {"finished", "expired"} /\ o # p
              => objects'[o].state \in {"finished", "expired"}

LEMMA InitPublishingInv == Init => PublishingInv
<1> SUFFICES ASSUME Init PROVE PublishingInv
  OBVIOUS
<1>1. TypeOK
  BY PublishingAssumption DEF PublishingAssumption, Init, TypeOK
<1>2. \A c \in Calls : CallSound(c) /\ call[c].container = None
  BY DEF Init, NotCalled, Progress, NoInput, CallSound
<1>3. ContainersUnscheduled
  BY NoObjectIsNone DEF Init, ContainersUnscheduled
<1> QED
  BY <1>1, <1>2, <1>3 DEF PublishingInv, ContainersApart

LEMMA HeldType ==
    ASSUME TypeOK, NEW c \in Calls
    PROVE  /\ call[c].container # None => call[c].container \in Objects
           /\ call[c].items \in SUBSET Objects /\ IsFiniteSet(call[c].items)
<1>1. /\ call[c].container # None => call[c].container \in Objects
      /\ call[c].items \in SUBSET Objects
  BY DEF TypeOK, Calling, Answered, NotCalled, Progress
<1> QED
  BY <1>1, PublishingAssumption, FS_Subset DEF PublishingAssumption

\* A call whose progress does not move stays sound.
LEMMA SameStaysSound ==
    ASSUME PublishingInv, TypeOK', NEW p, ObjectsStay(p), NEW d \in Calls,
           call[d].container # p \/ call[d].container = None,
           call'[d].step = call[d].step, call'[d].in = call[d].in, call'[d].page = call[d].page,
           call'[d].items = call[d].items, call'[d].container = call[d].container
    PROVE  CallSound(d)'
<1>1. CallSound(d)
  BY DEF PublishingInv
<1>2. /\ call[d].container # None => call[d].container \in Objects
      /\ call[d].items \in SUBSET Objects
  BY HeldType DEF PublishingInv
<1>3. call[d].container # None =>
         /\ objects'[call[d].container].kind = "container"
         /\ objects'[call[d].container].page = call[d].page
  BY <1>1, <1>2 DEF CallSound, ObjectsStay
<1>4. \A o \in call[d].items : objects'[o].kind = "container" /\ objects'[o].page = call[d].page
  BY <1>1, <1>2 DEF CallSound, ObjectsStay
<1>5. ASSUME call[d].step = "publish"
      PROVE  objects'[call[d].container].state \in {"finished", "expired"}
  BY <1>1, <1>2, <1>5 DEF CallSound, ObjectsStay, Status
<1> QED
  BY <1>1, <1>3, <1>4, <1>5 DEF CallSound, Status

\* A call that is answered, or begins.
LEMMA EmptySound ==
    ASSUME NEW c \in Calls, NEW step, NEW in, NEW page, call'[c] = Progress(step, in, page),
           step \notin {"poll", "publish"},
           step = "item" => in.slides \in Nat /\ in.slides # 0,
           step = "container" => in.slides = 0
    PROVE  CallSound(c)' /\ call'[c].container = None
<1>1. Cardinality({}) = 0
  BY FS_EmptySet
<1> QED
  BY <1>1 DEF Progress, CallSound

\* One call moves: it ends, goes on with what it has, or with what it drew.
LEMMA OneCallMoves ==
    ASSUME PublishingInv, TypeOK', ContainersUnscheduled', NEW c \in Calls, NEW p, ObjectsStay(p),
           \A d \in Calls \ {c} : call'[d] = call[d],
           \A d \in Calls \ {c} : call[d].container # p \/ call[d].container = None,
           CallSound(c)',
           \/ call'[c].container \in {None, call[c].container}
           \/ objects[call'[c].container].kind = "none"
    PROVE  PublishingInv'
<1>1. \A d \in Calls : CallSound(d)'
  BY SameStaysSound
<1>2. ContainersApart'
  <2>1. \A d \in Calls \ {c} : call[d].container # None
           => objects[call[d].container].kind = "container"
    BY DEF PublishingInv, CallSound
  <2> QED
    BY <2>1 DEF PublishingInv, ContainersApart
<1> QED
  BY <1>1, <1>2 DEF PublishingInv

\* No call moves.
LEMMA NoCallMoves ==
    ASSUME PublishingInv, TypeOK', ContainersUnscheduled', ObjectsStay(None), UNCHANGED call
    PROVE  PublishingInv'
<1>1. \A d \in Calls : CallSound(d)'
  BY SameStaysSound
<1> QED
  BY <1>1 DEF PublishingInv, ContainersApart

-----------------------------------------------------------------------------
(* How the objects change.                                                 *)

LEMMA SameObjectsStay ==
    ASSUME PublishingInv, UNCHANGED objects
    PROVE  ObjectsStay(None) /\ ContainersUnscheduled'
  BY DEF PublishingInv, ContainersUnscheduled, ObjectsStay

LEMMA DrawnObjectsStay ==
    ASSUME PublishingInv, NEW o \in Objects, Draw(o), NEW object,
           objects' = [objects EXCEPT ![o] = object],
           object.kind = "container" => object.state # "scheduled"
    PROVE  ObjectsStay(None) /\ ContainersUnscheduled' /\ objects'[o] = object
           /\ objects[o].kind = "none"
  BY NoObjectIsNone DEF PublishingInv, TypeOK, Draw, ContainersUnscheduled, ObjectsStay

LEMMA StateChangeStays ==
    ASSUME PublishingInv, NEW o \in Objects, objects[o].kind # "none", NEW state, NEW p,
           objects' = [objects EXCEPT ![o].state = state],
           objects[o].kind = "container" =>
               /\ state # "scheduled"
               /\ objects[o].state \in {"finished", "expired"} /\ o # p
                     => state \in {"finished", "expired"}
    PROVE  ObjectsStay(p) /\ ContainersUnscheduled'
<1>1. objects[o] \in Object
  BY NoObjectIsNone DEF PublishingInv, TypeOK
<1>2. /\ objects'[o].kind = objects[o].kind /\ objects'[o].page = objects[o].page
      /\ objects'[o].state = state
      /\ \A q \in Objects \ {o} : objects'[q] = objects[q]
  BY <1>1 DEF PublishingInv, TypeOK, Object
<1> QED
  BY <1>2 DEF PublishingInv, ContainersUnscheduled, ObjectsStay

-----------------------------------------------------------------------------
(* The steps.                                                              *)

LEMMA BeginInv ==
    ASSUME PublishingInv, NEW c \in Calls, Ask(c)
    PROVE  PublishingInv'
<1>1. ASSUME NEW arg, NEW step, NEW page, Begin(c, arg, step, page),
             Progress(step, arg, page) \in Calling \cup Answered,
             step \notin {"poll", "publish"},
             step = "item" => arg.slides \in Nat /\ arg.slides # 0,
             step = "container" => arg.slides = 0
      PROVE  PublishingInv'
  <2>1. /\ call'[c] = Progress(step, arg, page)
        /\ \A d \in Calls \ {c} : call'[d] = call[d]
        /\ TypeOK'
    BY <1>1 DEF Begin, PublishingInv, TypeOK
  <2>2. CallSound(c)' /\ call'[c].container = None
    BY <1>1, <2>1, EmptySound
  <2>3. ObjectsStay(None) /\ ContainersUnscheduled'
    BY <1>1, SameObjectsStay DEF Begin
  <2> QED
    BY <2>1, <2>2, <2>3, OneCallMoves
<1>2. PICK arg \in Inputs : Reject(c, arg) \/ Preview(c, arg) \/ Start(c, arg)
  BY DEF Ask
<1>3. arg.confirm \in BOOLEAN /\ arg.slides \in Nat /\ arg.tool \in PageTools \cup IGTools
  BY InputType DEF Input
<1>4. CASE Reject(c, arg)
  BY <1>1, <1>3, <1>4, AnsweredType DEF Reject, Answers
<1>5. CASE Preview(c, arg)
  BY <1>1, <1>3, <1>5, AnsweredType DEF Preview, Answers
<1>6. CASE Start(c, arg)
  <2>1. PICK owned \in SUBSET Pages :
           \E page \in Resolve(owned, arg) : Begin(c, arg, FirstRequest(arg), page)
    BY <1>6 DEF Start
  <2> PICK page \in Resolve(owned, arg) : Begin(c, arg, FirstRequest(arg), page)
    BY <2>1
  <2>2. page \in Pages
    BY ResolvesOwnedPage
  <2>3. /\ FirstRequest(arg) \notin {"poll", "publish"}
        /\ FirstRequest(arg) = "item" => arg.slides # 0
        /\ FirstRequest(arg) = "container" => arg.slides = 0
    BY <1>3 DEF FirstRequest
  <2> QED
    BY <1>1, <1>3, <2>2, <2>3, StartType
<1> QED
  BY <1>2, <1>4, <1>5, <1>6

LEMMA Ends ==
    ASSUME PublishingInv, NEW c \in Calls, call[c].step \in Requests, NEW answer \in Answers,
           End(c, answer)
    PROVE  /\ call' \in [Calls -> Calling \cup Answered \cup {NotCalled}]
           /\ \A d \in Calls \ {c} : call'[d] = call[d]
           /\ CallSound(c)' /\ call'[c].container = None
<1>1. call'[c] = Progress(answer, Past(call[c].in), None)
      /\ \A d \in Calls \ {c} : call'[d] = call[d]
  BY DEF End, PublishingInv, TypeOK
<1>2. CallSound(c)' /\ call'[c].container = None
  BY <1>1, EmptySound DEF Answers
<1> QED
  BY <1>1, <1>2, EndType DEF PublishingInv

\* A request without effect at Meta.
LEMMA FruitlessInv ==
    ASSUME PublishingInv, NEW c \in Calls, Refused(c) \/ Throttled(c) \/ Breaks(c)
    PROVE  PublishingInv'
<1>0. ObjectsStay(None) /\ ContainersUnscheduled'
  BY SameObjectsStay DEF Refused, Throttled, Breaks
<1>1. ASSUME NEW answer \in Answers, End(c, answer) PROVE PublishingInv'
  <2>1. TypeOK'
    BY <1>1, Ends DEF Refused, Throttled, Breaks, PublishingInv, TypeOK
  <2> QED
    BY <1>0, <1>1, <2>1, Ends, OneCallMoves DEF Refused, Throttled, Breaks
<1>2. CASE call[c].step \in Requests /\ call' = [call EXCEPT ![c].retried = TRUE]
  <2>1. call[c] \in Calling
    BY <1>2, CallType DEF PublishingInv
  <2>2. [call[c] EXCEPT !.retried = TRUE] \in Calling
    BY <2>1 DEF Calling
  <2>3. /\ call'[c] = [call[c] EXCEPT !.retried = TRUE]
        /\ \A d \in Calls \ {c} : call'[d] = call[d]
    BY <1>2 DEF PublishingInv, TypeOK
  <2>4. TypeOK'
    BY <1>2, <2>2 DEF Refused, Throttled, Breaks, PublishingInv, TypeOK
  <2>5. /\ call'[c].step = call[c].step /\ call'[c].in = call[c].in
        /\ call'[c].page = call[c].page /\ call'[c].items = call[c].items
        /\ call'[c].container = call[c].container
    BY <2>1, <2>3 DEF Calling
  <2>6. CallSound(c)'
    BY <1>0, <2>4, <2>5, SameStaysSound
  <2> QED
    BY <1>0, <2>3, <2>4, <2>5, <2>6, OneCallMoves
<1>3. "refused" \in Answers /\ "failed" \in Answers
  BY DEF Answers
<1> QED
  BY <1>1, <1>2, <1>3 DEF Refused, Throttled, Breaks

\* A visible change that ends the call.  p is the container it publishes.
LEMMA WroteInv ==
    ASSUME PublishingInv, NEW c \in Calls, call[c].step \in Requests, Wrote(c), UNCHANGED now,
           objects' \in [Objects -> Object \cup {NoObject}],
           NEW p, ObjectsStay(p), ContainersUnscheduled',
           \A d \in Calls \ {c} : call[d].container # p \/ call[d].container = None
    PROVE  PublishingInv'
<1>1. PICK answer \in {"done", "failed"} : End(c, answer)
  BY DEF Wrote
<1>2. answer \in Answers
  BY DEF Answers
<1>3. TypeOK'
  BY WroteType DEF PublishingInv, TypeOK
<1> QED
  BY <1>1, <1>2, <1>3, Ends, OneCallMoves

LEMMA NewObjectType ==
    ASSUME NEW kind \in {"post", "comment", "container"}, NEW page \in Pages, NEW named \in BOOLEAN,
           NEW at \in Nat, NEW state \in {"scheduled", "public", "processing"}
    PROVE  NewObject(kind, page, named, at, state) \in Object
           /\ NewObject(kind, page, named, at, state).kind = kind
           /\ NewObject(kind, page, named, at, state).page = page
           /\ NewObject(kind, page, named, at, state).state = state
  BY DEF NewObject, Object

LEMMA PublishPostInv ==
    ASSUME PublishingInv, NEW c \in Calls, NEW o \in Objects, PublishPost(c, o)
    PROVE  PublishingInv'
<1>1. call[c].step \in Requests /\ Wrote(c) /\ UNCHANGED now /\ Draw(o)
  BY DEF PublishPost, Requests
<1>2. call[c].page \in Pages /\ call[c].in.at \in Nat
  BY <1>1, CallType, InputType DEF PublishingInv, Calling
<1>3. PICK named \in BOOLEAN, state \in {"public", "scheduled"} :
         objects' = [objects EXCEPT ![o] = NewObject("post", call[c].page, named, call[c].in.at, state)]
  BY DEF PublishPost
<1> DEFINE new == NewObject("post", call[c].page, named, call[c].in.at, state)
<1>4. new \in Object /\ new.kind = "post"
  BY <1>2, NewObjectType
<1> HIDE DEF new
<1>5. objects' \in [Objects -> Object \cup {NoObject}]
  BY <1>3, <1>4, DrawnType DEF PublishingInv, new
<1>6. ObjectsStay(None) /\ ContainersUnscheduled'
  BY <1>1, <1>3, <1>4, DrawnObjectsStay DEF new
<1> QED
  BY <1>1, <1>5, <1>6, WroteInv

\* What a token reaches exists.
LEMMA ReachedExists ==
    ASSUME PublishingInv, NEW c \in Calls, NEW kind \in {"post", "comment"}, NEW states,
           call[c].step \in Requests, Reaches(c, kind, states)
    PROVE  /\ call[c].in.target \in Objects
           /\ objects[call[c].in.target].kind = kind
           /\ objects[call[c].in.target] \in Object
<1>1. call[c].in.target \in Objects
  BY CallType, InputType DEF PublishingInv, Calling, Input, Reaches
<1> QED
  BY <1>1, NoObjectIsNone DEF PublishingInv, TypeOK, Reaches

LEMMA ReplyInv ==
    ASSUME PublishingInv, NEW c \in Calls, NEW o \in Objects, ReplyToComment(c, o)
    PROVE  PublishingInv'
<1>1. call[c].step \in Requests /\ Wrote(c) /\ UNCHANGED now /\ Draw(o)
  BY DEF ReplyToComment, Requests
<1>2. call[c].page \in Pages
  BY <1>1, CallType DEF PublishingInv, Calling
<1>3. objects[call[c].in.target].named \in BOOLEAN
  BY <1>1, ReachedExists DEF ReplyToComment, Object
<1> DEFINE new == NewObject("comment", call[c].page, objects[call[c].in.target].named, 0, "public")
<1>4. new \in Object /\ new.kind = "comment"
  BY <1>2, <1>3, NewObjectType
<1>5. objects' = [objects EXCEPT ![o] = new]
  BY DEF ReplyToComment
<1> HIDE DEF new
<1>6. objects' \in [Objects -> Object \cup {NoObject}]
  BY <1>4, <1>5, DrawnType DEF PublishingInv
<1>7. ObjectsStay(None) /\ ContainersUnscheduled'
  BY <1>1, <1>4, <1>5, DrawnObjectsStay
<1> QED
  BY <1>1, <1>6, <1>7, WroteInv

\* Hiding, showing again and deleting.
LEMMA TargetChangeInv ==
    ASSUME PublishingInv, NEW c \in Calls, NEW kind \in {"post", "comment"}, NEW states,
           NEW state \in {"hidden", "public", "deleted"},
           call[c].step \in Requests, Reaches(c, kind, states), Wrote(c), UNCHANGED now,
           objects' = [objects EXCEPT ![call[c].in.target].state = state]
    PROVE  PublishingInv'
<1>1. PICK o \in Objects : o = call[c].in.target /\ objects[o].kind = kind
  BY ReachedExists
<1>2. objects' \in [Objects -> Object \cup {NoObject}]
  BY <1>1, StateType DEF PublishingInv
<1>3. ObjectsStay(None) /\ ContainersUnscheduled'
  BY <1>1, StateChangeStays
<1> QED
  BY <1>2, <1>3, WroteInv

LEMMA ModerationInv ==
    ASSUME PublishingInv, NEW c \in Calls, SetCommentHidden(c) \/ DeleteObject(c)
    PROVE  PublishingInv'
<1>1. CASE SetCommentHidden(c)
  <2>1. PICK state \in {"hidden", "public"} :
           objects' = [objects EXCEPT ![call[c].in.target].state = state]
    BY <1>1 DEF SetCommentHidden
  <2>2. call[c].step \in Requests
    BY <1>1 DEF SetCommentHidden, Requests
  <2> QED
    BY <1>1, <2>1, <2>2, TargetChangeInv DEF SetCommentHidden
<1>2. CASE DeleteObject(c)
  <2>1. /\ call[c].step \in Requests
        /\ objects' = [objects EXCEPT ![call[c].in.target].state = "deleted"]
        /\ Wrote(c) /\ UNCHANGED now
    BY <1>2 DEF DeleteObject, Requests
  <2>2. \/ Reaches(c, "comment", {"public", "hidden"})
        \/ Reaches(c, "post", {"public", "scheduled"})
    BY <1>2 DEF DeleteObject
  <2> QED
    BY <2>1, <2>2, TargetChangeInv
<1> QED
  BY <1>1, <1>2

\* A container is created, and the call goes on with it or never hears of it.
LEMMA CreateContainerInv ==
    ASSUME PublishingInv, NEW c \in Calls, NEW o \in Objects, NEW following \in Calling,
           call[c].step \in Requests, CreateContainer(c, o, following),
           call' = [call EXCEPT ![c] = following] /\ ObjectsStay(None)
           /\ objects'[o].kind = "container" /\ objects'[o].page = call[c].page
           /\ objects[o].kind = "none"
              => CallSound(c)' /\ following.container \in {None, o}
    PROVE  PublishingInv'
<1>1. call[c].page \in Pages /\ Draw(o)
  BY CallType DEF PublishingInv, Calling, CreateContainer
<1> DEFINE new == NewObject("container", call[c].page, FALSE, 0, "processing")
<1>2. new \in Object /\ new.kind = "container" /\ new.page = call[c].page
      /\ new.state = "processing"
  BY <1>1 DEF NewObject, Object
<1>3. objects' = [objects EXCEPT ![o] = new]
  BY DEF CreateContainer
<1> HIDE DEF new
<1>4. objects' \in [Objects -> Object \cup {NoObject}]
  BY <1>2, <1>3, DrawnType DEF PublishingInv
<1>5. ObjectsStay(None) /\ ContainersUnscheduled' /\ objects'[o] = new /\ objects[o].kind = "none"
  BY <1>1, <1>2, <1>3, DrawnObjectsStay
<1>6. CASE End(c, "failed")
  <2>1. "failed" \in Answers
    BY DEF Answers
  <2>2. TypeOK'
    BY <1>4, <1>6, <2>1, Ends DEF CreateContainer, PublishingInv, TypeOK
  <2> QED
    BY <1>5, <1>6, <2>1, <2>2, Ends, OneCallMoves
<1>7. CASE call' = [call EXCEPT ![c] = following]
  <2>1. /\ call'[c] = following
        /\ \A d \in Calls \ {c} : call'[d] = call[d]
    BY <1>7 DEF PublishingInv, TypeOK
  <2>2. TypeOK'
    BY <1>4, <1>7, ContinueType DEF CreateContainer, PublishingInv, TypeOK
  <2>3. CallSound(c)' /\ following.container \in {None, o}
    BY <1>2, <1>5, <1>7
  <2> QED
    BY <1>5, <2>1, <2>2, <2>3, OneCallMoves
<1> QED
  BY <1>6, <1>7 DEF CreateContainer

LEMMA CarouselItemInv ==
    ASSUME PublishingInv, NEW c \in Calls, NEW o \in Objects, CreateCarouselItem(c, o)
    PROVE  PublishingInv'
<1> DEFINE items == call[c].items \cup {o}
           next  == IF Cardinality(items) = call[c].in.slides THEN "container" ELSE "item"
           following == [call[c] EXCEPT !.step = next, !.items = items, !.retried = FALSE]
<1>0. call[c].step = "item" /\ CreateContainer(c, o, following)
  BY DEF CreateCarouselItem
<1>1. call[c] \in Calling /\ call[c].step \in Requests
  BY <1>0, CallType DEF PublishingInv, Requests
<1>2. following \in Calling /\ following.step = next /\ following.items = items
      /\ following.in = call[c].in /\ following.page = call[c].page
      /\ following.container = call[c].container
  BY <1>1 DEF Calling, Requests
<1>3. /\ CallSound(c) /\ call[c].container = None
      /\ call[c].items \in SUBSET Objects /\ IsFiniteSet(call[c].items)
      /\ call[c].in.slides \in Nat
  BY <1>0, <1>1, HeldType, InputType DEF PublishingInv, CallSound, Calling
<1>4. ASSUME objects[o].kind = "none"
      PROVE  Cardinality(items) <= call[c].in.slides /\ Cardinality(items) \in Nat
  <2>1. o \notin call[c].items
    BY <1>3, <1>4 DEF CallSound
  <2>2. Cardinality(items) = Cardinality(call[c].items) + 1
    BY <1>3, <2>1, FS_AddElement
  <2>3. Cardinality(call[c].items) \in Nat
    BY <1>3, FS_CardinalityType
  <2>4. Cardinality(call[c].items) < call[c].in.slides
    BY <1>0, <1>3 DEF CallSound
  <2> QED
    BY <1>3, <2>2, <2>3, <2>4
<1> HIDE DEF following
<1>5. ASSUME call' = [call EXCEPT ![c] = following], ObjectsStay(None),
             objects'[o].kind = "container", objects'[o].page = call[c].page,
             objects[o].kind = "none"
      PROVE  CallSound(c)'
  <2>1. call'[c] = following
    BY <1>5 DEF PublishingInv, TypeOK
  <2>2. \A i \in items : objects'[i].kind = "container" /\ objects'[i].page = call[c].page
    BY <1>3, <1>5 DEF CallSound, ObjectsStay
  <2>3. /\ next \in {"container", "item"}
        /\ next = "item" => Cardinality(items) < call[c].in.slides
        /\ next = "container" => Cardinality(items) = call[c].in.slides
    BY <1>3, <1>4, <1>5
  <2> HIDE DEF items, next
  <2> QED
    BY <1>2, <1>3, <2>1, <2>2, <2>3 DEF CallSound
<1>6. following.container \in {None, o}
  BY <1>2, <1>3
<1> QED
  BY <1>0, <1>1, <1>2, <1>5, <1>6, CreateContainerInv

LEMMA IGContainerInv ==
    ASSUME PublishingInv, NEW c \in Calls, NEW o \in Objects, CreateIGContainer(c, o)
    PROVE  PublishingInv'
<1> DEFINE following == [call[c] EXCEPT !.step = "poll", !.container = o, !.retried = FALSE]
<1>0. call[c].step = "container" /\ CreateContainer(c, o, following)
  BY DEF CreateIGContainer
<1>1. call[c] \in Calling /\ call[c].step \in Requests
  BY <1>0, CallType DEF PublishingInv, Requests
<1>2. following \in Calling /\ following.step = "poll" /\ following.items = call[c].items
      /\ following.in = call[c].in /\ following.page = call[c].page
      /\ following.container = o
  BY <1>1 DEF Calling, Requests
<1>3. CallSound(c) /\ call[c].items \in SUBSET Objects /\ o # None
  BY <1>1, HeldType, PublishingAssumption DEF PublishingAssumption, PublishingInv
<1> HIDE DEF following
<1>4. ASSUME call' = [call EXCEPT ![c] = following], ObjectsStay(None),
             objects'[o].kind = "container", objects'[o].page = call[c].page,
             objects[o].kind = "none"
      PROVE  CallSound(c)'
  <2>1. call'[c] = following
    BY <1>4 DEF PublishingInv, TypeOK
  <2>2. \A i \in call[c].items : objects'[i].kind = "container" /\ objects'[i].page = call[c].page
    BY <1>3, <1>4 DEF CallSound, ObjectsStay
  <2> QED
    BY <1>0, <1>2, <1>3, <1>4, <2>1, <2>2 DEF CallSound
<1> QED
  BY <1>0, <1>1, <1>2, <1>4, CreateContainerInv

LEMMA PollInv ==
    ASSUME PublishingInv, NEW c \in Calls, PollFinished(c) \/ PollRejected(c) \/ PollPending(c)
    PROVE  PublishingInv'
<1>0. /\ ObjectsStay(None) /\ ContainersUnscheduled' /\ UNCHANGED <<now, objects, wrote>>
      /\ call[c].step = "poll" /\ call[c].step \in Requests
  BY SameObjectsStay DEF PollFinished, PollRejected, PollPending, Requests
<1>1. call[c] \in Calling /\ call[c].attempt \in 0..MaxPolls - 1 /\ CallSound(c)
  BY <1>0, CallType DEF PublishingInv, Calling
<1>2. CASE End(c, "refused")
  <2>1. "refused" \in Answers
    BY DEF Answers
  <2>2. TypeOK'
    BY <1>0, <1>2, <2>1, Ends DEF PublishingInv, TypeOK
  <2> QED
    BY <1>0, <1>2, <2>1, <2>2, Ends, OneCallMoves
<1>3. ASSUME NEW progress \in Calling, call' = [call EXCEPT ![c] = progress],
             progress.in = call[c].in, progress.page = call[c].page,
             progress.items = call[c].items, progress.container = call[c].container,
             \/ progress.step = "poll"
             \/ progress.step = "publish" /\ Status(c) = "finished"
      PROVE  PublishingInv'
  <2>1. /\ call'[c] = progress
        /\ \A d \in Calls \ {c} : call'[d] = call[d]
    BY <1>3 DEF PublishingInv, TypeOK
  <2>2. TypeOK'
    BY <1>0, <1>3, ContinueType DEF PublishingInv, TypeOK
  <2>3. CallSound(c)'
    BY <1>0, <1>1, <1>3, <2>1 DEF CallSound, Status
  <2> QED
    BY <1>0, <1>3, <2>1, <2>2, <2>3, OneCallMoves
<1>4. CASE PollFinished(c)
  <2> DEFINE progress == [call[c] EXCEPT !.step = "publish", !.retried = FALSE]
  <2>1. call' = [call EXCEPT ![c] = progress] /\ Status(c) = "finished"
    BY <1>4 DEF PollFinished
  <2>2. /\ progress \in Calling /\ progress.step = "publish"
        /\ progress.in = call[c].in /\ progress.page = call[c].page
        /\ progress.items = call[c].items /\ progress.container = call[c].container
    BY <1>1 DEF Calling, Requests
  <2> HIDE DEF progress
  <2> QED
    BY <1>3, <2>1, <2>2
<1>5. CASE PollRejected(c)
  BY <1>2, <1>5 DEF PollRejected
<1>6. CASE PollPending(c)
  <2> DEFINE progress == [call[c] EXCEPT !.attempt = call[c].attempt + 1, !.retried = FALSE]
  <2>1. CASE call[c].attempt + 1 < MaxPolls
    <3>1. call' = [call EXCEPT ![c] = progress]
      BY <1>6, <2>1 DEF PollPending
    <3>2. call[c].attempt + 1 \in 0..MaxPolls - 1
      BY <1>1, <2>1, PublishingAssumption DEF PublishingAssumption
    <3>3. /\ progress \in Calling /\ progress.step = "poll"
          /\ progress.in = call[c].in /\ progress.page = call[c].page
          /\ progress.items = call[c].items /\ progress.container = call[c].container
      BY <1>0, <1>1, <3>2 DEF Calling, Requests
    <3> HIDE DEF progress
    <3> QED
      BY <1>3, <3>1, <3>3
  <2>2. CASE ~(call[c].attempt + 1 < MaxPolls)
    BY <1>2, <1>6, <2>2 DEF PollPending
  <2> QED
    BY <2>1, <2>2
<1> QED
  BY <1>4, <1>5, <1>6

LEMMA PublishContainerInv ==
    ASSUME PublishingInv, NEW c \in Calls, PublishContainer(c)
    PROVE  PublishingInv'
<1>1. call[c].step = "publish" /\ call[c].step \in Requests /\ Wrote(c) /\ UNCHANGED now
  BY DEF PublishContainer, Requests
<1>2. CallSound(c) /\ call[c].container # None
  BY <1>1 DEF PublishingInv, CallSound
<1>3. PICK p \in Objects : p = call[c].container
  BY <1>2, HeldType DEF PublishingInv
<1>4. objects[p].kind = "container" /\ objects' = [objects EXCEPT ![p].state = "public"]
  BY <1>2, <1>3 DEF CallSound, PublishContainer
<1>5. objects' \in [Objects -> Object \cup {NoObject}]
  BY <1>4, StateType DEF PublishingInv
<1>6. \A d \in Calls \ {c} : call[d].container # p \/ call[d].container = None
  BY <1>2, <1>3 DEF PublishingInv, ContainersApart
<1>7. ObjectsStay(p) /\ ContainersUnscheduled'
  BY <1>4, StateChangeStays
<1> QED
  BY <1>1, <1>5, <1>6, <1>7, WroteInv

LEMMA MetaInv ==
    ASSUME PublishingInv, NEW o \in Objects, Meta(o)
    PROVE  PublishingInv'
<1>0. UNCHANGED <<now, call, wrote>>
  BY DEF Meta, VisitorComments, ScheduledPostGoesOut, ContainerProceeds
<1>1. ASSUME objects' \in [Objects -> Object \cup {NoObject}], ObjectsStay(None),
             ContainersUnscheduled'
      PROVE  PublishingInv'
  <2>1. TypeOK'
    BY <1>0, <1>1 DEF PublishingInv, TypeOK
  <2> QED
    BY <1>0, <1>1, <2>1, NoCallMoves
<1>2. ASSUME NEW state \in {"public", "finished", "error", "expired"}, objects[o].kind # "none",
             objects' = [objects EXCEPT ![o].state = state],
             objects[o].kind = "container" /\ objects[o].state \in {"finished", "expired"}
                => state = "expired"
      PROVE  PublishingInv'
  <2>1. objects' \in [Objects -> Object \cup {NoObject}]
    BY <1>2, StateType DEF PublishingInv
  <2>2. ObjectsStay(None) /\ ContainersUnscheduled'
    BY <1>2, StateChangeStays
  <2> QED
    BY <1>1, <2>1, <2>2
<1>3. CASE VisitorComments(o)
  <2>1. PICK page \in Pages, named \in BOOLEAN :
           objects' = [objects EXCEPT ![o] = NewObject("comment", page, named, 0, "public")]
    BY <1>3 DEF VisitorComments
  <2> DEFINE new == NewObject("comment", page, named, 0, "public")
  <2>2. new \in Object /\ new.kind = "comment"
    BY NewObjectType
  <2> HIDE DEF new
  <2>3. Draw(o) /\ objects' = [objects EXCEPT ![o] = new]
    BY <1>3, <2>1 DEF VisitorComments, new
  <2> QED
    BY <1>1, <2>2, <2>3, DrawnType, DrawnObjectsStay DEF PublishingInv
<1>4. objects[o].kind = "none" => objects[o].state = "none"
  BY DEF PublishingInv, TypeOK, Object, NoObject
<1>5. CASE ScheduledPostGoesOut(o)
  <2>1. /\ objects[o].kind # "none" /\ objects[o].kind # "container"
        /\ objects' = [objects EXCEPT ![o].state = "public"]
    BY <1>4, <1>5 DEF ScheduledPostGoesOut, PublishingInv, ContainersUnscheduled
  <2> QED
    BY <1>2, <2>1
<1>6. CASE ContainerProceeds(o)
  <2>1. objects[o].kind # "none" /\ objects[o].state \in {"processing", "finished"}
    BY <1>4, <1>6 DEF ContainerProceeds
  <2>2. CASE objects' = [objects EXCEPT ![o].state = "expired"]
    BY <1>2, <2>1, <2>2
  <2>3. CASE objects[o].state = "processing" /\ \E s \in {"finished", "error"} :
                objects' = [objects EXCEPT ![o].state = s]
    BY <1>2, <2>1, <2>3
  <2> QED
    BY <1>6, <2>2, <2>3 DEF ContainerProceeds
<1> QED
  BY <1>3, <1>5, <1>6 DEF Meta

LEMMA NextPublishingInv == PublishingInv /\ [Next]_vars => PublishingInv'
<1> SUFFICES ASSUME PublishingInv, [Next]_vars PROVE PublishingInv'
  OBVIOUS
<1>1. CASE UNCHANGED vars
  BY <1>1, SameObjectsStay, NoCallMoves DEF vars, PublishingInv, TypeOK
<1>2. CASE Tick
  <2>1. TypeOK'
    BY <1>2, PublishingAssumption DEF PublishingAssumption, Tick, PublishingInv, TypeOK
  <2> QED
    BY <1>2, <2>1, SameObjectsStay, NoCallMoves DEF Tick
<1>3. ASSUME NEW c \in Calls, Ask(c) PROVE PublishingInv'
  BY <1>3, BeginInv
<1>4. ASSUME NEW c \in Calls, Request(c) PROVE PublishingInv'
  BY <1>4, FruitlessInv, ModerationInv, PollInv, PublishContainerInv, PublishPostInv, ReplyInv,
     CarouselItemInv, IGContainerInv DEF Request
<1> QED
  BY <1>1, <1>2, <1>3, <1>4, MetaInv DEF Next

LEMMA PublishingInvariant == Spec => []PublishingInv
  BY InitPublishingInv, NextPublishingInv, PTL DEF Spec

\* Every reachable state is well typed: a call acts for one of the stored pages
\* until it is answered, and objects are created but never forgotten.
THEOREM TypeCorrect == Spec => []TypeOK
<1>1. PublishingInv => TypeOK
  BY DEF PublishingInv
<1> QED
  BY <1>1, PublishingInvariant, PTL

\* A call asks Meta to publish a container only after Meta had finished it,
\* whatever the other calls publish meanwhile (waitForIGContainer).
THEOREM FinishedBeforePublished == Spec => []PublishesFinishedOnly
<1>1. PublishingInv => PublishesFinishedOnly
  BY DEF PublishingInv, CallSound, PublishesFinishedOnly
<1> QED
  BY <1>1, PublishingInvariant, PTL

\* A carousel's own container is only asked for once every slide has one, of
\* the same account, with requests throttled, repeated or lost in between
\* (createCarouselItems).
THEOREM CarouselWhole == Spec => []CarouselIsComplete
<1>1. PublishingInv => CarouselIsComplete
  BY DEF PublishingInv, CallSound, CarouselIsComplete
<1> QED
  BY <1>1, PublishingInvariant, PTL

-----------------------------------------------------------------------------
(* Refinement of ConfirmedWrite.                                           *)

\* A call with a request to send was confirmed, and nothing happened for it yet:
\* the request that changes something ends the call, answered or not.
Untouched(c) ==
    /\ call[c].step \in Requests \cup {"new"} => wrote[c] = 0
    /\ call[c].step \in Requests => call[c].in.confirm

WriteInv == TypeOK /\ \A c \in Calls : Untouched(c)

Confirmed == [c \in Calls |-> call[c].in.confirm]
AnswerBar == [c \in Calls |-> AnswerOf(c)]

\* What a step does to one call, as far as its user can tell.
Unnoticed(c) ==
    /\ call'[c].in.confirm = call[c].in.confirm
    /\ \/ call'[c].step \in Requests /\ call[c].step \in Requests
       \/ call'[c] = call[c]

AskedWith(c, ok) ==
    /\ call[c].step = "new" /\ call'[c].in.confirm = ok
    /\ \/ call'[c].step = "refused"
       \/ ok /\ call'[c].step \in Requests
       \/ ~ok /\ call'[c].step = "preview"

EndsWith(c, answer) ==
    call[c].step \in Requests /\ call'[c].step = answer
    /\ call'[c].in.confirm = call[c].in.confirm

Visible(c) ==
    /\ \A d \in Calls \ {c} : call'[d] = call[d]
    /\ \/ wrote' = wrote /\ \E ok \in BOOLEAN : AskedWith(c, ok)
       \/ wrote' = wrote /\ \E answer \in {"refused", "failed"} : EndsWith(c, answer)
       \/ /\ wrote' = [wrote EXCEPT ![c] = @ + 1]
          /\ \E answer \in {"done", "failed"} : EndsWith(c, answer)

LEMMA EndNoticed ==
    ASSUME TypeOK, NEW c \in Calls, call[c].step \in Requests, NEW answer \in Answers,
           End(c, answer)
    PROVE  EndsWith(c, answer) /\ \A d \in Calls \ {c} : call'[d] = call[d]
<1>1. /\ call'[c] = Progress(answer, Past(call[c].in), None)
      /\ \A d \in Calls \ {c} : call'[d] = call[d]
  BY DEF End, TypeOK
<1>2. Past(call[c].in).confirm = call[c].in.confirm
  BY DEF Past, NoInput
<1> QED
  BY <1>1, <1>2 DEF EndsWith, Progress

LEMMA AskNoticed ==
    ASSUME TypeOK, NEW c \in Calls, Ask(c)
    PROVE  Visible(c)
<1>1. ASSUME NEW in, NEW step, NEW page, Begin(c, in, step, page)
      PROVE  /\ call[c].step = "new" /\ call'[c].in = in /\ call'[c].step = step
             /\ \A d \in Calls \ {c} : call'[d] = call[d]
             /\ wrote' = wrote
  BY <1>1 DEF Begin, Progress, TypeOK
<1>2. PICK arg \in Inputs : Reject(c, arg) \/ Preview(c, arg) \/ Start(c, arg)
  BY DEF Ask
<1>3. arg.confirm \in BOOLEAN /\ Past(arg).confirm = arg.confirm
  BY InputType DEF Past, NoInput
<1>4. CASE Reject(c, arg)
  BY <1>1, <1>3, <1>4 DEF Reject, Visible, AskedWith
<1>5. CASE Preview(c, arg)
  BY <1>1, <1>3, <1>5 DEF Preview, Visible, AskedWith
<1>6. CASE Start(c, arg)
  <2>1. FirstRequest(arg) \in Requests
    BY StartType, InputType DEF FirstRequest, Requests
  <2>2. arg.confirm /\ \E page : Begin(c, arg, FirstRequest(arg), page)
    BY <1>6 DEF Start
  <2>3. AskedWith(c, TRUE) /\ wrote' = wrote /\ \A d \in Calls \ {c} : call'[d] = call[d]
    BY <1>1, <1>3, <2>1, <2>2 DEF AskedWith
  <2> QED
    BY <2>3 DEF Visible
<1> QED
  BY <1>2, <1>4, <1>5, <1>6

LEMMA RequestNoticed ==
    ASSUME TypeOK, NEW c \in Calls, Request(c)
    PROVE  Visible(c) \/ (wrote' = wrote /\ \A d \in Calls : Unnoticed(d))
<1>0. {"refused", "failed", "done"} \subseteq Answers
  BY DEF Answers
<1>1. ASSUME call[c].step \in Requests, NEW answer \in {"refused", "failed"}, End(c, answer),
             wrote' = wrote
      PROVE  Visible(c)
  BY <1>0, <1>1, EndNoticed DEF Visible
<1>2. ASSUME call[c].step \in Requests, Wrote(c) PROVE Visible(c)
  BY <1>0, <1>2, EndNoticed DEF Wrote, Visible
<1>3. ASSUME NEW progress, call' = [call EXCEPT ![c] = progress], call[c].step \in Requests,
             progress.step \in Requests, progress.in = call[c].in, wrote' = wrote
      PROVE  \A d \in Calls : Unnoticed(d)
  BY <1>3 DEF Unnoticed, TypeOK
<1>4. CASE Refused(c) \/ Throttled(c) \/ Breaks(c)
  <2>1. CASE call' = [call EXCEPT ![c].retried = TRUE] /\ call[c].step \in Requests /\ wrote' = wrote
    <3>1. [call[c] EXCEPT !.retried = TRUE].step = call[c].step
          /\ [call[c] EXCEPT !.retried = TRUE].in = call[c].in
      BY <2>1, CallType DEF Calling
    <3> QED
      BY <1>3, <2>1, <3>1
  <2> QED
    BY <1>1, <1>4, <2>1 DEF Refused, Throttled, Breaks
<1>5. CASE SetCommentHidden(c) \/ DeleteObject(c) \/ PublishContainer(c)
           \/ \E o \in Objects : PublishPost(c, o) \/ ReplyToComment(c, o)
  <2>1. call[c].step \in Requests
    BY <1>5 DEF SetCommentHidden, DeleteObject, PublishContainer, PublishPost, ReplyToComment,
       Requests
  <2>2. Wrote(c)
    BY <1>5 DEF SetCommentHidden, DeleteObject, PublishContainer, PublishPost, ReplyToComment
  <2> QED
    BY <1>2, <2>1, <2>2
<1>6. CASE PollFinished(c) \/ PollRejected(c) \/ PollPending(c)
  <2>1. call[c].step \in Requests /\ wrote' = wrote /\ call[c].step = "poll" /\ call[c] \in Calling
    BY <1>6, CallType DEF PollFinished, PollRejected, PollPending, Requests
  <2>2. CASE End(c, "refused")
    BY <1>1, <2>1, <2>2
  <2>3. CASE call' = [call EXCEPT ![c].step = "publish", ![c].retried = FALSE]
    <3>1. [call[c] EXCEPT !.step = "publish", !.retried = FALSE].step = "publish"
          /\ [call[c] EXCEPT !.step = "publish", !.retried = FALSE].in = call[c].in
      BY <2>1 DEF Calling
    <3> QED
      BY <1>3, <2>1, <2>3, <3>1 DEF Requests
  <2>4. CASE call' = [call EXCEPT ![c].attempt = @ + 1, ![c].retried = FALSE]
    <3>1. [call[c] EXCEPT !.attempt = @ + 1, !.retried = FALSE].step = call[c].step
          /\ [call[c] EXCEPT !.attempt = @ + 1, !.retried = FALSE].in = call[c].in
      BY <2>1 DEF Calling
    <3> QED
      BY <1>3, <2>1, <2>4, <3>1
  <2> QED
    BY <1>6, <2>2, <2>3, <2>4 DEF PollFinished, PollRejected, PollPending
<1>7. ASSUME NEW o \in Objects, NEW following, CreateContainer(c, o, following),
             call[c].step \in Requests, following.step \in Requests, following.in = call[c].in
      PROVE  Visible(c) \/ (wrote' = wrote /\ \A d \in Calls : Unnoticed(d))
  BY <1>1, <1>3, <1>7 DEF CreateContainer
<1>8. ASSUME NEW o \in Objects, CreateCarouselItem(c, o)
      PROVE  Visible(c) \/ (wrote' = wrote /\ \A d \in Calls : Unnoticed(d))
  <2> DEFINE items == call[c].items \cup {o}
             next  == IF Cardinality(items) = call[c].in.slides THEN "container" ELSE "item"
             following == [call[c] EXCEPT !.step = next, !.items = items, !.retried = FALSE]
  <2>1. call[c].step = "item" /\ CreateContainer(c, o, following)
    BY <1>8 DEF CreateCarouselItem
  <2>2. call[c].step \in Requests /\ following.step \in Requests /\ following.in = call[c].in
    BY <2>1, CallType DEF Calling, Requests
  <2> HIDE DEF following
  <2> QED
    BY <1>7, <2>1, <2>2
<1>9. ASSUME NEW o \in Objects, CreateIGContainer(c, o)
      PROVE  Visible(c) \/ (wrote' = wrote /\ \A d \in Calls : Unnoticed(d))
  <2> DEFINE following == [call[c] EXCEPT !.step = "poll", !.container = o, !.retried = FALSE]
  <2>1. call[c].step = "container" /\ CreateContainer(c, o, following)
    BY <1>9 DEF CreateIGContainer
  <2>2. call[c].step \in Requests /\ following.step \in Requests /\ following.in = call[c].in
    BY <2>1, CallType DEF Calling, Requests
  <2> HIDE DEF following
  <2> QED
    BY <1>7, <2>1, <2>2
<1> QED
  BY <1>4, <1>5, <1>6, <1>8, <1>9 DEF Request

LEMMA WriteStepShape ==
    ASSUME TypeOK, [Next]_vars
    PROVE  \/ \E c \in Calls : Visible(c)
           \/ wrote' = wrote /\ \A d \in Calls : Unnoticed(d)
<1>1. ASSUME UNCHANGED <<call, wrote>> PROVE wrote' = wrote /\ \A d \in Calls : Unnoticed(d)
  BY <1>1 DEF Unnoticed
<1>2. UNCHANGED vars \/ Tick \/ (\E o \in Objects : Meta(o)) => UNCHANGED <<call, wrote>>
  BY DEF vars, Tick, Meta, VisitorComments, ScheduledPostGoesOut, ContainerProceeds
<1> QED
  BY <1>1, <1>2, AskNoticed, RequestNoticed DEF Next

LEMMA InitWriteInv == Init => WriteInv
  BY InitPublishingInv
     DEF Init, PublishingInv, WriteInv, Untouched, NotCalled, Progress, Requests

LEMMA NextWriteInv == WriteInv /\ TypeOK' /\ [Next]_vars => WriteInv'
<1> SUFFICES ASSUME WriteInv, TypeOK', [Next]_vars, NEW d \in Calls PROVE Untouched(d)'
  BY DEF WriteInv
<1>0. TypeOK /\ Untouched(d) /\ "refused" \notin Requests \cup {"new"}
      /\ "failed" \notin Requests \cup {"new"} /\ "done" \notin Requests \cup {"new"}
      /\ "preview" \notin Requests \cup {"new"} /\ "new" \notin Requests
  BY DEF WriteInv, Requests
<1>1. CASE wrote' = wrote /\ \A e \in Calls : Unnoticed(e)
  BY <1>0, <1>1 DEF Unnoticed, Untouched
<1>2. ASSUME NEW c \in Calls, Visible(c) PROVE Untouched(d)'
  <2>1. CASE d = c
    <3>1. ASSUME NEW ok \in BOOLEAN, AskedWith(c, ok), wrote' = wrote PROVE Untouched(d)'
      BY <1>0, <2>1, <3>1 DEF AskedWith, Untouched
    <3>2. ASSUME NEW answer \in {"refused", "failed", "done"}, EndsWith(c, answer)
          PROVE  Untouched(d)'
      BY <1>0, <2>1, <3>2 DEF EndsWith, Untouched
    <3> QED
      BY <1>2, <3>1, <3>2 DEF Visible
  <2>2. CASE d # c
    BY <1>0, <1>2, <2>2 DEF Visible, Untouched, TypeOK
  <2> QED
    BY <2>1, <2>2
<1> QED
  BY <1>0, <1>1, <1>2, WriteStepShape

LEMMA WriteFunctions ==
    /\ \A c \in Calls : Confirmed[c] = call[c].in.confirm /\ AnswerBar[c] = AnswerOf(c)
    /\ \A c \in Calls : Confirmed'[c] = call'[c].in.confirm /\ AnswerBar'[c] = AnswerOf(c)'
    /\ Confirmed = [c \in Calls |-> Confirmed[c]] /\ Confirmed' = [c \in Calls |-> Confirmed'[c]]
    /\ AnswerBar = [c \in Calls |-> AnswerBar[c]] /\ AnswerBar' = [c \in Calls |-> AnswerBar'[c]]
  BY DEF Confirmed, AnswerBar

LEMMA AnswerOfStep ==
    ASSUME NEW c \in Calls
    PROVE  /\ call[c].step = "new" => AnswerOf(c) = "none"
           /\ call[c].step \in Requests => AnswerOf(c) = "pending"
           /\ call[c].step \in Answers => AnswerOf(c) = call[c].step
           /\ call'[c].step = "new" => AnswerOf(c)' = "none"
           /\ call'[c].step \in Requests => AnswerOf(c)' = "pending"
           /\ call'[c].step \in Answers => AnswerOf(c)' = call'[c].step
  BY DEF AnswerOf, Requests, Answers

LEMMA UnnoticedStutters ==
    ASSUME TypeOK, wrote' = wrote, \A d \in Calls : Unnoticed(d)
    PROVE  Confirmed' = Confirmed /\ AnswerBar' = AnswerBar /\ wrote' = wrote
<1>1. ASSUME NEW d \in Calls PROVE AnswerOf(d)' = AnswerOf(d)
  <2>1. CASE call'[d].step \in Requests /\ call[d].step \in Requests
    BY <2>1, AnswerOfStep
  <2>2. CASE call'[d] = call[d]
    BY <2>2 DEF AnswerOf
  <2> QED
    BY <2>1, <2>2 DEF Unnoticed
<1> QED
  BY <1>1, WriteFunctions DEF Unnoticed

LEMMA VisibleRefines ==
    ASSUME WriteInv, NEW c \in Calls, Visible(c)
    PROVE  ConfirmedWrites!WriteNext
<1>0. TypeOK /\ Untouched(c) /\ {"refused", "preview", "done", "failed"} \subseteq Answers
  BY DEF WriteInv, Answers
<1>1. \A d \in Calls \ {c} : Confirmed'[d] = Confirmed[d] /\ AnswerBar'[d] = AnswerBar[d]
  <2>1. \A d \in Calls \ {c} : AnswerOf(d)' = AnswerOf(d)
    BY DEF Visible, AnswerOf
  <2> QED
    BY <2>1, WriteFunctions DEF Visible
<1>2. /\ Confirmed' = [Confirmed EXCEPT ![c] = call'[c].in.confirm]
      /\ AnswerBar' = [AnswerBar EXCEPT ![c] = AnswerOf(c)']
  BY <1>1, WriteFunctions
<1>3. ASSUME NEW ok \in BOOLEAN, AskedWith(c, ok), wrote' = wrote
      PROVE  ConfirmedWrites!WriteNext
  <2>1. AnswerBar[c] = "none"
    BY <1>3, AnswerOfStep, WriteFunctions DEF AskedWith
  <2>2. AnswerOf(c)' \in {"refused", IF ok THEN "pending" ELSE "preview"}
    BY <1>0, <1>3, AnswerOfStep DEF AskedWith
  <2>3. Confirmed' = [Confirmed EXCEPT ![c] = ok]
    BY <1>2, <1>3 DEF AskedWith
  <2>4. ConfirmedWrites!Ask(c, ok)
    BY <1>2, <1>3, <2>1, <2>2, <2>3 DEF ConfirmedWrites!Ask, Confirmed, AnswerBar
  <2> QED
    BY <2>4 DEF ConfirmedWrites!WriteNext
<1>4. ASSUME NEW answer \in {"refused", "failed", "done"}, EndsWith(c, answer)
      PROVE  /\ AnswerBar[c] = "pending" /\ wrote[c] = 0
             /\ AnswerBar' = [AnswerBar EXCEPT ![c] = answer] /\ Confirmed' = Confirmed
  <2>1. AnswerOf(c)' = answer /\ AnswerBar[c] = "pending" /\ wrote[c] = 0
    BY <1>0, <1>4, AnswerOfStep, WriteFunctions DEF EndsWith, Untouched
  <2>2. Confirmed'[c] = Confirmed[c]
    BY <1>4, WriteFunctions DEF EndsWith
  <2> QED
    BY <1>1, <1>2, <2>1, <2>2, WriteFunctions
<1>5. ASSUME NEW answer \in {"refused", "failed"}, EndsWith(c, answer), wrote' = wrote
      PROVE  ConfirmedWrites!WriteNext
  <2>1. ConfirmedWrites!Answer(c)
    BY <1>4, <1>5 DEF ConfirmedWrites!Answer, Confirmed, AnswerBar
  <2> QED
    BY <2>1 DEF ConfirmedWrites!WriteNext
<1>6. ASSUME NEW answer \in {"done", "failed"}, EndsWith(c, answer),
             wrote' = [wrote EXCEPT ![c] = @ + 1]
      PROVE  ConfirmedWrites!WriteNext
  <2>0. wrote[c] = 0 /\ AnswerBar[c] = "pending"
        /\ AnswerBar' = [AnswerBar EXCEPT ![c] = answer] /\ Confirmed' = Confirmed
    BY <1>4, <1>6
  <2>1. wrote' = [wrote EXCEPT ![c] = 1]
    BY <1>6, <2>0
  <2>2. ConfirmedWrites!Write(c)
    BY <1>6, <2>0, <2>1 DEF ConfirmedWrites!Write, Confirmed, AnswerBar
  <2> QED
    BY <2>2 DEF ConfirmedWrites!WriteNext
<1> QED
  BY <1>3, <1>5, <1>6 DEF Visible

LEMMA InitRefines ==
    ASSUME Init
    PROVE  ConfirmedWrites!WriteInit
<1>1. \A c \in Calls : call[c].step = "new" /\ call[c].in.confirm = FALSE
  BY DEF Init, NotCalled, Progress, NoInput
<1>2. \A c \in Calls : AnswerOf(c) = "none"
  BY <1>1, AnswerOfStep
<1> QED
  BY <1>1, <1>2 DEF Init, ConfirmedWrites!WriteInit

\* What can be relied upon once a call is answered, and before it is.
Reliable(c) ==
    /\ wrote[c] \in {0, 1}
    /\ wrote[c] = 1 => call[c].in.confirm
    /\ call[c].step = "done" => wrote[c] = 1
    /\ call[c].step \in {"new", "preview", "refused"} => wrote[c] = 0

ReliableAnswers == \A c \in Calls : Reliable(c)

LEMMA NextReliable == WriteInv /\ ReliableAnswers /\ [Next]_vars => ReliableAnswers'
<1> SUFFICES ASSUME WriteInv, ReliableAnswers, [Next]_vars, NEW d \in Calls PROVE Reliable(d)'
  BY DEF ReliableAnswers
<1>0. /\ TypeOK /\ Untouched(d) /\ Reliable(d)
      /\ Requests \cap {"done", "new", "preview", "refused"} = {}
  BY DEF WriteInv, ReliableAnswers, Requests
<1>1. CASE wrote' = wrote /\ \A e \in Calls : Unnoticed(e)
  BY <1>0, <1>1 DEF Unnoticed, Reliable
<1>2. ASSUME NEW c \in Calls, Visible(c) PROVE Reliable(d)'
  <2>1. CASE d # c
    BY <1>0, <1>2, <2>1 DEF Visible, Reliable, TypeOK
  <2>2. CASE d = c
    <3>1. ASSUME NEW ok \in BOOLEAN, AskedWith(c, ok), wrote' = wrote PROVE Reliable(d)'
      BY <1>0, <2>2, <3>1 DEF AskedWith, Untouched, Reliable
    <3>2. ASSUME NEW answer \in {"refused", "failed"}, EndsWith(c, answer), wrote' = wrote
          PROVE  Reliable(d)'
      BY <1>0, <2>2, <3>2 DEF EndsWith, Untouched, Reliable
    <3>3. ASSUME NEW answer \in {"done", "failed"}, EndsWith(c, answer),
                 wrote' = [wrote EXCEPT ![c] = @ + 1]
          PROVE  Reliable(d)'
      <4>1. wrote[d] = 0 /\ wrote'[d] = 1
        BY <1>0, <2>2, <3>3 DEF EndsWith, Untouched, TypeOK
      <4> QED
        BY <1>0, <2>2, <3>3, <4>1 DEF EndsWith, Untouched, Reliable
    <3> QED
      BY <1>2, <3>1, <3>2, <3>3 DEF Visible
  <2> QED
    BY <2>1, <2>2
<1> QED
  BY <1>0, <1>1, <1>2, WriteStepShape

\* What the refinement below says step by step, as a fact about each state: a
\* call that was not confirmed has changed nothing, one that was has changed one
\* thing at most; "done" means that it did, "refused" and a preview that it did
\* not, so that a model may ask again without doing a thing twice (the write
\* tools over Client.call).
THEOREM AnswersAreReliable == Spec => []ReliableAnswers
<1>1. Init => ReliableAnswers
  BY DEF Init, NotCalled, Progress, ReliableAnswers, Reliable
<1>2. PublishingInv => TypeOK
  BY DEF PublishingInv
<1> QED
  BY <1>1, <1>2, PublishingInvariant, InitWriteInv, NextWriteInv, NextReliable, PTL DEF Spec

\* Nothing happens at Meta for a call that does not carry confirm=true, one
\* thing at most happens for one that does, "done" means it did and "refused"
\* that it did not, whatever is throttled, repeated, lost or given up (the write
\* tools over Client.call).
THEOREM Refinement == Spec => ImplementsConfirmedWrite
<1>1. WriteInv /\ [Next]_vars => [ConfirmedWrites!WriteNext]_ConfirmedWrites!writeVars
  <2>1. WriteInv => TypeOK
    BY DEF WriteInv
  <2> QED
    BY <2>1, WriteStepShape, VisibleRefines, UnnoticedStutters
       DEF ConfirmedWrites!writeVars, Confirmed, AnswerBar
<1>2. PublishingInv => TypeOK
  BY DEF PublishingInv
<1> QED
  BY <1>1, <1>2, PublishingInvariant, InitWriteInv, NextWriteInv, InitRefines, PTL
     DEF Spec, ImplementsConfirmedWrite, ConfirmedWrites!WriteSpec

-----------------------------------------------------------------------------
(* A call ends: what it may still send becomes less with every request.    *)

\* What a call still has to get done at Meta, the request it is at included.
PhasesLeft(r) ==
    CASE r.step \in {"write", "publish"} -> 1
      [] r.step = "item"      -> r.in.slides - Cardinality(r.items) + MaxPolls + 2
      [] r.step = "container" -> MaxPolls + 2
      [] r.step = "poll"      -> MaxPolls - r.attempt + 1

\* How many requests it may still send, each of which may be tried again once.
RequestsLeft(r) ==
    IF r.step \notin Requests THEN 0
    ELSE IF r.retried THEN 2 * PhasesLeft(r) - 1 ELSE 2 * PhasesLeft(r)

LEMMA PhasesAreLeft ==
    ASSUME PublishingInv, NEW c \in Calls, call[c].step \in Requests
    PROVE  /\ PhasesLeft(call[c]) \in Nat \ {0} /\ call[c].retried \in BOOLEAN
           /\ RequestsLeft(call[c]) \in Nat \ {0}
           /\ RequestsLeft(call[c]) >= 2 * PhasesLeft(call[c]) - 1
<1>1. /\ call[c] \in Calling /\ call[c].retried \in BOOLEAN
      /\ call[c].attempt \in 0..MaxPolls - 1 /\ MaxPolls \in Nat \ {0}
      /\ call[c].in.slides \in Nat
  BY CallType, InputType, PublishingAssumption DEF PublishingAssumption, PublishingInv, Calling
<1>2. Cardinality(call[c].items) \in Nat
  BY HeldType, FS_CardinalityType DEF PublishingInv
<1>3. call[c].step = "item" => Cardinality(call[c].items) < call[c].in.slides
  BY DEF PublishingInv, CallSound
<1>4. PhasesLeft(call[c]) \in Nat \ {0}
  BY <1>1, <1>2, <1>3 DEF PhasesLeft, Requests
<1> QED
  BY <1>1, <1>4 DEF RequestsLeft

LEMMA AnsweredHasNoneLeft ==
    ASSUME PublishingInv, NEW c \in Calls, call[c].step \in Requests, NEW answer \in Answers,
           End(c, answer)
    PROVE  RequestsLeft(call[c])' < RequestsLeft(call[c])
<1>1. call'[c].step = answer
  BY DEF End, Progress, PublishingInv, TypeOK
<1>2. RequestsLeft(call'[c]) = 0
  BY <1>1, NoObjectIsNone DEF RequestsLeft
<1> QED
  BY <1>2, PhasesAreLeft

\* A new phase starts with its one retry unspent.
LEMMA PhaseDone ==
    ASSUME PublishingInv, NEW c \in Calls, call[c].step \in Requests,
           NEW following, call' = [call EXCEPT ![c] = following],
           following.step \in Requests, ~following.retried,
           PhasesLeft(following) \in Int, PhasesLeft(following) < PhasesLeft(call[c])
    PROVE  RequestsLeft(call[c])' < RequestsLeft(call[c])
<1>1. call'[c] = following
  BY DEF PublishingInv, TypeOK
<1>2. RequestsLeft(call'[c]) = 2 * PhasesLeft(following)
  BY <1>1 DEF RequestsLeft
<1>3. PhasesLeft(following) <= PhasesLeft(call[c]) - 1
  BY PhasesAreLeft
<1> QED
  BY <1>2, <1>3, PhasesAreLeft

LEMMA FruitlessRunsOut ==
    ASSUME PublishingInv, NEW c \in Calls, Refused(c) \/ Throttled(c) \/ Breaks(c)
    PROVE  RequestsLeft(call[c])' < RequestsLeft(call[c])
<1>0. call[c].step \in Requests /\ {"refused", "failed"} \subseteq Answers
  BY DEF Refused, Throttled, Breaks, Answers
<1>1. CASE End(c, "refused") \/ End(c, "failed")
  BY <1>0, <1>1, AnsweredHasNoneLeft
<1>2. CASE ~call[c].retried /\ call' = [call EXCEPT ![c].retried = TRUE]
  <2>1. call[c] \in Calling
    BY <1>0, CallType DEF PublishingInv
  <2>2. call'[c] = [call[c] EXCEPT !.retried = TRUE]
    BY <1>2 DEF PublishingInv, TypeOK
  <2>3. /\ call'[c].step = call[c].step /\ call'[c].retried
        /\ call'[c].in = call[c].in /\ call'[c].items = call[c].items
        /\ call'[c].attempt = call[c].attempt
    BY <2>1, <2>2 DEF Calling
  <2>4. PhasesLeft(call'[c]) = PhasesLeft(call[c])
    BY <2>3 DEF PhasesLeft
  <2>5. /\ RequestsLeft(call'[c]) = 2 * PhasesLeft(call'[c]) - 1
        /\ RequestsLeft(call[c]) = 2 * PhasesLeft(call[c])
    BY <1>0, <1>2, <2>3 DEF RequestsLeft
  <2> QED
    BY <1>0, <2>4, <2>5, PhasesAreLeft
<1> QED
  BY <1>1, <1>2 DEF Refused, Throttled, Breaks

LEMMA CreationRunsOut ==
    ASSUME PublishingInv, NEW c \in Calls, NEW o \in Objects,
           CreateCarouselItem(c, o) \/ CreateIGContainer(c, o)
    PROVE  RequestsLeft(call[c])' < RequestsLeft(call[c])
<1>0. /\ call[c].step \in Requests /\ call[c] \in Calling /\ "failed" \in Answers
      /\ call[c].attempt \in 0..MaxPolls - 1 /\ MaxPolls \in Nat \ {0}
      /\ call[c].in.slides \in Nat
  BY CallType, InputType, PublishingAssumption
     DEF PublishingAssumption, PublishingInv, CreateCarouselItem, CreateIGContainer, Requests,
         Answers, Calling
<1>1. /\ CallSound(c) /\ IsFiniteSet(call[c].items)
  BY HeldType DEF PublishingInv
<1>2. CASE CreateCarouselItem(c, o)
  <2> DEFINE items == call[c].items \cup {o}
             next  == IF Cardinality(items) = call[c].in.slides THEN "container" ELSE "item"
             following == [call[c] EXCEPT !.step = next, !.items = items, !.retried = FALSE]
  <2>1. call[c].step = "item" /\ CreateContainer(c, o, following)
    BY <1>2 DEF CreateCarouselItem
  <2>2. o \notin call[c].items
    BY <1>1, <2>1, NoObjectIsNone DEF CallSound, CreateContainer, Draw
  <2>3. /\ Cardinality(items) = Cardinality(call[c].items) + 1
        /\ Cardinality(call[c].items) \in Nat
    BY <1>1, <2>2, FS_AddElement, FS_CardinalityType
  <2>4. /\ following.step = next /\ following.items = items /\ ~following.retried
        /\ following.in = call[c].in /\ next \in {"container", "item"}
    BY <1>0 DEF Calling
  <2>5. PhasesLeft(call[c]) = call[c].in.slides - Cardinality(call[c].items) + MaxPolls + 2
    BY <2>1 DEF PhasesLeft
  <2>6. PhasesLeft(following) \in Int /\ PhasesLeft(following) < PhasesLeft(call[c])
    <3>1. CASE next = "item"
      <4>1. PhasesLeft(following) = call[c].in.slides - Cardinality(items) + MaxPolls + 2
        BY <2>4, <3>1 DEF PhasesLeft
      <4> QED
        BY <1>0, <2>3, <2>5, <4>1
    <3>2. CASE next = "container"
      <4>1. PhasesLeft(following) = MaxPolls + 2 /\ Cardinality(items) = call[c].in.slides
        BY <2>4, <3>2 DEF PhasesLeft
      <4> QED
        BY <1>0, <2>3, <2>5, <4>1
    <3> QED
      BY <3>1, <3>2
  <2>7. following.step \in Requests
    BY <2>4 DEF Requests
  <2> HIDE DEF following
  <2> QED
    BY <1>0, <2>1, <2>4, <2>6, <2>7, PhaseDone, AnsweredHasNoneLeft DEF CreateContainer
<1>3. CASE CreateIGContainer(c, o)
  <2> DEFINE following == [call[c] EXCEPT !.step = "poll", !.container = o, !.retried = FALSE]
  <2>1. call[c].step = "container" /\ CreateContainer(c, o, following)
    BY <1>3 DEF CreateIGContainer
  <2>2. following.step = "poll" /\ ~following.retried /\ following.attempt = call[c].attempt
    BY <1>0 DEF Calling
  <2>3. /\ PhasesLeft(call[c]) = MaxPolls + 2
        /\ PhasesLeft(following) = MaxPolls - call[c].attempt + 1
    BY <2>1, <2>2 DEF PhasesLeft
  <2>4. PhasesLeft(following) \in Int /\ PhasesLeft(following) < PhasesLeft(call[c])
    BY <1>0, <2>3
  <2>5. following.step \in Requests
    BY <2>2 DEF Requests
  <2> HIDE DEF following
  <2> QED
    BY <1>0, <2>1, <2>2, <2>4, <2>5, PhaseDone, AnsweredHasNoneLeft DEF CreateContainer
<1> QED
  BY <1>2, <1>3

LEMMA PollRunsOut ==
    ASSUME PublishingInv, NEW c \in Calls, PollFinished(c) \/ PollRejected(c) \/ PollPending(c)
    PROVE  RequestsLeft(call[c])' < RequestsLeft(call[c])
<1>0. /\ call[c].step = "poll" /\ call[c].step \in Requests /\ "refused" \in Answers
  BY DEF PollFinished, PollRejected, PollPending, Requests, Answers
<1>1. /\ call[c] \in Calling /\ call[c].attempt \in 0..MaxPolls - 1 /\ MaxPolls \in Nat \ {0}
      /\ PhasesLeft(call[c]) = MaxPolls - call[c].attempt + 1
  BY <1>0, CallType, PublishingAssumption
     DEF PublishingAssumption, PublishingInv, Calling, PhasesLeft
<1>2. CASE End(c, "refused")
  BY <1>0, <1>2, AnsweredHasNoneLeft
<1>3. CASE PollFinished(c)
  <2> DEFINE following == [call[c] EXCEPT !.step = "publish", !.retried = FALSE]
  <2>1. call' = [call EXCEPT ![c] = following]
    BY <1>3 DEF PollFinished
  <2>2. following.step = "publish" /\ ~following.retried
    BY <1>1 DEF Calling
  <2>3. PhasesLeft(following) = 1 /\ following.step \in Requests
    BY <2>2 DEF PhasesLeft, Requests
  <2>4. PhasesLeft(following) \in Int /\ PhasesLeft(following) < PhasesLeft(call[c])
    BY <1>1, <2>3
  <2> HIDE DEF following
  <2> QED
    BY <1>0, <2>1, <2>2, <2>3, <2>4, PhaseDone
<1>4. CASE PollPending(c) /\ ~End(c, "refused")
  <2> DEFINE following == [call[c] EXCEPT !.attempt = @ + 1, !.retried = FALSE]
  <2>1. call' = [call EXCEPT ![c] = following]
    BY <1>4 DEF PollPending
  <2>2. /\ following.step = "poll" /\ ~following.retried
        /\ following.attempt = call[c].attempt + 1
    BY <1>0, <1>1 DEF Calling
  <2>3. PhasesLeft(following) = MaxPolls - (call[c].attempt + 1) + 1
        /\ following.step \in Requests
    BY <2>2 DEF PhasesLeft, Requests
  <2>4. PhasesLeft(following) \in Int /\ PhasesLeft(following) < PhasesLeft(call[c])
    BY <1>1, <2>3
  <2> HIDE DEF following
  <2> QED
    BY <1>0, <2>1, <2>2, <2>3, <2>4, PhaseDone
<1> QED
  BY <1>2, <1>3, <1>4 DEF PollRejected

LEMMA RequestRunsOut ==
    ASSUME PublishingInv, NEW c \in Calls, Request(c)
    PROVE  RequestsLeft(call[c])' < RequestsLeft(call[c])
<1>1. CASE Refused(c) \/ Throttled(c) \/ Breaks(c)
  BY <1>1, FruitlessRunsOut
<1>2. CASE SetCommentHidden(c) \/ DeleteObject(c) \/ PublishContainer(c)
           \/ \E o \in Objects : PublishPost(c, o) \/ ReplyToComment(c, o)
  <2>1. call[c].step \in Requests /\ {"done", "failed"} \subseteq Answers
    BY <1>2 DEF SetCommentHidden, DeleteObject, PublishContainer, PublishPost, ReplyToComment,
       Requests, Answers
  <2>2. Wrote(c)
    BY <1>2 DEF SetCommentHidden, DeleteObject, PublishContainer, PublishPost, ReplyToComment
  <2> QED
    BY <2>1, <2>2, AnsweredHasNoneLeft DEF Wrote
<1> QED
  BY <1>1, <1>2, PollRunsOut, CreationRunsOut DEF Request

LEMMA OthersLeaveCalls ==
    ASSUME PublishingInv, [Next]_vars, NEW c \in Calls, call[c].step \in Requests
    PROVE  call'[c] = call[c] \/ Request(c)
<1>1. ASSUME NEW d \in Calls, Ask(d) PROVE call'[c] = call[c]
  <2>1. PICK arg, step, page : Begin(d, arg, step, page)
    BY <1>1 DEF Ask, Reject, Preview, Start
  <2>2. d # c
    BY <2>1, NoObjectIsNone DEF Begin
  <2> QED
    BY <2>1, <2>2 DEF Begin, PublishingInv, TypeOK
<1>2. ASSUME NEW d \in Calls \ {c}, Request(d) PROVE call'[c] = call[c]
  <2>1. ASSUME NEW answer, End(d, answer) PROVE call'[c] = call[c]
    BY <2>1 DEF End, PublishingInv, TypeOK
  <2>2. ASSUME NEW o, NEW following, CreateContainer(d, o, following) PROVE call'[c] = call[c]
    BY <2>1, <2>2 DEF CreateContainer, PublishingInv, TypeOK
  <2>3. CASE Refused(d) \/ Throttled(d) \/ Breaks(d)
    BY <2>1, <2>3 DEF Refused, Throttled, Breaks, PublishingInv, TypeOK
  <2>4. CASE PollFinished(d) \/ PollRejected(d) \/ PollPending(d)
    BY <2>1, <2>4 DEF PollFinished, PollRejected, PollPending, PublishingInv, TypeOK
  <2>5. CASE SetCommentHidden(d) \/ DeleteObject(d) \/ PublishContainer(d)
             \/ \E o \in Objects : PublishPost(d, o) \/ ReplyToComment(d, o)
    <3>1. Wrote(d)
      BY <2>5 DEF SetCommentHidden, DeleteObject, PublishContainer, PublishPost, ReplyToComment
    <3> QED
      BY <2>1, <3>1 DEF Wrote
  <2>6. ASSUME NEW o \in Objects, CreateCarouselItem(d, o) \/ CreateIGContainer(d, o)
        PROVE  call'[c] = call[c]
    BY <2>2, <2>6 DEF CreateCarouselItem, CreateIGContainer
  <2> QED
    BY <1>2, <2>3, <2>4, <2>5, <2>6 DEF Request
<1>3. UNCHANGED vars \/ Tick \/ (\E o \in Objects : Meta(o)) => call' = call
  BY DEF vars, Tick, Meta, VisitorComments, ScheduledPostGoesOut, ContainerProceeds
<1> QED
  BY <1>1, <1>2, <1>3 DEF Next

\* A call with a request to send either waits or comes closer to its answer.
MovesOn(c) ==
    /\ Request(c) => RequestsLeft(call[c])' < RequestsLeft(call[c])
    /\ call[c].step \in Requests => call'[c] = call[c] \/ Request(c)

\* Every request of a call leaves it fewer to send: two for a write, each slide,
\* each container, each poll and the publication, whatever is throttled and
\* whatever the other calls do.  With the fairness of requests this is why a call
\* is answered (Client.call, createCarouselItems, waitForIGContainer).
THEOREM CallsRunOut ==
    Spec => /\ [](\A c \in Calls : RequestsLeft(call[c]) \in Nat)
            /\ [][\A c \in Calls : MovesOn(c)]_vars
<1>1. PublishingInv => \A c \in Calls : RequestsLeft(call[c]) \in Nat
  BY PhasesAreLeft DEF RequestsLeft
<1>2. PublishingInv /\ [Next]_vars => [\A c \in Calls : MovesOn(c)]_vars
  BY RequestRunsOut, OthersLeaveCalls DEF MovesOn
<1> QED
  BY <1>1, <1>2, PublishingInvariant, PTL DEF Spec
=============================================================================
