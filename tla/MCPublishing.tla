----------------------------- MODULE MCPublishing -----------------------------
(***************************************************************************)
(* Instances of Publishing for TLC.                                        *)
(***************************************************************************)
EXTENDS Publishing

CONSTANTS p1, p2, o1

Arguments(tool, page, target) ==
    [tool |-> tool, page |-> page, target |-> target, good |-> TRUE, action |-> "hide",
     at |-> 0, slides |-> 0, confirm |-> TRUE]

Later(in)        == [in EXCEPT !.at = 1]
Carousel(in)     == [in EXCEPT !.slides = 2]
Deleting(in)     == [in EXCEPT !.action = "delete"]
Unconfirmed(in)  == [in EXCEPT !.confirm = FALSE]

Publish  == Arguments("page_publish_post", p1, None)
Share    == Arguments("ig_publish", p1, None)
Cancel   == Arguments("page_cancel_scheduled_post", None, o1)

\* Every tool, every kind of request, and every way to find the page.
EveryRequest == {
    Publish, Later(Publish), Unconfirmed(Publish),
    Share, Carousel(Share),
    Arguments("page_reply_comment", None, o1),
    Arguments("ig_reply_comment", p1, o1),
    Arguments("page_moderate_comment", None, o1),
    Deleting(Arguments("ig_moderate_comment", None, o1)),
    Arguments("page_delete_post", p2, o1),
    Cancel}

Scheduling == {Later(Publish), Cancel}
=============================================================================
