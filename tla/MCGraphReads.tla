---------------------------- MODULE MCGraphReads ----------------------------
(***************************************************************************)
(* GraphReads on a small instance: a list longer than what the cap lets    *)
(* through, limits below, at and above every bound.                        *)
(***************************************************************************)
EXTENDS GraphReads

\* None asked for, fewer than a page, more than a page, more than the tool allows.
SomeLimits == {-1, 1, 3, 9}

\* The last second of a day and the first one of the next.
AroundMidnight == {5, 6}
=============================================================================
