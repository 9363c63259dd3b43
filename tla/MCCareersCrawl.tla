--------------------------- MODULE MCCareersCrawl ---------------------------
(***************************************************************************)
(* Three companies: one on a blocklisted host, one whose page never has    *)
(* anything, and one, liked already, with something at every tier.         *)
(***************************************************************************)
EXTENDS CareersCrawl

CONSTANT Rich       \* what company 3 has, at times

Blocklisted == {1}
Sites == [c \in Companies |-> IF c = 3 THEN Rich ELSE {}]


\* "At 25/run a ~1,000-company backlog drains in ~6 weeks": the poor company behind the
\* blocklisted one is crawled at last, if batches are started.
BacklogDrains == Drains(2)
=============================================================================
