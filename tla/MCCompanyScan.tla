--------------------------- MODULE MCCompanyScan ---------------------------
(***************************************************************************)
(* Model-checking instances of CompanyScan: a company in every state that  *)
(* it can be in, a rival that the batch probes and that may take its       *)
(* board, and boards of the other kinds.  One visitor, s1, runs scans and  *)
(* serves requests in turn, while the batch, the crawl and corrections     *)
(* write.                                                                  *)
(***************************************************************************)
EXTENDS CompanyScan

CONSTANTS c1, c2, b1, b2, b3

Kinds == [b \in Boards |-> CASE b = b1 -> "api" [] b = b2 -> "stub" [] b = b3 -> "playwright"]
Sites == [c \in Companies |-> IF c = c1 THEN b1 ELSE NoBoard]
Names == [c \in Companies |-> {b1}]

MCNext ==
    \/ ProbeBatchStarts
    \/ \E c \in Companies : ProbesOne(c)
    \/ Lives(c1)
    \/ \E s \in Visitors : ReadsRetries(s) \/ Visit(s)
    \/ \E q \in Requests : Answered(q)

MCSpec == CompanyInit /\ [][MCNext]_companyVars /\ FairFor({c1})

(***************************************************************************)
(* A board that the company holds is read again and again.                 *)
(***************************************************************************)
BoardIsRead == HeldBoardIsRead(c1)
=============================================================================
