---------------------------- MODULE MCScoringRun ----------------------------
(***************************************************************************)
(* A batch of five with a window of two, by one worker or a pool of two:   *)
(* the three rows beyond the window are due, or a gate holds two of them   *)
(* back. Another writer verifies a posting that the window reaches, and at *)
(* most MaxErrors errors are counted.                                      *)
(***************************************************************************)
EXTENDS ScoringRun

Due == [j \in Jobs |-> CASE j = 0 -> "gated" [] j = 1 -> "fresh" [] OTHER -> "due"]
HeldBack == [j \in Jobs |-> CASE j = 0 -> "absent" [] j = 2 -> "deferred" [] j = 3 -> "gated" [] OTHER -> "due"]
Batches == {Due, HeldBack}

MaxErrors == 2

MCNext ==
    \/ \E j \in Jobs : Takes(j) \/ (Processes(j) /\ summary'["errors"] <= MaxErrors)
    \/ OtherVerifies(3)
    \/ Looks \/ Stores \/ Quits \/ Returns

MCSpec == Init /\ [][MCNext]_vars /\ WF_vars(Consumes)
=============================================================================
