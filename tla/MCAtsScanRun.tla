--------------------------- MODULE MCAtsScanRun ---------------------------
(***************************************************************************)
(* Two overlapping scans of two boards in the API lane and a company in    *)
(* each later lane: one in a pool, under either deadline, and one in       *)
(* sequence, that has the hosted program's single deadline.                *)
(***************************************************************************)
EXTENDS AtsScanRun

CONSTANTS pooled, serial, a1, a2, w1, h1, p1, p2

Lanes == [c \in Employers |-> CASE c = w1 -> "render" [] c = h1 -> "page" [] OTHER -> "api"]
Boards == [c \in Employers |-> CASE c = a1 -> {p1} [] c = w1 -> {p2} [] OTHER -> {}]

MCNext ==
    \/ \E r \in Runs : Begins(r) \/ Outer(r)
    \/ \E r \in Runs, c \in Employers : Works(r, c)
    \/ \E deadlines \in SUBSET {"scan", "wall"} : Passes(pooled, deadlines)
    \/ Passes(serial, {"scan", "wall"})
    \/ Killed

MCSpec == Init /\ [][MCNext]_vars /\ Fair(pooled)

(***************************************************************************)
(* "as_completed() always terminates", and with it the pooled scan.        *)
(***************************************************************************)
PooledRunEnds == RunEnds(pooled)
=============================================================================
