---------------------------- MODULE ScanPromise ----------------------------
(***************************************************************************)
(* What one scan promises of the postings that it adds: while it looks for *)
(* postings they become its own; when it scores it looks for no more; and  *)
(* it ends when it has tried to score every posting of its own, unless it  *)
(* says why not (it was cut short by its deadline, or something raised).   *)
(***************************************************************************)
CONSTANTS Runs, Postings, None

VARIABLES
    by,         \* the run that added a posting, "before" all runs, or None
    tried,      \* what each run has tried to score
    stage,      \* where each run is
    excused     \* the runs that say why they leave postings unscored

vars == <<by, tried, stage, excused>>

Init ==
    /\ by \in [Postings -> {None, "before"}]
    /\ tried = [r \in Runs |-> {}]
    /\ stage = [r \in Runs |-> "off"]
    /\ excused = [r \in Runs |-> FALSE]

Starts(r) ==
    /\ stage[r] = "off"
    /\ stage' = [stage EXCEPT ![r] = "finding"]
    /\ UNCHANGED <<by, tried, excused>>

Adds(r, p) ==
    /\ stage[r] = "finding" /\ by[p] = None
    /\ by' = [by EXCEPT ![p] = r]
    /\ UNCHANGED <<tried, stage, excused>>

TurnsToScoring(r) ==
    /\ stage[r] = "finding"
    /\ stage' = [stage EXCEPT ![r] = "scoring"]
    /\ excused' \in {excused, [excused EXCEPT ![r] = TRUE]}
    /\ UNCHANGED <<by, tried>>

Tries(r, p) ==
    /\ stage[r] = "scoring" /\ by[p] = r /\ p \notin tried[r]
    /\ tried' = [tried EXCEPT ![r] = @ \cup {p}]
    /\ UNCHANGED <<by, stage, excused>>

Excuses(r) ==
    /\ excused' = [excused EXCEPT ![r] = TRUE]
    /\ UNCHANGED <<by, tried, stage>>

Ends(r) ==
    /\ stage[r] = "scoring"
    /\ stage' = [stage EXCEPT ![r] = "ended"]
    /\ excused' \in {excused, [excused EXCEPT ![r] = TRUE]}
    /\ excused'[r] \/ \A p \in Postings : by[p] = r => p \in tried[r]
    /\ UNCHANGED <<by, tried>>

\* An exception, or a kill of the worker with all that it runs.
Dies ==
    /\ \E dead \in SUBSET {r \in Runs : stage[r] \in {"finding", "scoring"}} :
          stage' = [r \in Runs |-> IF r \in dead THEN "dead" ELSE stage[r]]
    /\ UNCHANGED <<by, tried, excused>>

Next ==
    \/ \E r \in Runs : Starts(r) \/ TurnsToScoring(r) \/ Excuses(r) \/ Ends(r)
    \/ \E r \in Runs, p \in Postings : Adds(r, p) \/ Tries(r, p)
    \/ Dies

Spec == Init /\ [][Next]_vars
=============================================================================
