---------------------------- MODULE AtsScanRun ----------------------------
(***************************************************************************)
(* run_ats_scan (engine/ats_scanner/_run.py): the API lane, by a pool of   *)
(* threads or one company after the other, the rendered lane, the HTML     *)
(* lane, and the scoring of what they added, under two soft deadlines.     *)
(* Two scans may run in the worker at a time, and a kill ends both.        *)
(***************************************************************************)
EXTENDS Naturals, FiniteSets

CONSTANTS
    Runs, Employers, Postings, None,
    Lane,           \* Employers -> "api", "render" or "page": the phase that selects it
    Finds,          \* Employers -> the postings that match on its board or page
    Serial,         \* the runs with scan_concurrency <= 1
    Threads         \* max_workers of the others

ASSUME ScanRunAssumption ==
    /\ Lane \in [Employers -> {"api", "render", "page"}] /\ Finds \in [Employers -> SUBSET Postings]
    /\ Serial \subseteq Runs /\ Threads \in Nat \ {0}
    /\ None \notin Runs /\ "before" \notin Runs /\ None # "before"

VARIABLES
    phase,          \* where each run is
    at,             \* where each run is with a company
    left,           \* the postings of a company under way that are still to be upserted
    found,          \* the new keys that a worker holds until its result is merged
    keys,           \* all_new_job_keys
    tried,          \* the keys that the scoring phase has been through
    late,           \* the deadlines that have passed: of the scan phases, of the scoring
    cut,            \* summary["truncated"], and abort_scan with it
    raised,         \* an exception that cost the run some of its keys
    by              \* the run that inserted a posting, "before", or None

vars == <<phase, at, left, found, keys, tried, late, cut, raised, by>>

Active == {"A", "draining", "A2", "C", "D"}
PhaseLane == [p \in {"A", "draining", "A2", "C"} |->
                 CASE p = "A2" -> "render" [] p = "C" -> "page" [] OTHER -> "api"]
After == [p \in {"A", "draining", "A2", "C"} |-> CASE p = "A2" -> "C" [] p = "C" -> "D" [] OTHER -> "A2"]

\* The companies that the phase has selected and not begun.
Todo(r) == {c \in Employers : Lane[c] = PhaseLane[phase[r]] /\ at[r][c] = "todo"}
Running(r, lane) == {c \in Employers : Lane[c] = lane /\ at[r][c] = "running"}
\* The outer thread is with a company of the phase.
Busy(r) == Running(r, PhaseLane[phase[r]]) # {}
InSequence(r) == phase[r] \in {"A2", "C"} \/ (phase[r] = "A" /\ r \in Serial)
ByWorker(r, c) == Lane[c] = "api" /\ r \notin Serial
Pooled(r) == phase[r] = "draining" \/ (phase[r] = "A" /\ r \notin Serial)

Sets(r, c, where) == at' = [at EXCEPT ![r][c] = where]

\* A run that is over takes the locals of its threads along.
Forgets(runs) ==
    /\ at' = [r \in Runs |-> IF r \in runs THEN [c \in Employers |-> "todo"] ELSE at[r]]
    /\ left' = [r \in Runs |-> IF r \in runs THEN [c \in Employers |-> {}] ELSE left[r]]
    /\ found' = [r \in Runs |-> IF r \in runs THEN [c \in Employers |-> {}] ELSE found[r]]
    /\ late' = [r \in Runs |-> IF r \in runs THEN {} ELSE late[r]]

-----------------------------------------------------------------------------
(* The outer thread *)

Begins(r) ==
    /\ phase[r] = "off"
    /\ phase' = [phase EXCEPT ![r] = "A"]
    /\ UNCHANGED <<at, left, found, keys, tried, late, cut, raised, by>>

Submits(r, c) ==
    /\ phase[r] = "A" /\ r \notin Serial
    /\ "scan" \notin late[r] /\ c \in Todo(r)
    /\ Sets(r, c, "queued")
    /\ UNCHANGED <<phase, left, found, keys, tried, late, cut, raised, by>>

StopsSubmitting(r) ==
    /\ phase[r] = "A" /\ r \notin Serial
    /\ Todo(r) = {} \/ "scan" \in late[r]
    /\ phase' = [phase EXCEPT ![r] = "draining"]
    /\ cut' = [cut EXCEPT ![r] = @ \/ Todo(r) # {}]
    /\ UNCHANGED <<at, left, found, keys, tried, late, raised, by>>

\* Variant: the deadline cancels what is queued, and as_completed waits for it.
Merges_cancelling(r, c) ==
    /\ phase[r] = "draining" /\ at[r][c] = "finished"
    /\ at' = [at EXCEPT ![r] = [d \in Employers |->
                  IF d = c THEN "done" ELSE IF "scan" \in late[r] /\ @[d] = "queued" THEN "cancelled" ELSE @[d]]]
    /\ keys' = [keys EXCEPT ![r] = @ \cup found[r][c]]
    /\ found' = [found EXCEPT ![r][c] = {}]
    /\ cut' = [cut EXCEPT ![r] = @ \/ "scan" \in late[r]]
    /\ UNCHANGED <<phase, left, tried, late, raised, by>>

\* as_completed yields a future; past the deadline the merge sets abort_scan.
Merges(r, c) ==
    /\ phase[r] = "draining" /\ at[r][c] = "finished"
    /\ Sets(r, c, "done")
    /\ keys' = [keys EXCEPT ![r] = @ \cup found[r][c]]
    /\ found' = [found EXCEPT ![r][c] = {}]
    /\ cut' = [cut EXCEPT ![r] = @ \/ "scan" \in late[r]]
    /\ UNCHANGED <<phase, left, tried, late, raised, by>>

\* Variant: the loop breaks off at the deadline.
Drained_at_deadline(r) ==
    /\ phase[r] = "draining"
    /\ cut[r] \/ \A c \in Employers : at[r][c] \notin {"queued", "running", "finished", "cancelled"}
    /\ phase' = [phase EXCEPT ![r] = "A2"]
    /\ UNCHANGED <<at, left, found, keys, tried, late, cut, raised, by>>

Drained(r) ==
    /\ phase[r] = "draining"
    /\ \A c \in Employers : at[r][c] \notin {"queued", "running", "finished", "cancelled"}
    /\ phase' = [phase EXCEPT ![r] = "A2"]
    /\ UNCHANGED <<at, left, found, keys, tried, late, cut, raised, by>>

\* The serial API lane, the rendered lane and the HTML lane: one company after the other.
Visits(r, c) ==
    /\ InSequence(r) /\ ~Busy(r)
    /\ "scan" \notin late[r] /\ c \in Todo(r)
    /\ Sets(r, c, "running")
    /\ left' = [left EXCEPT ![r][c] = Finds[c]]
    /\ UNCHANGED <<phase, found, keys, tried, late, cut, raised, by>>

EndsPhase(r) ==
    /\ InSequence(r) /\ ~Busy(r)
    /\ Todo(r) = {} \/ "scan" \in late[r]
    /\ phase' = [phase EXCEPT ![r] = After[phase[r]]]
    /\ cut' = [cut EXCEPT ![r] = @ \/ Todo(r) # {}]
    /\ UNCHANGED <<at, left, found, keys, tried, late, raised, by>>

\* Nothing catches a browser that does not start: the task fails.
LaunchFails(r) ==
    /\ phase[r] = "A2"
    /\ {c \in Employers : Lane[c] = "render"} # {} /\ \A c \in Employers : Lane[c] = "render" => at[r][c] = "todo"
    /\ phase' = [phase EXCEPT ![r] = "failed"]
    /\ Forgets({r})
    /\ UNCHANGED <<keys, tried, cut, raised, by>>

-----------------------------------------------------------------------------
(* A company's scan: a worker's in the pool, the outer thread's otherwise *)

\* Variant: nobody looks at abort_scan.
Takes_regardless(r, c) ==
    /\ ByWorker(r, c) /\ at[r][c] = "queued" /\ phase[r] \in Active
    /\ Cardinality(Running(r, "api")) < Threads
    /\ Sets(r, c, "running") /\ left' = [left EXCEPT ![r][c] = Finds[c]]
    /\ UNCHANGED <<phase, found, keys, tried, late, cut, raised, by>>

\* abort_scan is looked at here and nowhere else.
Takes(r, c) ==
    /\ ByWorker(r, c) /\ at[r][c] = "queued" /\ phase[r] \in Active
    /\ Cardinality(Running(r, "api")) < Threads
    /\ IF cut[r]
       THEN Sets(r, c, "finished") /\ UNCHANGED left
       ELSE Sets(r, c, "running") /\ left' = [left EXCEPT ![r][c] = Finds[c]]
    /\ UNCHANGED <<phase, found, keys, tried, late, cut, raised, by>>

\* Variant: the keys go into a list of the posting's own.
Upserts_without_key(r, c, p) ==
    /\ at[r][c] = "running" /\ p \in left[r][c] /\ phase[r] \in Active
    /\ left' = [left EXCEPT ![r][c] = @ \ {p}]
    /\ by' = [by EXCEPT ![p] = IF @ = None THEN r ELSE @]
    /\ UNCHANGED <<phase, at, found, keys, tried, late, cut, raised>>

\* One posting, committed on its own; one that fails is logged and left out.
Upserts(r, c, p) ==
    /\ at[r][c] = "running" /\ p \in left[r][c] /\ phase[r] \in Active
    /\ left' = [left EXCEPT ![r][c] = @ \ {p}]
    /\ \/ /\ by[p] = None
          /\ by' = [by EXCEPT ![p] = r]
          /\ IF ByWorker(r, c)
             THEN found' = [found EXCEPT ![r][c] = @ \cup {p}] /\ UNCHANGED keys
             ELSE keys' = [keys EXCEPT ![r] = @ \cup {p}] /\ UNCHANGED found
       \/ UNCHANGED <<by, keys, found>>
    /\ UNCHANGED <<phase, at, tried, late, cut, raised>>

\* All postings are through, or the board could not be read, or was gone.
Leaves(r, c) ==
    /\ at[r][c] = "running" /\ phase[r] \in Active
    /\ left[r][c] \in {{}, Finds[c]}
    /\ Sets(r, c, IF ByWorker(r, c) THEN "finished" ELSE "done")
    /\ left' = [left EXCEPT ![r][c] = {}]
    /\ UNCHANGED <<phase, found, keys, tried, late, cut, raised, by>>

\* The worker's connection does not close cleanly: its result is lost, its commits are not.
WorkerRaises(r, c) ==
    /\ ByWorker(r, c) /\ at[r][c] = "running" /\ phase[r] \in Active /\ left[r][c] = {}
    /\ Sets(r, c, "finished")
    /\ found' = [found EXCEPT ![r][c] = {}]
    /\ raised' = [raised EXCEPT ![r] = TRUE]
    /\ UNCHANGED <<phase, left, keys, tried, late, cut, by>>

-----------------------------------------------------------------------------
(* _score_new_ats_jobs, and what happens to the run from outside *)

\* Enriched, scored or failed: the loop goes on.
Scores(r, p) ==
    /\ phase[r] = "D" /\ p \in keys[r] \ tried[r] /\ "wall" \notin late[r]
    /\ tried' = [tried EXCEPT ![r] = @ \cup {p}]
    /\ UNCHANGED <<phase, at, left, found, keys, late, cut, raised, by>>

EndsScoring(r) ==
    /\ phase[r] = "D"
    /\ keys[r] \subseteq tried[r] \/ "wall" \in late[r]
    /\ phase' = [phase EXCEPT ![r] = "ended"]
    /\ cut' = [cut EXCEPT ![r] = @ \/ ~(keys[r] \subseteq tried[r])]
    /\ Forgets({r})
    /\ UNCHANGED <<keys, tried, raised, by>>

\* Reading the secret raises before the first posting; the scan ends without a word of it.
ScoringFails(r) ==
    /\ phase[r] = "D" /\ tried[r] = {} /\ keys[r] # {}
    /\ phase' = [phase EXCEPT ![r] = "ended"]
    /\ raised' = [raised EXCEPT ![r] = TRUE]
    /\ Forgets({r})
    /\ UNCHANGED <<keys, tried, cut, by>>

\* Unless ats.runtime_limit_s is set the two deadlines are one.
Passes(r, deadlines) ==
    /\ phase[r] \in Active /\ deadlines # {}
    /\ late' = [late EXCEPT ![r] = @ \cup deadlines]
    /\ late' # late
    /\ UNCHANGED <<phase, at, left, found, keys, tried, cut, raised, by>>

Killed ==
    /\ \E r \in Runs : phase[r] \in Active
    /\ phase' = [r \in Runs |-> IF phase[r] \in Active THEN "killed" ELSE phase[r]]
    /\ Forgets({r \in Runs : phase[r] \in Active})
    /\ UNCHANGED <<keys, tried, cut, raised, by>>

-----------------------------------------------------------------------------
Init ==
    /\ phase = [r \in Runs |-> "off"]
    /\ at = [r \in Runs |-> [c \in Employers |-> "todo"]]
    /\ left = [r \in Runs |-> [c \in Employers |-> {}]]
    /\ found = [r \in Runs |-> [c \in Employers |-> {}]]
    /\ keys = [r \in Runs |-> {}]
    /\ tried = [r \in Runs |-> {}]
    /\ late = [r \in Runs |-> {}]
    /\ cut = [r \in Runs |-> FALSE]
    /\ raised = [r \in Runs |-> FALSE]
    /\ by \in [Postings -> {None, "before"}]

Outer(r) ==
    \/ StopsSubmitting(r) \/ Drained(r) \/ EndsPhase(r) \/ LaunchFails(r) \/ EndsScoring(r) \/ ScoringFails(r)
    \/ \E c \in Employers : Submits(r, c) \/ Merges(r, c) \/ Visits(r, c)
    \/ \E p \in Postings : Scores(r, p)

Works(r, c) ==
    \/ Takes(r, c) \/ Leaves(r, c) \/ WorkerRaises(r, c)
    \/ \E p \in Postings : Upserts(r, c, p)

Next ==
    \/ \E r \in Runs : Begins(r) \/ Outer(r) \/ \E deadlines \in SUBSET {"scan", "wall"} : Passes(r, deadlines)
    \/ \E r \in Runs, c \in Employers : Works(r, c)
    \/ Killed

Spec == Init /\ [][Next]_vars

\* While some thread of a run can go on, one does: requests and statements have timeouts.
Fair(r) == WF_vars(Outer(r) \/ \E c \in Employers : Works(r, c))

-----------------------------------------------------------------------------
Places == {"todo", "queued", "running", "finished", "cancelled", "done"}

TypeOK ==
    /\ phase \in [Runs -> {"off", "ended", "failed", "killed"} \cup Active]
    /\ at \in [Runs -> [Employers -> Places]]
    /\ left \in [Runs -> [Employers -> SUBSET Postings]] /\ found \in [Runs -> [Employers -> SUBSET Postings]]
    /\ keys \in [Runs -> SUBSET Postings] /\ tried \in [Runs -> SUBSET Postings]
    /\ late \in [Runs -> SUBSET {"scan", "wall"}]
    /\ cut \in [Runs -> BOOLEAN] /\ raised \in [Runs -> BOOLEAN]
    /\ by \in [Postings -> Runs \cup {None, "before"}]

\* The posting is among the keys of r, or among those that a worker still holds.
Has(r, p) == p \in keys[r] \/ \E c \in Employers : p \in found[r][c]

(***************************************************************************)
(* No posting is forgotten between a worker's commit and the scoring: what *)
(* a run added is among its keys or in a result that is still to be        *)
(* merged, unless a worker raised; and outside of the pool's phase nobody  *)
(* of the pool is left who could add one.                                  *)
(***************************************************************************)
Accounted ==
    \A r \in Runs :
        /\ \A p \in Postings : by[p] = r => Has(r, p) \/ raised[r] \/ phase[r] \in {"failed", "killed"}
        /\ \A p \in Postings : Has(r, p) => by[p] = r
        /\ tried[r] \subseteq keys[r]

NobodyLeftBehind ==
    \A r \in Runs : phase[r] \in Active /\ ~Pooled(r) =>
        \A c \in Employers : /\ at[r][c] \in {"todo", "running", "done"} /\ found[r][c] = {}
                             /\ at[r][c] = "running" => InSequence(r)

Inv == TypeOK /\ Accounted /\ NobodyLeftBehind

StageOf(p) ==
    CASE p = "off" -> "off" [] p \in Active \ {"D"} -> "finding" [] p = "D" -> "scoring"
      [] p = "ended" -> "ended" [] OTHER -> "dead"
Stage == [r \in Runs |-> StageOf(phase[r])]
Excused == [r \in Runs |-> cut[r] \/ raised[r]]

Promise == INSTANCE ScanPromise WITH stage <- Stage, excused <- Excused

(***************************************************************************)
(* The scan implements ScanPromise: "No job a worker discovered can        *)
(* silently skip Phase D scoring, and Phase A2+ can never start while a    *)
(* worker thread is still writing".                                        *)
(***************************************************************************)
KeepsScanPromise == Promise!Spec

(***************************************************************************)
(* A run that has noticed its deadline begins no further company, in the   *)
(* pool, where some are queued already, or in a later phase.               *)
(***************************************************************************)
TruncationStopsStarts ==
    [][\A r \in Runs, c \in Employers : cut[r] /\ at'[r][c] = "running" => at[r][c] = "running"]_vars

RunEnds(r) == phase[r] \in Active ~> phase[r] \notin Active
=============================================================================
