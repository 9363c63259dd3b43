----------------------------- MODULE ScoringRun -----------------------------
(***************************************************************************)
(* run_scoring (host/scoring_runner.py): one consumer, or a pool of them,  *)
(* takes the postings of a batch through the gates, the liveness check and *)
(* the scorer, while a thread of its own makes the liveness checks of the  *)
(* postings that come next.                                                *)
(***************************************************************************)
EXTENDS Integers, FiniteSets

CONSTANTS
    Last,           \* the batch is new_job_keys[0] .. new_job_keys[Last]
    Bound,          \* _LIVENESS_PREFETCH_BOUND
    Pools,          \* the values of JC_SCORE_WORKERS
    Kinds           \* the batches: what the rows of each are

Jobs == 0 .. Last
Counters == {"scored", "skipped", "errors"}      \* "skipped" stands for _dead, _no_jd and "deferred"

ASSUME ScoringAssumption ==
    /\ Last \in Nat /\ Bound \in Nat \ {0, 1} /\ Pools \subseteq Nat \ {0}
    /\ Kinds \subseteq [Jobs -> {"absent", "gated", "deferred", "due", "fresh"}]

VARIABLES
    workers,        \* JC_SCORE_WORKERS
    row,            \* the posting: absent, held by a gate, or its expiry_checked_at beyond or within the TTL
    run,            \* "running", "returned" or "aborted"
    at,             \* where each posting is in _process_one_job
    summary,        \* the counters of the run
    consumed,       \* consumed_index[0]
    buffer,         \* the indices in prefetch_dict, which go in in their order: the least is its oldest
    ahead,          \* the index that the prefetch thread is at
    fetching,       \* "next", "checking" or "off"
    overtaken       \* history: prefetched verdicts that another writer's came after

vars == <<workers, row, run, at, summary, consumed, buffer, ahead, fetching, overtaken>>

Serial == workers = 1
Begun(j) == at[j] \notin {"todo", "over"}
\* A consumer of the posting may yet ask the buffer.
Awaited(j) == at[j] \in {"todo", "taken", "gate"} /\ row[j] \notin {"absent", "gated", "deferred"}

-----------------------------------------------------------------------------
(* _process_one_job *)

Goes(j, place) == at' = [at EXCEPT ![j] = place]
Counts(c) == summary' = [summary EXCEPT ![c] = @ + 1]

\* The next turn of the serial loop, or a worker's get_nowait.
Takes(j) ==
    /\ run = "running" /\ at[j] = "todo"
    /\ \A i \in Jobs : i < j => at[i] # "todo"
    /\ Cardinality({i \in Jobs : Begun(i)}) < workers
    /\ Goes(j, "taken")
    /\ UNCHANGED <<workers, row, run, summary, consumed, buffer, ahead, fetching, overtaken>>

\* Variant: the exception ends the worker.
NoConnection_in_worker(j) ==
    /\ at[j] \in {"taken", "returned"}
    /\ IF Serial THEN run' = "aborted" /\ UNCHANGED <<at, summary>>
                 ELSE Goes(j, "lost") /\ Counts("errors") /\ UNCHANGED run
    /\ UNCHANGED <<workers, row, consumed, buffer, ahead, fetching, overtaken>>

\* connection_factory raises on the way in, or on the way out when its posting has been
\* counted: a worker counts an error, the serial loop does not survive it.
NoConnection(j) ==
    /\ at[j] \in {"taken", "returned"}
    /\ IF Serial THEN run' = "aborted" /\ UNCHANGED <<at, summary>>
                 ELSE Goes(j, "failed") /\ Counts("errors") /\ UNCHANGED run
    /\ UNCHANGED <<workers, row, consumed, buffer, ahead, fetching, overtaken>>

\* Variant: expiry_checked_at is not looked at.
Gates_without_ttl(j) ==
    /\ at[j] = "taken"
    /\ CASE row[j] = "absent"   -> Goes(j, "returned") /\ UNCHANGED summary
         [] row[j] = "gated"    -> Goes(j, "returned") /\ Counts("skipped")
         [] row[j] = "deferred" -> Goes(j, "returned") /\ Counts("skipped")
         [] OTHER               -> Goes(j, "gate") /\ UNCHANGED summary
    /\ UNCHANGED <<workers, row, run, consumed, buffer, ahead, fetching, overtaken>>

\* The row is read once; exclusion, deferral, precheck and TTL go by what it said then.
Gates(j) ==
    /\ at[j] = "taken"
    /\ CASE row[j] = "absent"   -> Goes(j, "returned") /\ UNCHANGED summary
         [] row[j] = "gated"    -> Goes(j, "returned") /\ Counts("skipped")
         [] row[j] = "deferred" -> Goes(j, "returned") /\ Counts("skipped")
         [] row[j] = "fresh"    -> Goes(j, "scoring") /\ UNCHANGED summary
         [] row[j] = "due"      -> Goes(j, "gate") /\ UNCHANGED summary
    /\ UNCHANGED <<workers, row, run, consumed, buffer, ahead, fetching, overtaken>>

\* A verdict from the buffer, or else from a check of its own. Which one it is
\* shows when it is recorded: the buffer only has that there is one.
Learns(j) ==
    /\ at[j] = "gate"
    /\ Goes(j, "judged")
    /\ buffer' = buffer \ {j}
    /\ UNCHANGED <<workers, row, run, summary, consumed, ahead, fetching, overtaken>>

\* persist_job_expiry_state: only a verified verdict moves the TTL clock.
Persists(j) ==
    /\ at[j] = "judged"
    /\ \E verdict \in {"live", "expired", "inconclusive"} :
          /\ row' = [row EXCEPT ![j] = IF verdict = "inconclusive" THEN @ ELSE "fresh"]
          /\ IF verdict = "expired" THEN Goes(j, "returned") /\ Counts("skipped")
                                    ELSE Goes(j, "scoring") /\ UNCHANGED summary
    /\ UNCHANGED <<workers, run, consumed, buffer, ahead, fetching, overtaken>>

\* score_and_persist_job persists a score, declines, or reports an error.
Scores(j) ==
    /\ at[j] = "scoring"
    /\ \/ Goes(j, "scored") /\ Counts("scored")
       \/ Goes(j, "returned") /\ \E c \in {"skipped", "errors"} : Counts(c)
    /\ UNCHANGED <<workers, row, run, consumed, buffer, ahead, fetching, overtaken>>

\* The classification is read again for the counters per class.
Rereads(j) ==
    /\ at[j] = "scored"
    /\ Goes(j, "returned")
    /\ UNCHANGED <<workers, row, run, summary, consumed, buffer, ahead, fetching, overtaken>>

Raises(j) ==
    /\ at[j] \in {"taken", "gate", "judged", "scoring", "scored"}
    /\ Goes(j, "returned") /\ Counts("errors")
    /\ UNCHANGED <<workers, row, run, consumed, buffer, ahead, fetching, overtaken>>

\* The position of the serial loop, a count of completed jobs in the pool.
Advances(j) ==
    /\ at[j] \in {"returned", "failed"}
    /\ Goes(j, "over")
    /\ consumed' = IF Serial THEN j ELSE consumed + 1
    /\ UNCHANGED <<workers, row, run, summary, buffer, ahead, fetching, overtaken>>

\* stop_event is set; the join of the prefetch thread gives up after five seconds.
Returns ==
    /\ run = "running" /\ \A j \in Jobs : at[j] = "over"
    /\ run' = "returned"
    /\ UNCHANGED <<workers, row, at, summary, consumed, buffer, ahead, fetching, overtaken>>

Processes(j) ==
    /\ run = "running"
    /\ \/ NoConnection(j) \/ Gates(j) \/ Learns(j) \/ Persists(j) \/ Scores(j)
       \/ Rereads(j) \/ Raises(j) \/ Advances(j)

-----------------------------------------------------------------------------
(* _prefetch_liveness *)

Moves == ahead' = ahead + 1 /\ fetching' = IF ahead = Last THEN "off" ELSE "next"

\* Variant: one more is let through.
Within_by_one(i) == i - consumed <= Bound

Within(i) == i - consumed < Bound

Looks ==
    /\ fetching = "next" /\ run = "running" /\ Within(ahead)
    /\ IF ahead \in buffer \/ row[ahead] = "absent" THEN Moves
       ELSE fetching' = "checking" /\ UNCHANGED ahead
    /\ overtaken' = overtaken \ {ahead}
    /\ UNCHANGED <<workers, row, run, at, summary, consumed, buffer>>

\* Variant: popitem() takes the newest entry.
Trimmed_newest(entries) ==
    IF Cardinality(entries) > Bound THEN {i \in entries : \E k \in entries : k > i} ELSE entries

\* The safety net: the oldest entry goes.
Trimmed(entries) ==
    IF Cardinality(entries) > Bound THEN {i \in entries : \E k \in entries : k < i} ELSE entries

Stores ==
    /\ fetching = "checking"
    /\ buffer' = Trimmed(buffer \cup {ahead})
    /\ Moves
    /\ UNCHANGED <<workers, row, run, at, summary, consumed, overtaken>>

\* An exception ends the thread for good; stop_event ends it between two checks.
Quits ==
    /\ fetching # "off"
    /\ fetching' = "off"
    /\ UNCHANGED <<workers, row, run, at, summary, consumed, buffer, ahead, overtaken>>

-----------------------------------------------------------------------------

\* The nightly expiry run, or another batch, verifies the posting.
OtherVerifies(j) ==
    /\ row[j] = "due"
    /\ row' = [row EXCEPT ![j] = "fresh"]
    /\ overtaken' = IF at[j] \in {"todo", "taken"} /\ (j \in buffer \/ (ahead = j /\ fetching = "checking"))
                    THEN overtaken \cup {j} ELSE overtaken
    /\ UNCHANGED <<workers, run, at, summary, consumed, buffer, ahead, fetching>>

Init ==
    /\ workers \in Pools /\ row \in Kinds
    /\ run = "running"
    /\ at = [j \in Jobs |-> "todo"]
    /\ summary = [c \in Counters |-> 0]
    /\ consumed = 0
    /\ buffer = {}
    /\ ahead = Bound /\ fetching = IF Last >= Bound THEN "next" ELSE "off"
    /\ overtaken = {}

Next ==
    \/ \E j \in Jobs : Takes(j) \/ Processes(j) \/ OtherVerifies(j)
    \/ Looks \/ Stores \/ Quits \/ Returns

\* Calls return, since each has a timeout, and a thread that can run does.
Consumes == Returns \/ \E j \in Jobs : Takes(j) \/ Processes(j)
Spec == Init /\ [][Next]_vars /\ WF_vars(Consumes)

-----------------------------------------------------------------------------

TypeOK ==
    /\ workers \in Pools /\ row \in [Jobs -> {"absent", "gated", "deferred", "due", "fresh"}]
    /\ run \in {"running", "returned", "aborted"}
    /\ at \in [Jobs -> {"todo", "taken", "gate", "judged", "scoring", "scored", "returned", "failed", "over"}]
    /\ summary \in [Counters -> Nat]
    /\ consumed \in 0 .. Last + 1
    /\ buffer \subseteq Jobs
    /\ ahead \in Nat /\ fetching \in {"next", "checking", "off"}
    /\ overtaken \subseteq Jobs

\* The lead that the prefetch thread goes by is never ahead of the consumers.
CountIsOfCompleted ==
    LET Completed == Cardinality({j \in Jobs : at[j] = "over"})
    IN  IF Serial THEN consumed = (IF Completed = 0 THEN 0 ELSE Completed - 1) ELSE consumed = Completed

\* A thread that waits for its turn has not been passed by: no index is skipped.
\* (A pool wider than the lead may take postings before the thread may check them.)
WaitsAheadOfConsumers ==
    workers <= Bound /\ fetching = "next" /\ run = "running" /\ ~Within(ahead) => at[ahead] = "todo"

\* A verdict that will be used was obtained within Bound jobs of its use.
LeadIsBounded ==
    /\ Cardinality(buffer) <= Bound
    /\ \A j \in buffer : j - consumed < Bound

\* Each posting that has been through is counted, but for those that are not found, and
\* as scored or skipped at most once: it may be an error as well, when the re-read of a
\* score or the return of the connection fails.
Accounted ==
    LET Through == {j \in Jobs : at[j] \in {"returned", "failed", "over"}}
        Scored == {j \in Jobs : at[j] = "scored"}
        Told == summary["scored"] + summary["skipped"]
    IN  /\ Told + summary["errors"] >= Cardinality({j \in Through \cup Scored : row[j] # "absent"})
        /\ Told <= Cardinality(Through \cup Scored)
        /\ run = "aborted" => Serial
        /\ run = "returned" => Through = Jobs

(***************************************************************************)
(* What the prefetch thread and the consumers keep between them: the lead, *)
(* the bound of the buffer, and one count for each posting of the batch.   *)
(***************************************************************************)
Inv == TypeOK /\ CountIsOfCompleted /\ WaitsAheadOfConsumers /\ LeadIsBounded /\ Accounted

(***************************************************************************)
(* "No index is ever silently skipped", and the full buffer never costs    *)
(* the serial loop a check: of what the thread is past, every verdict that *)
(* may yet be asked for is there. (In a pool a slow worker can lose its.)  *)
(***************************************************************************)
NoneIsSkipped == Serial => \A j \in Jobs : Bound <= j /\ j < ahead /\ Awaited(j) => j \in buffer

(***************************************************************************)
(* A prefetched verdict never overwrites a verified one that came after    *)
(* it, unless the latter came after the consumer had read the row.         *)
(***************************************************************************)
NewerVerdictStands ==
    [][\A j \in overtaken : ~(at[j] = "gate" /\ at'[j] = "judged")]_vars

(***************************************************************************)
(* Whatever raises, the batch ends: the workers account for every key that *)
(* they take, and nobody waits for the prefetch thread.                    *)
(***************************************************************************)
RunReturns == <>(run # "running")
=============================================================================
