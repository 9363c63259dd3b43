------------------------------ MODULE JobQueue ------------------------------
(***************************************************************************)
(* The durable job queue: procrastinate's rows (external), the periodic    *)
(* ticks and web requests that defer jobs under a queueing lock, and       *)
(* reclaim_orphaned_jobs, which brings back what a killed worker left      *)
(* behind (jobcannon/host/tasks.py, host/ingestion_tasks.py, web/sync.py). *)
(* The ticks are jobs too: they take a slot and can be orphaned.           *)
(***************************************************************************)
EXTENDS Naturals

CONSTANTS
    Work,           \* the queueing locks scan:<company> and ingest:<user>
    Enqueue,        \* the lock of enqueue_due_scans / enqueue_imap_ingest
    Reclaim,        \* the lock of reclaim_orphaned_jobs
    Ids,            \* how many jobs of a lock there may be; an ended job's row is used again
    Slots,          \* the worker's concurrency
    MaxKills,       \* bound on the hard kills of the worker
    None,           \* SQL NULL
    Dead            \* the id of a worker that was killed and not yet pruned

Keys == Work \cup {Enqueue, Reclaim}

\* procrastinate_jobs: a row has one queueing lock for life.
Rows == [key : Keys, id : Ids]

ASSUME KeysAssumption ==
    /\ Enqueue \notin Work /\ Reclaim \notin Work /\ Enqueue # Reclaim
    /\ None \notin Keys \cup Rows \cup Slots \cup {Dead} /\ Dead \notin Slots
    /\ MaxKills \in Nat

VARIABLES
    row,            \* the rows: procrastinate's status ("none": succeeded) and worker_id
    run,            \* what each slot executes
    alive,          \* is the worker up?
    kills,          \* how often it was killed, up to MaxKills
    wanted,         \* companies that are due, users that consented to ingestion
    owed,           \* history: work deferred since the last run for it began that ended
    doubled         \* history: work whose running row went back to the queue, until a new row

vars == <<row, run, alive, kills, wanted, owed, doubled>>

NoRow == [status |-> "none", worker |-> None]

\* left: what the loop of a tick still has to do; fresh (history): nobody has
\* deferred this work since its run began; alone (history): a reclaim that no other
\* reclaim has run beside.
Idle == [row |-> None, key |-> None, at |-> "idle", left |-> {}, fresh |-> FALSE, alone |-> FALSE]

Executed(j) == \E s \in Slots : run[s].row = j
Todo(k) == \E j \in Rows : j.key = k /\ row[j].status = "todo"

-----------------------------------------------------------------------------
(* procrastinate *)

Unused(k) ==
    {j \in Rows : /\ j.key = k /\ row[j].status \in {"none", "failed"}
                  /\ \A s \in Slots : run[s].row # j /\ j \notin run[s].left}

\* Variant: a job that is being executed blocks new ones, too.
Locked_while_doing(k) == \E j \in Rows : j.key = k /\ row[j].status \in {"todo", "doing"}

\* procrastinate_jobs_queueing_lock_idx_v1: unique among the rows WHERE status = 'todo'.
Locked(k) == Todo(k)

\* The runs in rs that a deferral of k finds begun.
Outdated(rs, k) == [s \in Slots |-> IF rs[s].key = k THEN [rs[s] EXCEPT !.fresh = FALSE] ELSE rs[s]]

\* configure(queueing_lock=...).defer(): a new row, or AlreadyEnqueued, which every
\* caller takes as success.  rs is the caller's effect on the slots.
defer(k, rs) ==
    /\ Locked(k) \/ Unused(k) # {}
    /\ row' = IF Locked(k) THEN row
              ELSE [row EXCEPT ![CHOOSE j \in Unused(k) : TRUE] = [status |-> "todo", worker |-> None]]
    /\ run' = Outdated(rs, k)
    /\ owed' = owed \cup ({k} \cap Work)
    /\ doubled' = IF Locked(k) THEN doubled ELSE doubled \ {k}

\* The periodic deferrer of a running worker.
Cron(k) ==
    /\ alive
    /\ k \in {Enqueue, Reclaim}
    /\ defer(k, run)
    /\ UNCHANGED <<alive, kills, wanted>>

\* POST /sync/now defers from the web process, whether or not the worker is up.
post_sync_now(k) ==
    /\ k \in Work
    /\ defer(k, run)
    /\ UNCHANGED <<alive, kills, wanted>>

\* The slots once s has started the job of row j: two reclaims are not alone.
Started(s, j) ==
    LET k == j.key
        others == \E t \in Slots : run[t].key = Reclaim
    IN  [t \in Slots |->
            IF t = s
            THEN [row |-> j, key |-> k, at |-> "started", left |-> {}, fresh |-> k \in Work,
                  alone |-> k = Reclaim /\ ~others]
            ELSE [run[t] EXCEPT !.alone = @ /\ k # Reclaim]]

\* A free slot takes a job.  The queueing lock of a tick is free again from here on, so
\* that the next tick of the same kind may start while this one runs.
Fetch(s, j) ==
    /\ alive
    /\ run[s].at = "idle"
    /\ row[j].status = "todo"
    /\ row' = [row EXCEPT ![j] = [status |-> "doing", worker |-> s]]
    /\ run' = Started(s, j)
    /\ UNCHANGED <<alive, kills, wanted, owed, doubled>>

\* finish_job: a row that waits again ends like one that is 'doing'; one that another
\* run has ended stays as it is.
Ends(s, ended) ==
    /\ row' = [row EXCEPT ![run[s].row] = IF @.status \in {"todo", "doing"} THEN ended ELSE @]
    /\ run' = [run EXCEPT ![s] = Idle]
    /\ owed' = IF run[s].fresh THEN owed \ {run[s].key} ELSE owed
    /\ UNCHANGED <<alive, kills, wanted, doubled>>

Returns(s) == run[s].at = "looping" /\ run[s].left = {} /\ Ends(s, NoRow)

\* The failed row matters only to a reclaim that has selected it.
FailedRow(j) ==
    IF \E t \in Slots : j \in run[t].left THEN [status |-> "failed", worker |-> None] ELSE NoRow

\* Any task may fail on its way: the job ends as failed, and nothing retries it.
Raises(s) == run[s].at # "idle" /\ Ends(s, FailedRow(run[s].row))

\* SIGKILL, or a redeploy whose grace period is over: the rows stay 'doing'.
WorkerKilled ==
    /\ alive
    /\ kills < MaxKills
    /\ alive' = FALSE
    /\ kills' = kills + 1
    /\ run' = [s \in Slots |-> Idle]
    /\ row' = [j \in Rows |-> IF row[j].status = "doing" /\ row[j].worker \in Slots
                              THEN [row[j] EXCEPT !.worker = Dead] ELSE row[j]]
    /\ UNCHANGED <<wanted, owed, doubled>>

WorkerStarts ==
    /\ ~alive
    /\ alive' = TRUE
    /\ UNCHANGED <<row, run, kills, wanted, owed, doubled>>

\* Stalled-worker pruning deletes the worker's row: ON DELETE SET NULL.
Prune ==
    /\ alive
    /\ \E j \in Rows : row[j].worker = Dead
    /\ row' = [j \in Rows |-> IF row[j].worker = Dead THEN [row[j] EXCEPT !.worker = None] ELSE row[j]]
    /\ UNCHANGED <<run, alive, kills, wanted, owed, doubled>>

-----------------------------------------------------------------------------
(* The tasks *)

\* Time passes, a company is added, a user consents.
BecomesWanted(k) ==
    /\ k \in Work \ wanted
    /\ wanted' = wanted \cup {k}
    /\ UNCHANGED <<row, run, alive, kills, owed, doubled>>

\* Variant: the scan leaves last_scanned_at alone.
Works_without_stamp(s) ==
    /\ run[s].key \in Work
    /\ run[s].at = "started"
    /\ run' = [run EXCEPT ![s].at = "looping"]
    /\ UNCHANGED <<row, alive, kills, wanted, owed, doubled>>

\* The scan stamps last_scanned_at, the ingestion is done for now.
Works(s) ==
    /\ run[s].key \in Work
    /\ run[s].at = "started"
    /\ wanted' = wanted \ {run[s].key}
    /\ run' = [run EXCEPT ![s].at = "looping"]
    /\ UNCHANGED <<row, alive, kills, owed, doubled>>

\* _due_company_names / _consented_user_ids: one SELECT before the loop.
EnqueueSelects(s) ==
    /\ run[s].key = Enqueue
    /\ run[s].at = "started"
    /\ run' = [run EXCEPT ![s].at = "looping", ![s].left = wanted]
    /\ UNCHANGED <<row, alive, kills, wanted, owed, doubled>>

EnqueueDefers(s, k) ==
    /\ run[s].key = Enqueue
    /\ k \in run[s].left
    /\ defer(k, [run EXCEPT ![s].left = @ \ {k}])
    /\ UNCHANGED <<alive, kills, wanted>>

\* Variant: every running job counts as an orphan.
Orphaned_if_doing(j) == row[j].status = "doing"

\* Variant: a job is an orphan while its dead worker's row is still there.
Orphaned_by_heartbeat(j) == row[j].status = "doing" /\ row[j].worker = Dead

\* status = 'doing' AND worker_id IS NULL
Orphaned(j) == row[j].status = "doing" /\ row[j].worker = None

ReclaimSelects(s) ==
    /\ run[s].key = Reclaim
    /\ run[s].at = "started"
    /\ run' = [run EXCEPT ![s].at = "looping", ![s].left = {j \in Rows : Orphaned(j)}]
    /\ UNCHANGED <<row, alive, kills, wanted, owed, doubled>>

\* retry_job_by_id: a row that is 'doing' or 'failed' now, whoever executes it, becomes
\* 'todo' again, unless the lock is taken (skipped).
ReclaimRetries(s, j) ==
    /\ run[s].key = Reclaim
    /\ j \in run[s].left
    /\ row[j].status \in {"doing", "failed"}
    /\ IF Locked(j.key)
       THEN UNCHANGED <<row, doubled>>
       ELSE /\ row' = [row EXCEPT ![j] = [status |-> "todo", worker |-> None]]
            /\ doubled' = IF Executed(j) THEN doubled \cup ({j.key} \cap Work) ELSE doubled
    /\ run' = [run EXCEPT ![s].left = @ \ {j}]
    /\ UNCHANGED <<alive, kills, wanted, owed>>

\* It raises for any other row, and the reclaim fails.
ReclaimAborts(s) ==
    /\ run[s].key = Reclaim
    /\ \E j \in run[s].left : row[j].status \in {"none", "todo"}
    /\ Raises(s)

-----------------------------------------------------------------------------
Init ==
    /\ row = [j \in Rows |-> NoRow]
    /\ run = [s \in Slots |-> Idle]
    /\ alive = TRUE
    /\ kills = 0
    /\ wanted = {}
    /\ owed = {}
    /\ doubled = {}

\* The steps by which a started job gets on.
Proceeds(s) ==
    \/ Works(s)
    \/ EnqueueSelects(s) \/ \E k \in Work : EnqueueDefers(s, k)
    \/ ReclaimSelects(s) \/ \E j \in Rows : ReclaimRetries(s, j)
    \/ ReclaimAborts(s) \/ Returns(s)

FetchKey(k) == \E s \in Slots, j \in Rows : j.key = k /\ Fetch(s, j)

Next ==
    \/ \E k \in {Enqueue, Reclaim} : Cron(k)
    \/ \E k \in Work : post_sync_now(k) \/ BecomesWanted(k)
    \/ \E k \in Keys : FetchKey(k)
    \/ \E s \in Slots : Proceeds(s) \/ Raises(s)
    \/ WorkerKilled \/ WorkerStarts \/ Prune

Spec == Init /\ [][Next]_vars

(***************************************************************************)
(* The worker restarts and prunes, the ticks keep firing, a job that runs  *)
(* gets on, and jobs are fetched in the order of their ids, so that none   *)
(* waits for ever while slots become free.  Tasks stop failing some day.   *)
(***************************************************************************)
Fairness ==
    /\ WF_vars(WorkerStarts) /\ WF_vars(Prune)
    /\ \A k \in {Enqueue, Reclaim} : WF_vars(Cron(k))
    /\ \A s \in Slots : WF_vars(Proceeds(s))
    /\ \A k \in Keys : SF_vars(FetchKey(k))
    /\ <>[][\A s \in Slots : ~Raises(s) \/ Proceeds(s)]_vars

-----------------------------------------------------------------------------
RowRecords == [status : {"none", "todo", "doing", "failed"}, worker : Slots \cup {None, Dead}]

RunRecords == [row : Rows \cup {None}, key : Keys \cup {None}, at : {"idle", "started", "looping"},
               left : SUBSET (Work \cup Rows), fresh : BOOLEAN, alone : BOOLEAN]

TypeOK ==
    /\ row \in [Rows -> RowRecords]
    /\ run \in [Slots -> RunRecords]
    /\ alive \in BOOLEAN /\ kills \in 0 .. MaxKills
    /\ wanted \subseteq Work /\ owed \subseteq Work /\ doubled \subseteq Work

\* A row that will be run again: in the queue, or left behind by a dead worker.
WaitingRow(j) ==
    \/ row[j].status = "todo"
    \/ row[j].status = "doing" /\ row[j].worker \notin Slots

Waiting(k) == \E j \in Rows : j.key = k /\ WaitingRow(j)

RunsFresh(k) == \E s \in Slots : run[s].key = k /\ run[s].fresh

(***************************************************************************)
(* No accepted deferral is forgotten: whatever "already enqueued" and      *)
(* "skipped" stood for, and whatever was killed, there is a run for the    *)
(* lock that began later, or a row that will become one. The one exception *)
(* is a deferral merged into a row that a late reclaim has put back while  *)
(* it was being executed: that row ends with the run it did not ask for.   *)
(* The next deferral of the lock that makes a row ends the exception.      *)
(***************************************************************************)
NothingForgotten == \A k \in owed : Waiting(k) \/ RunsFresh(k) \/ k \in doubled

\* Why it holds: a row is not used again while a slot refers to it; a waiting row is
\* executed by nobody, unless it was doubled; ...
SlotsOwnRows ==
    \A s \in Slots :
        IF run[s].at = "idle" THEN run[s] = Idle
        ELSE /\ run[s].row \in Rows /\ run[s].key = run[s].row.key
             /\ row[run[s].row].status = "todo" /\ run[s].key \in Work => run[s].key \in doubled
             /\ row[run[s].row].status = "doing" => row[run[s].row].worker \in Slots

\* ... a deferral has a waiting row of its own, or a fresh run that nobody doubles; ...
OwedHasRow ==
    \A k \in owed \ doubled :
        \/ \E j \in Rows : j.key = k /\ WaitingRow(j) /\ ~Executed(j)
        \/ \E s \in Slots : /\ run[s].key = k /\ run[s].fresh
                             /\ row[run[s].row] = [status |-> "doing", worker |-> s]
                             /\ \A t \in Slots \ {s} : run[t].row # run[s].row

\* ... and what a reclaim without company selected stays an orphan until it is dealt with.
CandidatesAreOrphans ==
    \A s \in Slots : run[s].alone =>
        /\ run[s].key = Reclaim
        /\ \A t \in Slots : run[t].key = Reclaim => t = s
        /\ \A j \in run[s].left : j \in Rows /\ row[j].status = "doing" /\ row[j].worker = None

Inv == TypeOK /\ SlotsOwnRows /\ CandidatesAreOrphans /\ OwedHasRow

\* A reclaim puts row j back into the queue.
PutsBack(j) == row[j].status = "doing" /\ row'[j].status = "todo"

(***************************************************************************)
(* reclaim_orphaned_jobs never puts back into the queue a job that a live  *)
(* worker is executing ("never a generic age/heartbeat query"), unless two *)
(* reclaims have run side by side: the second may act on a selection that  *)
(* the first, and a slot that took the job since, have made obsolete.      *)
(***************************************************************************)
ReclaimsOnlyOrphans ==
    [][\A j \in Rows : PutsBack(j) =>
          \/ row[j].worker = None
          \/ \E s \in Slots : run[s].key = Reclaim /\ j \in run[s].left /\ ~run[s].alone]_vars

\* As the docstring has it, without the exception.
NeverALiveJob == [][\A j \in Rows : PutsBack(j) => row[j].worker = None]_vars

\* A company that is due gets its scan, a user that asked for mail gets it, in spite of
\* kills, locks already held and orphans of the same lock.
WantedIsServed == \A k \in Work : k \in wanted ~> k \notin wanted

\* A deferral leads to a run that begins after it, also when the worker is killed with
\* the job, and with the tick that was about to bring it back; except, as above, for a
\* lock whose running row a late reclaim has put back.
DeferralIsRun ==
    \A k \in Work : k \in owed ~> (k \notin owed \/ RunsFresh(k) \/ k \in doubled)
=============================================================================
