------------------------------ MODULE Staleness ------------------------------
(***************************************************************************)
(* run_staleness_check (engine/expiry_checker.py, engine/stale_detector.py):*)
(* Phase C asks the sources of the undecided postings, in a pool under a   *)
(* runtime limit, and writes through seams that a host may leave unbound;  *)
(* Phase A then judges by the clock, statement by statement, while feeds   *)
(* see postings again, the scorer checks them and users apply.  Nothing in *)
(* the program calls it yet, so that no step is assumed to be taken.       *)
(***************************************************************************)
EXTENDS Integers, FiniteSets

CONSTANTS
    Jobs, None,
    Gated,          \* every source is in the registry of opaque redirects
    OnBoard,        \* Signal 1 finds an id of a known board in a source URL
    HasPage,        \* the company has a homepage
    Dead,           \* the company is missing, not scanned, or a miss or hit that is used up
    Checkable,      \* of those, the ones that are dead only once the careers page was tried
    Workers,        \* cascade_parallel_workers
    Unverified, Stale, Archive, Grace, Ceiling, Recheck,    \* the thresholds, in days
    MaxFailures, SkipDays       \* _MAX_CAREERS_FAILURES, _CAREERS_SKIP_DAYS

ASSUME StalenessAssumption ==
    /\ Gated \subseteq Jobs /\ OnBoard \subseteq Jobs /\ HasPage \subseteq Jobs
    /\ Checkable \subseteq Dead /\ Dead \subseteq Jobs
    /\ Workers \in Nat \ {0}
    /\ {Unverified, Stale, Archive, Grace, Ceiling, Recheck, MaxFailures, SkipDays} \subseteq Nat \ {0}
    /\ Unverified <= Stale /\ Recheck <= Stale /\ Stale <= Archive /\ Stale <= Ceiling /\ Grace <= Ceiling
    /\ None \notin Nat /\ None \notin BOOLEAN /\ None \notin {"live", "expired", "inconclusive"}

VARIABLES
    wired,          \* the seams of ScanServices that the host has bound
    stage,          \* pipeline_status: "passive", "active" or "archived"
    seen, age,      \* days since last_seen and since first_seen
    stale,          \* is_stale
    status,         \* expiry_status
    checked,        \* days since expiry_checked_at
    careers,        \* careers_checked_at is set
    direct,         \* direct_url is set
    phase,          \* of the nightly run, Phase A by the statement that it comes to
    ran,            \* tonight's run has begun
    work,           \* the future of each posting in Phase C
    result,         \* what its worker found
    limit,          \* the runtime limit has passed
    abandoned,      \* the futures that the drain has stopped waiting for
    outcome,        \* _company_outcomes, by posting: each has a company of its own
    strikes, skip,  \* _careers_failure_counts, and the days left of _careers_skip_until
    chosen,         \* what the SELECT of a pass has returned
    held,           \* rows that the run's open transaction has changed, and locked
    tonight,        \* history: found live in this run
    moved,          \* history: moved by its user since Phase C or an archive pass selected it
    raced           \* history: seen or checked again since the clear pass made its SELECT

posting == <<stage, seen, age, stale, status, checked, careers, direct>>
cascade == <<work, result, limit, outcome, abandoned>>
ledger == <<strikes, skip>>
history == <<tonight, moved, raced>>
vars == <<wired, stage, seen, age, stale, status, checked, careers, direct, phase, ran, work, result, limit,
          outcome, abandoned, strikes, skip, chosen, held, tonight, moved, raced>>

Seams == {"direct", "expiry", "stage"}      \* set_direct_url, persist_job_expiry_state, update_pipeline_status
Cascading == {"C", "draining"}
Judging == {"A", "marked", "gating", "gated", "sparing", "cleared", "idle", "archived", "unverifiable"}

Verdicts == {"live", "expired", "inconclusive"}
Found(v, link, page) == [verdict |-> v, link |-> link, careers |-> page]
Passive(j) == stage[j] = "passive"
Older(days, limitDays) == days # None /\ days > limitDays

-----------------------------------------------------------------------------
(* Verdicts *)

\* _check_job_expiry: the answer of Signal 0 or 1, else of the careers page, else none.
\* No answer need be true: any page without a marker is live, and so is any like title.
CascadeFinds(j) ==
    LET Asked == j \notin Gated \/ j \in OnBoard
        Page == j \in HasPage /\ skip[j] = 0
    IN  {Found("inconclusive", FALSE, Page), Found("inconclusive", FALSE, FALSE)}
        \cup (IF Asked THEN {Found(v, FALSE, FALSE) : v \in {"live", "expired"}} ELSE {})
        \cup (IF Page THEN {Found("live", link, TRUE) : link \in BOOLEAN} ELSE {})

\* Variant: any verdict moves the clock of the unverified.
persist_job_expiry_state_always(j, v) ==
    /\ status' = [status EXCEPT ![j] = v]
    /\ checked' = [checked EXCEPT ![j] = 0]
    /\ seen' = [seen EXCEPT ![j] = IF v = "live" THEN 0 ELSE @]
    /\ stale' = [stale EXCEPT ![j] = @ /\ v # "live"]

\* Variant: a live verdict only says so.
persist_job_expiry_state_unseen(j, v) ==
    /\ status' = [status EXCEPT ![j] = v]
    /\ checked' = [checked EXCEPT ![j] = IF v = "inconclusive" THEN @ ELSE 0]
    /\ UNCHANGED <<seen, stale>>

persist_job_expiry_state(j, v) ==
    /\ status' = [status EXCEPT ![j] = v]
    /\ checked' = [checked EXCEPT ![j] = IF v = "inconclusive" THEN @ ELSE 0]
    /\ seen' = [seen EXCEPT ![j] = IF v = "live" THEN 0 ELSE @]
    /\ stale' = [stale EXCEPT ![j] = @ /\ v # "live"]

-----------------------------------------------------------------------------
(* Phase C *)

\* The selection is a snapshot: the workers get the rows as they are now.
Begins ==
    /\ phase = "off" /\ ~ran
    /\ phase' = "C" /\ ran' = TRUE
    /\ work' = [j \in Jobs |-> IF Passive(j) /\ status[j] # "expired" /\ (checked[j] = None \/ Older(checked[j], Recheck))
                               THEN "queued" ELSE "none"]
    /\ tonight' = {} /\ moved' = {} /\ raced' = {}
    /\ UNCHANGED <<wired, posting, result, limit, outcome, abandoned, ledger, chosen, held>>

Starts(j) ==
    /\ phase \in Cascading /\ work[j] = "queued"
    /\ Cardinality({i \in Jobs : work[i] = "running"}) < Workers
    /\ work' = [work EXCEPT ![j] = "running"]
    /\ UNCHANGED <<wired, posting, phase, ran, result, limit, outcome, abandoned, ledger, chosen, held, history>>

Finishes(j) ==
    /\ work[j] = "running"
    /\ work' = [work EXCEPT ![j] = "finished"]
    /\ result' \in {[result EXCEPT ![j] = r] : r \in CascadeFinds(j)}
    /\ UNCHANGED <<wired, posting, phase, ran, limit, outcome, abandoned, ledger, chosen, held, history>>

\* cascade_runtime_limit_s has passed; the main loop looks after each result.
LimitPasses ==
    /\ phase = "C" /\ ~limit
    /\ limit' = TRUE
    /\ UNCHANGED <<wired, posting, phase, ran, work, result, outcome, abandoned, ledger, chosen, held, history>>

\* After a result the loop goes on, or breaks and cancels what has not started.
AfterResult(j) ==
    IF phase = "C" /\ limit
    THEN /\ phase' = "draining"
         /\ work' = [i \in Jobs |-> CASE i = j -> "kept" [] work[i] = "queued" -> "cancelled" [] OTHER -> work[i]]
    ELSE work' = [work EXCEPT ![j] = "kept"] /\ UNCHANGED phase

VerdictKept(j, v) ==
    IF "expiry" \in wired THEN persist_job_expiry_state(j, v) ELSE UNCHANGED <<status, checked, seen, stale>>

\* careers_checked_at is committed with the verdict; unbound, with what commits next.
CareersKept(j, attempted) ==
    /\ careers' = [careers EXCEPT ![j] = @ \/ attempted]
    /\ IF "expiry" \in wired THEN held' = {}
       ELSE held' \in {h \cup (IF attempted /\ ~careers[j] THEN {j} ELSE {}) : h \in {{}, held}}

\* _persist_cascade_worker_result
Keeps(j) ==
    /\ phase \in Cascading /\ work[j] = "finished" /\ j \notin abandoned
    /\ LET r == result[j] IN
          /\ direct' = [direct EXCEPT ![j] = @ \/ (r.link /\ "direct" \in wired)]
          /\ CareersKept(j, r.careers)
          /\ VerdictKept(j, r.verdict)
          /\ stage' = [stage EXCEPT ![j] = IF r.verdict = "expired" /\ "stage" \in wired THEN "archived" ELSE @]
          /\ outcome' = [outcome EXCEPT ![j] = IF r.careers THEN r.verdict = "live" ELSE @]
          /\ tonight' = IF r.verdict = "live" THEN tonight \cup {j} ELSE tonight
    /\ AfterResult(j)
    /\ result' = [result EXCEPT ![j] = None]
    /\ UNCHANGED <<wired, age, ran, limit, abandoned, ledger, chosen, moved, raced>>

CascadeOver ==
    /\ work' = [j \in Jobs |-> "none"] /\ result' = [j \in Jobs |-> None]
    /\ limit' = FALSE /\ outcome' = [j \in Jobs |-> None] /\ abandoned' = {}

\* One of its transactions raises: Phase C is over and what is not committed is rolled
\* back, the pool works its queue off, and what else was found is dropped.
PersistRaises(j) ==
    /\ phase \in Cascading /\ work[j] = "finished" /\ j \notin abandoned
    /\ \/ /\ direct' \in {direct, [direct EXCEPT ![j] = @ \/ (result[j].link /\ "direct" \in wired)]}
          /\ careers' \in {[i \in Jobs |-> careers[i] /\ i \notin lost] : lost \in {{}, held}}
          /\ UNCHANGED <<status, checked, seen, stale>>
       \/ /\ "expiry" \in wired
          /\ direct' = [direct EXCEPT ![j] = @ \/ (result[j].link /\ "direct" \in wired)]
          /\ careers' = [careers EXCEPT ![j] = @ \/ result[j].careers]
          /\ persist_job_expiry_state(j, result[j].verdict)
    /\ phase' = "A" /\ held' = {}
    /\ CascadeOver
    /\ UNCHANGED <<wired, stage, age, ran, ledger, chosen, history>>

\* The drain waits for a straggler, though not for ever; the pool's exit does.
DrainGivesUp(j) ==
    /\ phase = "draining" /\ work[j] = "running"
    /\ abandoned' = abandoned \cup {j}
    /\ UNCHANGED <<wired, posting, phase, ran, work, result, limit, outcome, ledger, chosen, held, history>>

\* _record_careers_outcome, once per company and run
Records ==
    /\ strikes' = [j \in Jobs |-> CASE outcome[j] = None -> strikes[j]
                                    [] outcome[j] = TRUE -> 0
                                    [] OTHER -> IF strikes[j] = MaxFailures THEN strikes[j] ELSE strikes[j] + 1]
    /\ skip' = [j \in Jobs |-> CASE outcome[j] = None -> skip[j]
                                 [] outcome[j] = TRUE -> 0
                                 [] OTHER -> IF strikes[j] + 1 >= MaxFailures THEN SkipDays ELSE skip[j]]

\* Variant: the loop breaks and nothing is drained.
Cascaded_undrained ==
    /\ phase \in Cascading
    /\ phase = "C" => \A j \in Jobs : work[j] \notin {"queued", "running", "finished"}
    /\ phase' = "A" /\ held' = {}
    /\ Records
    /\ CascadeOver
    /\ UNCHANGED <<wired, posting, ran, chosen, history>>

\* The pool has let go of every worker, and the connection has committed.
Cascaded ==
    /\ phase \in Cascading
    /\ \A j \in Jobs : work[j] \notin {"queued", "running"} /\ (work[j] = "finished" => j \in abandoned)
    /\ phase' = "A" /\ held' = {}
    /\ Records
    /\ CascadeOver
    /\ UNCHANGED <<wired, posting, ran, chosen, history>>

-----------------------------------------------------------------------------
(* Phase A: each statement sees what is committed when it runs *)

Cutoff(j) == IF status[j] = "inconclusive" THEN Unverified ELSE Stale

MarksUnseen ==
    /\ phase = "A"
    /\ held' = {j \in Jobs : ~stale[j] /\ Passive(j) /\ Older(seen[j], Cutoff(j))}
    /\ stale' = [j \in Jobs |-> stale[j] \/ j \in held']
    /\ phase' = "marked"
    /\ UNCHANGED <<wired, stage, seen, age, status, checked, careers, direct, ran, cascade, ledger, chosen, history>>

\* What a gated source publishes again keeps last_seen fresh: these go by the last verdict.
SelectsGated ==
    /\ phase = "marked"
    /\ chosen' = {j \in Gated : /\ ~stale[j] /\ Passive(j)
                                /\ status[j] = "inconclusive" /\ Older(checked[j], Unverified)}
    /\ phase' = "gating"
    /\ UNCHANGED <<wired, posting, ran, cascade, ledger, held, history>>

\* By the keys, whatever has become of the rows.
MarksGated ==
    /\ phase = "gating"
    /\ stale' = [j \in Jobs |-> stale[j] \/ j \in chosen]
    /\ held' = held \cup chosen /\ chosen' = {}
    /\ phase' = "gated"
    /\ UNCHANGED <<wired, stage, seen, age, status, checked, careers, direct, ran, cascade, ledger, history>>

\* Variant: a fresh sighting clears whatever it is of.
SelectsSpared_none ==
    /\ phase = "gated"
    /\ chosen' = {}
    /\ phase' = "sparing" /\ raced' = {}
    /\ UNCHANGED <<wired, posting, ran, cascade, ledger, held, tonight, moved>>

\* gated_only_excluded: seen of late, which is no evidence of life.
SelectsSpared ==
    /\ phase = "gated"
    /\ chosen' = {j \in Gated : stale[j] /\ Passive(j) /\ ~Older(seen[j], Cutoff(j)) /\ status[j] # "live"}
    /\ phase' = "sparing" /\ raced' = {}
    /\ UNCHANGED <<wired, posting, ran, cascade, ledger, held, tonight, moved>>

\* And the marks are committed.
Clears ==
    /\ phase = "sparing"
    /\ stale' = [j \in Jobs |-> stale[j] /\ Passive(j) /\ (Older(seen[j], Cutoff(j)) \/ j \in chosen)]
    /\ held' = {} /\ chosen' = {}
    /\ phase' = "cleared"
    /\ UNCHANGED <<wired, stage, seen, age, status, checked, careers, direct, ran, cascade, ledger, history>>

\* Variant: whatever its stage.
Idle_in_any_stage(j) == stage[j] # "archived" /\ Older(seen[j], Archive)

Idle(j) == Passive(j) /\ Older(seen[j], Archive)

SelectsIdle ==
    /\ phase = "cleared"
    /\ chosen' = {j \in Jobs : Idle(j)}
    /\ phase' = "idle" /\ moved' = {}
    /\ UNCHANGED <<wired, posting, ran, cascade, ledger, held, tonight, raced>>

ArchivesChosen ==
    /\ stage' = [j \in Jobs |-> IF j \in chosen THEN "archived" ELSE stage[j]]
    /\ chosen' = {}
    /\ UNCHANGED <<wired, seen, age, stale, status, checked, careers, direct, ran, cascade, ledger, held>>

\* The bulk UPDATE goes by the keys, and is committed.
ArchivesIdle == phase = "idle" /\ phase' = "archived" /\ ArchivesChosen /\ UNCHANGED history

\* is_unverifiable_candidate, and a dead end or the ceiling
Unverifiable(j) ==
    /\ j \in Gated /\ ~direct[j] /\ Passive(j) /\ age[j] > Grace
    /\ age[j] > Ceiling \/ (j \in Dead /\ (j \in Checkable => careers[j]))

SelectsUnverifiable ==
    /\ phase = "archived"
    /\ chosen' = {j \in Jobs : Unverifiable(j)}
    /\ phase' = "unverifiable" /\ moved' = {}
    /\ UNCHANGED <<wired, posting, ran, cascade, ledger, held, tonight, raced>>

Ends == phase' = "off" /\ tonight' = {} /\ moved' = {} /\ raced' = {}

ArchivesUnverifiable == phase = "unverifiable" /\ Ends /\ ArchivesChosen

MarksUndone == stale' = [j \in Jobs |-> stale[j] /\ ~(phase \in Judging /\ j \in held)]

\* What is not committed is rolled back, and the night is over.
PhaseAFails ==
    /\ phase \in Judging
    /\ MarksUndone /\ held' = {} /\ chosen' = {}
    /\ Ends
    /\ UNCHANGED <<wired, stage, seen, age, status, checked, careers, direct, ran, cascade, ledger>>

-----------------------------------------------------------------------------
(* The rest of the program, and the world; a row that the run holds can only be read *)

Races(j) == raced' = IF phase = "sparing" THEN raced \cup {j} ELSE raced

\* upsert_job; an aggregator publishes what is long closed.
SeenAgain(j) ==
    /\ j \notin held
    /\ seen' = [seen EXCEPT ![j] = 0]
    /\ Races(j)
    /\ UNCHANGED <<wired, stage, age, stale, status, checked, careers, direct, phase, ran, cascade, ledger, chosen,
                   held, tonight, moved>>

\* The gate of the scoring run: not within a day of a verified verdict, and of a
\* gated posting only once it has a direct_url (else its scoring is deferred).
Preflight(j) ==
    /\ j \notin held /\ checked[j] # 0 /\ (j \in Gated => direct[j])
    /\ \E v \in Verdicts : (j \in Gated => v = "inconclusive") /\ persist_job_expiry_state(j, v)
    /\ Races(j)
    /\ UNCHANGED <<wired, stage, age, careers, direct, phase, ran, cascade, ledger, chosen, held, tonight, moved>>

\* The resolver or the enricher meets the posting on the company's own board.
Resolves(j) ==
    /\ j \notin held /\ ~direct[j]
    /\ direct' = [direct EXCEPT ![j] = TRUE]
    /\ UNCHANGED <<wired, stage, seen, age, stale, status, checked, careers, phase, ran, cascade, ledger, chosen,
                   held, history>>

Applies(j) ==
    /\ j \notin held /\ Passive(j)
    /\ stage' = [stage EXCEPT ![j] = "active"]
    /\ moved' = IF phase = "off" THEN moved ELSE moved \cup {j}
    /\ UNCHANGED <<wired, seen, age, stale, status, checked, careers, direct, phase, ran, cascade, ledger, chosen,
                   held, tonight, raced>>

Capped(days, cap) == IF days = None \/ days >= cap THEN days ELSE days + 1

DayPasses ==
    /\ phase = "off"
    /\ ran' = FALSE
    /\ seen' = [j \in Jobs |-> Capped(seen[j], Archive + 1)]
    /\ age' = [j \in Jobs |-> Capped(age[j], Ceiling + 1)]
    /\ checked' = [j \in Jobs |-> Capped(checked[j], (IF Unverified > Recheck THEN Unverified ELSE Recheck) + 1)]
    /\ skip' = [j \in Jobs |-> IF skip[j] = 0 THEN 0 ELSE skip[j] - 1]
    /\ UNCHANGED <<wired, stage, stale, status, careers, direct, phase, cascade, strikes, chosen, held, history>>

\* The ledger of the careers pages is in memory; a run dies with its process.
Restarts ==
    /\ Ends
    /\ MarksUndone /\ held' = {} /\ chosen' = {}
    /\ careers' = [j \in Jobs |-> careers[j] /\ ~(phase \in Cascading /\ j \in held)]
    /\ CascadeOver
    /\ strikes' = [j \in Jobs |-> 0] /\ skip' = [j \in Jobs |-> 0]
    /\ UNCHANGED <<wired, stage, seen, age, status, checked, direct, ran>>

-----------------------------------------------------------------------------

InitRest ==
    /\ stale = [j \in Jobs |-> FALSE]
    /\ status = [j \in Jobs |-> None] /\ checked = [j \in Jobs |-> None]
    /\ careers = [j \in Jobs |-> FALSE] /\ direct = [j \in Jobs |-> FALSE]
    /\ phase = "off" /\ ran = FALSE
    /\ work = [j \in Jobs |-> "none"] /\ result = [j \in Jobs |-> None]
    /\ limit = FALSE /\ outcome = [j \in Jobs |-> None] /\ abandoned = {}
    /\ strikes = [j \in Jobs |-> 0] /\ skip = [j \in Jobs |-> 0]
    /\ chosen = {} /\ held = {} /\ tonight = {} /\ moved = {} /\ raced = {}

Init ==
    /\ wired \in SUBSET Seams
    /\ stage = [j \in Jobs |-> "passive"]
    /\ seen = [j \in Jobs |-> 0] /\ age = [j \in Jobs |-> 0]
    /\ InitRest

Cascade == Begins \/ LimitPasses \/ Cascaded \/ \E j \in Jobs : Starts(j) \/ Finishes(j) \/ Keeps(j) \/ DrainGivesUp(j)
Marks == MarksUnseen \/ SelectsGated \/ MarksGated \/ SelectsSpared \/ Clears
Archives == SelectsIdle \/ ArchivesIdle \/ SelectsUnverifiable \/ ArchivesUnverifiable
World(j) == SeenAgain(j) \/ Preflight(j) \/ Resolves(j) \/ Applies(j)

Next ==
    \/ Cascade \/ Marks \/ Archives \/ PhaseAFails \/ DayPasses \/ Restarts
    \/ \E j \in Jobs : PersistRaises(j) \/ World(j)

Spec == Init /\ [][Next]_vars

-----------------------------------------------------------------------------

TypeOK ==
    /\ wired \subseteq Seams /\ stage \in [Jobs -> {"passive", "active", "archived"}]
    /\ seen \in [Jobs -> Nat] /\ age \in [Jobs -> Nat] /\ checked \in [Jobs -> Nat \cup {None}]
    /\ stale \in [Jobs -> BOOLEAN] /\ status \in [Jobs -> Verdicts \cup {None}]
    /\ careers \in [Jobs -> BOOLEAN] /\ direct \in [Jobs -> BOOLEAN]
    /\ phase \in {"off"} \cup Cascading \cup Judging /\ ran \in BOOLEAN
    /\ work \in [Jobs -> {"none", "queued", "running", "finished", "kept", "cancelled"}]
    /\ result \in [Jobs -> [verdict : Verdicts, link : BOOLEAN, careers : BOOLEAN] \cup {None}]
    /\ limit \in BOOLEAN /\ outcome \in [Jobs -> BOOLEAN \cup {None}] /\ abandoned \subseteq Jobs
    /\ strikes \in [Jobs -> 0 .. MaxFailures] /\ skip \in [Jobs -> 0 .. SkipDays]
    /\ chosen \subseteq Jobs /\ held \subseteq Jobs
    /\ tonight \subseteq Jobs /\ moved \subseteq Jobs /\ raced \subseteq Jobs

\* The clock is of the last verified verdict, whoever wrote it; who is verified
\* live counts as seen then, and does not show as stale before the next check.
ClockOfTheVerified ==
    \A j \in Jobs :
        /\ status[j] \in {"live", "expired"} => checked[j] # None
        /\ checked[j] # None => status[j] # None /\ checked[j] <= age[j]
        /\ j \in Gated \ (OnBoard \cup HasPage) => checked[j] = None
        /\ status[j] = "live" /\ checked[j] <= Recheck => seen[j] <= checked[j] /\ ~stale[j]

Inv == TypeOK /\ ClockOfTheVerified

(***************************************************************************)
(* "A job HTTP-verified live tonight must not be stale-marked or clock-    *)
(* archived tonight": so it is where persist_job_expiry_state is bound,    *)
(* but for a gated one, which may still be archived as unverifiable.       *)
(***************************************************************************)
LiveTonightStays ==
    [][\A j \in tonight : "expiry" \in wired =>
          /\ ~stale[j] => ~stale'[j]
          /\ stage[j] = "passive" /\ stage'[j] = "archived" => phase = "unverifiable" /\ j \in Gated]_vars

(***************************************************************************)
(* Active applications are never archived, but for one that became active  *)
(* while the run held the selection that it was in.                        *)
(***************************************************************************)
ActiveIsKept ==
    [][\A j \in Jobs : stage[j] = "active" /\ stage'[j] = "archived" => j \in moved]_vars

(***************************************************************************)
(* The pool is drained: what a worker has begun is waited for, past the    *)
(* limit too, and what it finds is taken, as a verdict where the seam is   *)
(* bound; unless a write raises, the process restarts, or the drain has    *)
(* given up on that worker.                                                *)
(***************************************************************************)
PaidForIsKept ==
    [][\A j \in Jobs : work[j] \in {"running", "finished"} =>
          \/ work'[j] \in {"running", "finished"}
          \/ work'[j] = "kept" /\ ("expiry" \in wired => status'[j] = result[j].verdict)
          \/ j \in abandoned \/ Restarts \/ \E i \in Jobs : PersistRaises(i)]_vars

(***************************************************************************)
(* What a gated source publishes again does not clear a mark: a passive    *)
(* posting of such sources stays stale until it is verified live, or was   *)
(* seen or checked between the clear pass's SELECT and its UPDATE, or the  *)
(* mark is not committed yet.                                              *)
(***************************************************************************)
GatedStaysMarked ==
    [][\A j \in Gated : Passive(j) /\ stale[j] /\ ~stale'[j] => status'[j] = "live" \/ j \in raced \cup held]_vars
=============================================================================
