----------------------------- MODULE UserErasure -----------------------------
(***************************************************************************)
(* The erasure of deleted accounts: the Clerk webhook                      *)
(* (jobcannon/web/webhooks.py), the one cascade both erasers share and the *)
(* daily reconciliation sweep (jobcannon/host/user_deletion.py), the       *)
(* sign-up handoff that can write a users row again                        *)
(* (jobcannon/web/handoff.py), and the PostHog purge job the cascade       *)
(* defers.  Clerk, Svix and PostHog are external.                          *)
(*                                                                         *)
(* The sweep's candidates are ordered by deletion_checked_at NULLS FIRST,  *)
(* then created_at: the sequence unchecked (never stamped, by creation)    *)
(* followed by checked (by stamp).                                         *)
(***************************************************************************)
EXTENDS Naturals, Sequences, FiniteSets, SequencesExt

CONSTANTS
    Users,          \* Clerk-issued ids
    RowCap,         \* JC_DELETION_RECONCILE_ROW_CAP
    MinChecked,     \* _CIRCUIT_BREAKER_MIN_CHECKED
    AnalyticsOn,    \* is a pseudonymization salt configured?
    OwnInstance     \* does the worker's CLERK_SECRET_KEY name the right Clerk instance?

ASSUME CapAssumption ==
    RowCap \in Nat \ {0} /\ MinChecked \in Nat \ {0}
    /\ AnalyticsOn \in BOOLEAN /\ OwnInstance \in BOOLEAN

VARIABLES
    account,    \* Clerk: [Users -> {"none", "live", "gone"}]
    row,        \* users table: [Users -> {"absent", "young", "settled"}]
    unchecked,  \* users with a row never stamped, in creation order
    checked,    \* users with a stamped row, in stamp order
    upserts,    \* users with an undelivered or unacknowledged user.created/updated
    deletion,   \* the user.deleted message of each user, in Svix's hands
    handling,   \* user.deleted deliveries between delete_user and the enqueue
    appOpen,    \* has this web process opened its procrastinate connector?
    stale,      \* deleted accounts whose last token clerk_auth might still admit
    inflight,   \* users with an admitted web request that has not reached the handoff
    sweep,      \* the reconciliation sweep
    purge,      \* the purge_posthog_person job of each user
    swallowed   \* users whose purge enqueue failed after the row was gone (logged only)

queues == <<unchecked, checked>>
webVars == <<upserts, deletion, handling, appOpen, stale, inflight>>
jobVars == <<purge, swallowed>>
vars == <<account, row, queues, webVars, sweep, jobVars>>

Outcomes == {"none", "present", "not_found", "rate_limited", "error"}

NoSweep == [at |-> "idle", todo |-> <<>>, looked |-> <<>>,
            outcome |-> [u \in Users |-> "none"], deferring |-> {}, deleted |-> 0, checked |-> 0]

-----------------------------------------------------------------------------
(* jobcannon/db/_users.py *)

\* Insert or refresh.  A new row is young and has a NULL stamp.
ensure_user(u) ==
    IF row[u] = "absent"
    THEN /\ row' = [row EXCEPT ![u] = "young"]
         /\ unchecked' = Append(unchecked, u)
         /\ UNCHANGED checked
    ELSE UNCHANGED <<row, queues>>

\* Hard DELETE, a no-op on an absent row.
delete_user(u) ==
    /\ row' = [row EXCEPT ![u] = "absent"]
    /\ unchecked' = Remove(unchecked, u)
    /\ checked' = Remove(checked, u)

\* Variant: nothing is stamped.
mark_deletion_checked_never(u) == u \in Users /\ UNCHANGED <<row, queues>>

\* UPDATE ... SET deletion_checked_at = now(): the row goes to the back.
mark_deletion_checked(u) ==
    /\ unchecked' = Remove(unchecked, u)
    /\ checked' = IF row[u] = "absent" THEN checked ELSE Append(Remove(checked, u), u)
    /\ UNCHANGED row

\* Variant: rows that were stamped once are not looked at again.
list_users_never_checked ==
    LET eligible == SelectSeq(unchecked, LAMBDA u : row[u] = "settled")
    IN  SubSeq(eligible, 1, IF Len(eligible) < RowCap THEN Len(eligible) ELSE RowCap)

list_users_pending_deletion_reconciliation ==
    LET eligible == SelectSeq(unchecked \o checked, LAMBDA u : row[u] = "settled")
    IN  SubSeq(eligible, 1, IF Len(eligible) < RowCap THEN Len(eligible) ELSE RowCap)

-----------------------------------------------------------------------------
(* Clerk, Svix and time (external) *)

SignsUp(u) ==
    /\ account[u] = "none"
    /\ account' = [account EXCEPT ![u] = "live"]
    /\ upserts' = upserts \cup {u}
    /\ UNCHANGED <<row, queues, deletion, handling, appOpen, stale, inflight, sweep, jobVars>>

ClerkUpdates(u) ==
    /\ account[u] = "live"
    /\ upserts' = upserts \cup {u}
    /\ UNCHANGED <<account, row, queues, deletion, handling, appOpen, stale, inflight, sweep, jobVars>>

\* Through POST /account/delete or the Account Portal; Clerk ids are never reused.
Leaves(u) ==
    /\ account[u] = "live"
    /\ account' = [account EXCEPT ![u] = "gone"]
    /\ deletion' = [deletion EXCEPT ![u] = "sent"]
    /\ stale' = stale \cup {u}
    /\ UNCHANGED <<row, queues, upserts, handling, appOpen, inflight, sweep, jobVars>>

LastTokenDies(u) ==
    /\ u \in stale
    /\ stale' = stale \ {u}
    /\ UNCHANGED <<account, row, queues, upserts, deletion, handling, appOpen, inflight, sweep, jobVars>>

\* Svix gives up on a delivery that kept failing.
SvixGivesUp(u) ==
    /\ \/ /\ deletion[u] = "sent" /\ u \notin handling
          /\ deletion' = [deletion EXCEPT ![u] = "dropped"]
          /\ UNCHANGED upserts
       \/ /\ u \in upserts
          /\ upserts' = upserts \ {u}
          /\ UNCHANGED deletion
    /\ UNCHANGED <<account, row, queues, handling, appOpen, stale, inflight, sweep, jobVars>>

\* The row outlives JC_DELETION_RECONCILE_SETTLE_DAYS.
Settles(u) ==
    /\ row[u] = "young"
    /\ row' = [row EXCEPT ![u] = "settled"]
    /\ UNCHANGED <<account, queues, webVars, sweep, jobVars>>

-----------------------------------------------------------------------------
(* The web process *)

\* clerk_auth lets a request through (which tokens it lets through is Revocation's subject).
Admit(u) ==
    /\ account[u] = "live" \/ u \in stale
    /\ u \notin inflight
    /\ inflight' = inflight \cup {u}
    /\ UNCHANGED <<account, row, queues, upserts, deletion, handling, appOpen, stale, sweep, jobVars>>

\* run_handoff_if_pending: with something pending it writes the users row, else nothing.
Handoff(u) ==
    /\ u \in inflight
    /\ inflight' = inflight \ {u}
    /\ ensure_user(u) \/ UNCHANGED <<row, queues>>
    /\ UNCHANGED <<account, upserts, deletion, handling, appOpen, stale, sweep, jobVars>>

\* user.created / user.updated; the acknowledgement may be lost.
DeliverUpsert(u) ==
    /\ u \in upserts
    /\ ensure_user(u)
    /\ upserts' \in {upserts, upserts \ {u}}
    /\ UNCHANGED <<account, deletion, handling, appOpen, stale, inflight, sweep, jobVars>>

\* The acknowledgement of a user.deleted delivery arrives at Svix, or is lost.
Acknowledge(u) == deletion' \in {deletion, [deletion EXCEPT ![u] = "acked"]}

\* user.deleted: the row is gone before anything is enqueued.
DeliverDeletion(u) ==
    /\ deletion[u] = "sent"
    /\ u \notin handling
    /\ delete_user(u)
    /\ IF AnalyticsOn THEN handling' = handling \cup {u} /\ UNCHANGED deletion
                      ELSE Acknowledge(u) /\ UNCHANGED handling
    /\ UNCHANGED <<account, upserts, appOpen, stale, inflight, sweep, jobVars>>

\* The purge is deferred, at once or after ensure_open and one retry: 200.
DeliveryDefers(u) ==
    /\ u \in handling
    /\ handling' = handling \ {u}
    /\ purge' = [purge EXCEPT ![u] = "queued"]
    /\ appOpen' = TRUE
    /\ Acknowledge(u)
    /\ UNCHANGED <<account, row, queues, upserts, stale, inflight, sweep, swallowed>>

\* Variant: every failed enqueue is acknowledged, and only an open connector's is logged.
DeliveryDeferFails_always_acked(u) ==
    /\ u \in handling
    /\ handling' = handling \ {u}
    /\ Acknowledge(u)
    /\ \/ appOpen /\ swallowed' = swallowed \cup {u} /\ UNCHANGED appOpen
       \/ ~appOpen /\ appOpen' \in BOOLEAN /\ UNCHANGED swallowed
    /\ UNCHANGED <<account, row, queues, upserts, stale, inflight, sweep, purge>>

\* The enqueue fails.  On an open connector the failure is logged and the delivery
\* acknowledged; after AppNotOpen, ensure_open's or the retry's exception is a 500.
DeliveryDeferFails(u) ==
    /\ u \in handling
    /\ handling' = handling \ {u}
    /\ \/ appOpen /\ Acknowledge(u) /\ swallowed' = swallowed \cup {u} /\ UNCHANGED appOpen
       \/ ~appOpen /\ appOpen' \in BOOLEAN /\ UNCHANGED <<deletion, swallowed>>
    /\ UNCHANGED <<account, row, queues, upserts, stale, inflight, sweep, purge>>

WebCrash ==
    /\ appOpen \/ handling # {} \/ inflight # {}
    /\ handling' = {}
    /\ inflight' = {}
    /\ appOpen' = FALSE
    /\ UNCHANGED <<account, row, queues, upserts, deletion, stale, sweep, jobVars>>

-----------------------------------------------------------------------------
(* run_reconciliation_sweep, on the worker *)

SweepStarts ==
    LET cohort == list_users_pending_deletion_reconciliation IN
    /\ sweep.at = "idle"
    /\ cohort # <<>>
    /\ sweep' = [NoSweep EXCEPT !.at = "looking", !.todo = cohort]
    /\ UNCHANGED <<account, row, queues, webVars, jobVars>>

\* Variant: a failed lookup is read as a 404.
ClerkAnswers_error_is_404(u) ==
    {"rate_limited", "not_found"} \cup {IF OwnInstance /\ account[u] # "gone" THEN "present" ELSE "not_found"}

\* What Clerk's Backend API can answer.  The wrong instance knows none of these ids.
ClerkAnswers(u) ==
    {"rate_limited", "error"} \cup
        {IF OwnInstance /\ account[u] # "gone" THEN "present" ELSE "not_found"}

\* One lookup.  A 429 abandons the candidates not looked at yet.
_lookup_clerk_user(u, answer) ==
    /\ sweep.at = "looking"
    /\ sweep.todo # <<>>
    /\ u = Head(sweep.todo)
    /\ answer \in ClerkAnswers(u)
    /\ sweep' = [sweep EXCEPT !.todo = IF answer = "rate_limited" THEN <<>> ELSE Tail(@),
                              !.looked = Append(@, u),
                              !.outcome[u] = answer]
    /\ UNCHANGED <<account, row, queues, webVars, jobVars>>

NotFound == {i \in DOMAIN sweep.looked : sweep.outcome[sweep.looked[i]] = "not_found"}

\* Variant: trips only if every lookup came back 404.
BreakerTrips_if_all_missing ==
    /\ Len(sweep.looked) >= MinChecked
    /\ Cardinality(NotFound) = Len(sweep.looked)

\* "clerk_misconfigured": most of a large enough sample came back 404.
BreakerTrips ==
    /\ Len(sweep.looked) >= MinChecked
    /\ 2 * Cardinality(NotFound) > Len(sweep.looked)

\* All outcomes are in before the first deletion.  A tripped breaker ends the
\* sweep here, with nothing deleted and nothing stamped.
SweepDecides ==
    /\ sweep.at = "looking"
    /\ sweep.todo = <<>>
    /\ sweep' = IF BreakerTrips THEN NoSweep
                ELSE [sweep EXCEPT !.at = "applying", !.checked = Len(sweep.looked)]
    /\ UNCHANGED <<account, row, queues, webVars, jobVars>>

\* cascade_delete_user, first half: the committed DELETE.
SweepErases(u) ==
    /\ sweep.at = "applying"
    /\ sweep.deferring = {}
    /\ sweep.looked # <<>>
    /\ u = Head(sweep.looked)
    /\ sweep.outcome[u] = "not_found"
    /\ delete_user(u)
    /\ sweep' = [sweep EXCEPT !.looked = Tail(@), !.deleted = @ + 1,
                              !.deferring = IF AnalyticsOn THEN {u} ELSE {}]
    /\ UNCHANGED <<account, webVars, jobVars>>

\* Its second half: the worker's connector is always open, so any failure is logged.
SweepDefers(u) ==
    /\ u \in sweep.deferring
    /\ sweep' = [sweep EXCEPT !.deferring = {}]
    /\ \/ purge' = [purge EXCEPT ![u] = "queued"] /\ UNCHANGED swallowed
       \/ swallowed' = swallowed \cup {u} /\ UNCHANGED purge
    /\ UNCHANGED <<account, row, queues, webVars>>

\* Present, error and rate-limited rows are all stamped.
SweepStamps(u) ==
    /\ sweep.at = "applying"
    /\ sweep.deferring = {}
    /\ sweep.looked # <<>>
    /\ u = Head(sweep.looked)
    /\ sweep.outcome[u] # "not_found"
    /\ mark_deletion_checked(u)
    /\ sweep' = [sweep EXCEPT !.looked = Tail(@)]
    /\ UNCHANGED <<account, webVars, jobVars>>

SweepFinishes ==
    /\ sweep.at = "applying"
    /\ sweep.looked = <<>>
    /\ sweep.deferring = {}
    /\ sweep' = NoSweep
    /\ UNCHANGED <<account, row, queues, webVars, jobVars>>

\* The worker dies.
SweepCrash ==
    /\ sweep.at \notin {"idle", "down"}
    /\ sweep' = [NoSweep EXCEPT !.at = "down"]
    /\ UNCHANGED <<account, row, queues, webVars, jobVars>>

\* The next sweep starts again from the table: nothing else survived.
WorkerRestarts ==
    /\ sweep.at = "down"
    /\ sweep' = NoSweep
    /\ UNCHANGED <<account, row, queues, webVars, jobVars>>

\* purge_posthog_person: done, or failed after its last attempt.
purge_posthog_person(u) ==
    /\ purge[u] = "queued"
    /\ purge' \in {[purge EXCEPT ![u] = "done"], [purge EXCEPT ![u] = "failed"]}
    /\ UNCHANGED <<account, row, queues, webVars, sweep, swallowed>>

-----------------------------------------------------------------------------
Init ==
    /\ account = [u \in Users |-> "none"]
    /\ row = [u \in Users |-> "absent"]
    /\ unchecked = <<>>
    /\ checked = <<>>
    /\ upserts = {}
    /\ deletion = [u \in Users |-> "unsent"]
    /\ handling = {}
    /\ appOpen = FALSE
    /\ stale = {}
    /\ inflight = {}
    /\ sweep = NoSweep
    /\ purge = [u \in Users |-> "none"]
    /\ swallowed = {}

Environment(u) ==
    SignsUp(u) \/ ClerkUpdates(u) \/ Leaves(u) \/ LastTokenDies(u) \/ SvixGivesUp(u) \/ Settles(u)

WebStep(u) ==
    \/ Admit(u) \/ Handoff(u)
    \/ DeliverUpsert(u) \/ DeliverDeletion(u) \/ DeliveryDefers(u) \/ DeliveryDeferFails(u)

LookupStep(u) == \E answer \in Outcomes : _lookup_clerk_user(u, answer)

WorkerStep(u) ==
    \/ LookupStep(u)
    \/ SweepErases(u) \/ SweepDefers(u) \/ SweepStamps(u)
    \/ purge_posthog_person(u)

Next ==
    \/ \E u \in Users : Environment(u) \/ WebStep(u) \/ WorkerStep(u)
    \/ SweepStarts \/ SweepDecides \/ SweepFinishes \/ SweepCrash \/ WorkerRestarts
    \/ WebCrash

Spec == Init /\ [][Next]_vars

\* A lookup that Clerk answers, and a delivery that Svix stops repeating.
LookupAnswered(u) == \E answer \in {"present", "not_found"} : _lookup_clerk_user(u, answer)
UpsertSettles(u) == (DeliverUpsert(u) \/ SvixGivesUp(u)) /\ u \in upserts /\ u \notin upserts'

SweepStep ==
    \/ SweepStarts \/ SweepDecides \/ SweepFinishes \/ WorkerRestarts
    \/ \E u \in Users : LookupStep(u) \/ SweepErases(u) \/ SweepDefers(u) \/ SweepStamps(u)

(***************************************************************************)
(* The cron keeps ticking, a sweep in progress goes on, the worker stops   *)
(* crashing at some point, and Clerk's API does not fail every lookup of a *)
(* user for ever.                                                          *)
(***************************************************************************)
SweepFairness ==
    /\ WF_vars(SweepStep)
    /\ <>[][~SweepCrash]_vars
    /\ \A u \in Users : SF_vars(LookupAnswered(u))

\* Rows age, tokens expire, admitted requests finish and Svix's deliveries end.
WebSettles(u) ==
    /\ WF_vars(LastTokenDies(u)) /\ WF_vars(Settles(u)) /\ WF_vars(Handoff(u))
    /\ SF_vars(UpsertSettles(u))

-----------------------------------------------------------------------------
HasRow == {u \in Users : row[u] # "absent"}

TypeOK ==
    /\ account \in [Users -> {"none", "live", "gone"}]
    /\ row \in [Users -> {"absent", "young", "settled"}]
    /\ ToSet(unchecked) \cup ToSet(checked) = HasRow
    /\ ToSet(unchecked) \cap ToSet(checked) = {}
    /\ upserts \subseteq Users
    /\ deletion \in [Users -> {"unsent", "sent", "acked", "dropped"}]
    /\ handling \subseteq Users
    /\ appOpen \in BOOLEAN
    /\ stale \subseteq Users
    /\ inflight \subseteq Users
    /\ sweep.at \in {"idle", "looking", "applying", "down"}
    /\ sweep.todo \in Seq(Users) /\ sweep.looked \in Seq(Users)
    /\ sweep.outcome \in [Users -> Outcomes]
    /\ sweep.deferring \subseteq Users
    /\ sweep.deleted \in Nat /\ sweep.checked \in Nat
    /\ purge \in [Users -> {"none", "queued", "done", "failed"}]
    /\ swallowed \subseteq Users

(***************************************************************************)
(* The webhook, the sweep, the handoff and their races keep the abstract   *)
(* promise: a row is erased only when Clerk no longer has the account,     *)
(* even though the sweep acts on answers that were given earlier.          *)
(***************************************************************************)
E == INSTANCE Erasure WITH stored <- HasRow
KeepsErasurePromise == E!Spec

\* The sweep is about to be refused: the error that the breaker logs.
Refusing == sweep.at = "looking" /\ sweep.todo = <<>> /\ BreakerTrips

(***************************************************************************)
(* Whatever the order of the deliveries, however many are lost, and even   *)
(* when a late user.updated or an admitted request writes the row again    *)
(* after the cascade, a deleted account ends up with no users row, unless  *)
(* sweeps go on for ever to be refused by the breaker.                     *)
(***************************************************************************)
ErasedForGood ==
    \/ []<>Refusing
    \/ \A u \in Users : <>[](account[u] = "gone" => row[u] = "absent")

\* "so the sweep rotates through the whole table over time": every settled row is
\* looked up again and again.
RotatesOverTime ==
    \A u \in Users : []<>(row[u] # "settled" \/ sweep.outcome[u] # "none")

(***************************************************************************)
(* No settled row is starved, however many lookups fail: every outcome     *)
(* rotates its row to the back. Only refusals without end leave the same   *)
(* head in front of the others, because a refused sweep stamps nothing.    *)
(***************************************************************************)
EveryRowRotates == []<>Refusing \/ RotatesOverTime

(***************************************************************************)
(* The purge of a deletion that Clerk will not deliver again is accounted  *)
(* for: its job was enqueued, or its failure was logged; a delivery that   *)
(* dies between the DELETE and the enqueue is never acknowledged.          *)
(***************************************************************************)
AckedDeletionQueuesPurge ==
    \A u \in Users : AnalyticsOn /\ deletion[u] = "acked" => purge[u] # "none" \/ u \in swallowed

(***************************************************************************)
(* One sweep cannot take most of a large cohort, whatever the 404s come    *)
(* from (a wrong Clerk key, departures): it erases fewer than MinChecked   *)
(* rows, or at most half of the rows that it looked up.                    *)
(***************************************************************************)
BreakerBoundsLoss ==
    sweep.deleted < MinChecked \/ 2 * sweep.deleted <= sweep.checked

\* Only what Clerk confirmed is acted on: a 404 and a user.deleted are for good.
GoneIsFinal ==
    /\ \A u \in Users : sweep.outcome[u] = "not_found" => account[u] = "gone"
    /\ \A u \in Users : deletion[u] # "unsent" \/ u \in handling => account[u] = "gone"

\* Rows, messages and requests belong to users who have had an account.
OnlySignedUpUsers ==
    \A u \in Users : account[u] = "none" =>
        row[u] = "absent" /\ u \notin upserts \cup inflight \cup stale
=============================================================================
