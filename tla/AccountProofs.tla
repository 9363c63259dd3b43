--------------------------- MODULE AccountProofs ----------------------------
(***************************************************************************)
(* Erasure, for any number of users, any row cap and any breaker floor:    *)
(* with a key for its own Clerk instance, the subsystem implements Erasure *)
(* and every acknowledged deletion has had its purge enqueued or its       *)
(* failure logged. Whatever the key, the breaker bounds what one sweep     *)
(* erases. Revocation, for every lifetime, TTL and tolerance that satisfy  *)
(* the assumptions, and a Clerk call of any length: no lookup that works   *)
(* admits a token that a tombstone has promised to deny, whatever became   *)
(* of the row, nor any token once Clerk has reported the deletion.         *)
(***************************************************************************)
EXTENDS UserErasure, Revocation, FiniteSetTheorems, TLAPS

\* The types that the argument needs, without the order of the sweep's queues.
Shapes ==
    /\ account \in [Users -> {"none", "live", "gone"}]
    /\ row \in [Users -> {"absent", "young", "settled"}]
    /\ deletion \in [Users -> {"unsent", "sent", "acked", "dropped"}]
    /\ purge \in [Users -> {"none", "queued", "done", "failed"}]
    /\ DOMAIN sweep = DOMAIN NoSweep
    /\ sweep.outcome \in [Users -> Outcomes]

PromiseInv == Shapes /\ GoneIsFinal /\ OnlySignedUpUsers

\* The initial state satisfies the invariant.
LEMMA InitPromise == Init => PromiseInv
  BY DEF Init, PromiseInv, Shapes, GoneIsFinal, OnlySignedUpUsers, NoSweep, Outcomes

\* Steps of the outside world keep the invariant.
LEMMA EnvironmentStep ==
  ASSUME PromiseInv, NEW u \in Users, Environment(u)
  PROVE  PromiseInv'
  <1> USE DEF PromiseInv, Shapes, GoneIsFinal, OnlySignedUpUsers, jobVars, queues, webVars
  <1>1. CASE SignsUp(u)
    BY <1>1 DEF SignsUp
  <1>2. CASE ClerkUpdates(u)
    BY <1>2 DEF ClerkUpdates
  <1>3. CASE Leaves(u)
    BY <1>3 DEF Leaves
  <1>4. CASE LastTokenDies(u)
    BY <1>4 DEF LastTokenDies
  <1>5. CASE SvixGivesUp(u)
    BY <1>5 DEF SvixGivesUp
  <1>6. CASE Settles(u)
    BY <1>6 DEF Settles
  <1> QED BY <1>1, <1>2, <1>3, <1>4, <1>5, <1>6 DEF Environment

\* Steps of the web process keep the invariant.
LEMMA WebKeepsPromise ==
  ASSUME PromiseInv, NEW u \in Users, WebStep(u)
  PROVE  PromiseInv'
  <1> USE DEF PromiseInv, Shapes, GoneIsFinal, OnlySignedUpUsers, jobVars, queues, webVars
  <1>1. CASE Admit(u)
    BY <1>1 DEF Admit
  <1>2. CASE Handoff(u)
    BY <1>2 DEF Handoff, ensure_user
  <1>3. CASE DeliverUpsert(u)
    BY <1>3 DEF DeliverUpsert, ensure_user
  <1>4. CASE DeliverDeletion(u)
    BY <1>4 DEF DeliverDeletion, delete_user, Acknowledge
  <1>5. CASE DeliveryDefers(u)
    BY <1>5 DEF DeliveryDefers, Acknowledge
  <1>6. CASE DeliveryDeferFails(u)
    BY <1>6 DEF DeliveryDeferFails, Acknowledge
  <1> QED BY <1>1, <1>2, <1>3, <1>4, <1>5, <1>6 DEF WebStep

\* A sweep step that records an answer, or none, keeps the invariant.
LEMMA SweepAnswerKept ==
  ASSUME PromiseInv, NEW u \in Users, NEW answer \in Outcomes, _lookup_clerk_user(u, answer),
         OwnInstance
  PROVE  PromiseInv'
  <1>1. DOMAIN sweep' = DOMAIN sweep /\ sweep'.outcome = [sweep.outcome EXCEPT ![u] = answer]
    BY DEF _lookup_clerk_user, PromiseInv, Shapes, NoSweep
  <1>2. answer = "not_found" => account[u] = "gone"
    BY DEF _lookup_clerk_user, ClerkAnswers
  <1>3. UNCHANGED <<account, row, queues, webVars, jobVars>>
    BY DEF _lookup_clerk_user
  <1>4. Shapes'
    BY <1>1, <1>3 DEF PromiseInv, Shapes, webVars, jobVars
  <1>5. GoneIsFinal' /\ OnlySignedUpUsers'
    BY <1>1, <1>2, <1>3 DEF PromiseInv, Shapes, GoneIsFinal, OnlySignedUpUsers, webVars
  <1> QED BY <1>4, <1>5 DEF PromiseInv

\* A new or abandoned sweep has asked nothing.
LEMMA ResetSweepKept ==
  ASSUME PromiseInv, UNCHANGED <<account, row, queues, webVars, jobVars>>,
         DOMAIN sweep' = DOMAIN NoSweep, sweep'.outcome \in {sweep.outcome, NoSweep.outcome}
  PROVE  PromiseInv'
  <1>1. NoSweep.outcome = [v \in Users |-> "none"]
    BY DEF NoSweep
  <1>2. sweep'.outcome \in [Users -> Outcomes]
    BY <1>1 DEF PromiseInv, Shapes, Outcomes
  <1>3. \A v \in Users : sweep'.outcome[v] = "not_found" => account[v] = "gone"
    BY <1>1 DEF PromiseInv, GoneIsFinal
  <1> QED
    BY <1>2, <1>3 DEF PromiseInv, Shapes, GoneIsFinal, OnlySignedUpUsers, webVars, jobVars

\* Steps of the worker for one user keep the invariant.
LEMMA WorkerKeepsPromise ==
  ASSUME PromiseInv, NEW u \in Users, WorkerStep(u), OwnInstance
  PROVE  PromiseInv'
  <1> USE DEF PromiseInv, Shapes, GoneIsFinal, OnlySignedUpUsers, jobVars, queues, webVars
  <1>1. CASE LookupStep(u)
    BY <1>1, SweepAnswerKept DEF LookupStep
  <1>2. CASE SweepErases(u)
    <2>1. DOMAIN sweep' = DOMAIN NoSweep /\ sweep'.outcome = sweep.outcome
      BY <1>2 DEF SweepErases, NoSweep
    <2> QED BY <1>2, <2>1 DEF SweepErases, delete_user
  <1>3. CASE SweepDefers(u)
    <2>1. DOMAIN sweep' = DOMAIN NoSweep /\ sweep'.outcome = sweep.outcome
      BY <1>3 DEF SweepDefers, NoSweep
    <2> QED BY <1>3, <2>1 DEF SweepDefers
  <1>4. CASE SweepStamps(u)
    <2>1. DOMAIN sweep' = DOMAIN NoSweep /\ sweep'.outcome = sweep.outcome
      BY <1>4 DEF SweepStamps, NoSweep
    <2> QED BY <1>4, <2>1 DEF SweepStamps, mark_deletion_checked
  <1>5. CASE purge_posthog_person(u)
    BY <1>5 DEF purge_posthog_person
  <1> QED BY <1>1, <1>2, <1>3, <1>4, <1>5 DEF WorkerStep

\* Every step keeps the invariant.
LEMMA StepPromise == OwnInstance /\ PromiseInv /\ [Next]_vars => PromiseInv'
  <1> SUFFICES ASSUME OwnInstance, PromiseInv, [Next]_vars PROVE PromiseInv'
    OBVIOUS
  <1>1. CASE \E u \in Users : Environment(u) \/ WebStep(u) \/ WorkerStep(u)
    BY <1>1, EnvironmentStep, WebKeepsPromise, WorkerKeepsPromise
  <1>2. CASE SweepStarts
    <2>1. \E cohort : sweep' = [NoSweep EXCEPT !.at = "looking", !.todo = cohort]
      BY <1>2 DEF SweepStarts
    <2>2. DOMAIN sweep' = DOMAIN NoSweep /\ sweep'.outcome = NoSweep.outcome
      BY <2>1 DEF NoSweep
    <2> QED BY <1>2, <2>2, ResetSweepKept DEF SweepStarts
  <1>3. CASE SweepDecides
    <2>1. DOMAIN sweep' = DOMAIN NoSweep /\ sweep'.outcome \in {sweep.outcome, NoSweep.outcome}
      BY <1>3 DEF SweepDecides, PromiseInv, Shapes, NoSweep
    <2> QED BY <1>3, <2>1, ResetSweepKept DEF SweepDecides
  <1>4. CASE SweepFinishes \/ WorkerRestarts
    BY <1>4, ResetSweepKept DEF SweepFinishes, WorkerRestarts
  <1>5. CASE SweepCrash
    <2>1. DOMAIN sweep' = DOMAIN NoSweep /\ sweep'.outcome = NoSweep.outcome
      BY <1>5 DEF SweepCrash, NoSweep
    <2> QED BY <1>5, <2>1, ResetSweepKept DEF SweepCrash
  <1>6. CASE WebCrash
    BY <1>6
    DEF WebCrash, PromiseInv, Shapes, GoneIsFinal, OnlySignedUpUsers, jobVars, queues
  <1>7. CASE UNCHANGED vars
    BY <1>7
    DEF vars, PromiseInv, Shapes, GoneIsFinal, OnlySignedUpUsers, jobVars, queues, webVars
  <1> QED BY <1>1, <1>2, <1>3, <1>4, <1>5, <1>6, <1>7 DEF Next

\* With its own instance's key, the program acts only on deletions that are real.
THEOREM PromiseHolds == OwnInstance => (Spec => []PromiseInv)
  <1> SUFFICES ASSUME OwnInstance PROVE Spec => []PromiseInv
    OBVIOUS
  <1>1. PromiseInv /\ [Next]_vars => PromiseInv'
    BY StepPromise
  <1> QED BY <1>1, InitPromise, PTL DEF Spec

-----------------------------------------------------------------------------
\* Writing or refreshing a row is a Store, or nothing, for the abstract table.
LEMMA EnsureStores ==
  ASSUME PromiseInv, NEW u \in Users, account[u] # "none", UNCHANGED account,
         ensure_user(u) \/ UNCHANGED <<row, queues>>
  PROVE  E!Store(u) \/ UNCHANGED E!vars
  BY DEF ensure_user, E!Store, E!vars, HasRow, PromiseInv, Shapes

\* Deleting the row of an account that is gone is an Erase.
LEMMA DeleteErases ==
  ASSUME PromiseInv, NEW u \in Users, account[u] = "gone", UNCHANGED account, delete_user(u)
  PROVE  E!Erase(u)
  BY DEF delete_user, E!Erase, HasRow, PromiseInv, Shapes

\* Every step is a step of Erasure, or leaves its state alone.
LEMMA StepRefines == OwnInstance /\ PromiseInv /\ [Next]_vars => [E!Next]_(E!vars)
  <1> SUFFICES ASSUME OwnInstance, PromiseInv, [Next]_vars PROVE E!Next \/ UNCHANGED E!vars
    OBVIOUS
  <1>1. ASSUME NEW u \in Users, Environment(u) PROVE E!Next \/ UNCHANGED E!vars
    <2>1. CASE SignsUp(u)
      BY <2>1 DEF SignsUp, E!Next, E!SignsUp, HasRow
    <2>2. CASE Leaves(u)
      BY <2>2 DEF Leaves, E!Next, E!Leaves, HasRow
    <2>3. CASE ClerkUpdates(u) \/ LastTokenDies(u) \/ SvixGivesUp(u)
      BY <2>3 DEF ClerkUpdates, LastTokenDies, SvixGivesUp, E!vars, HasRow
    <2>4. CASE Settles(u)
      BY <2>4 DEF Settles, E!vars, HasRow, PromiseInv, Shapes
    <2> QED BY <1>1, <2>1, <2>2, <2>3, <2>4 DEF Environment
  <1>2. ASSUME NEW u \in Users, WebStep(u) PROVE E!Next \/ UNCHANGED E!vars
    <2>1. CASE Handoff(u) \/ DeliverUpsert(u)
      <3>1. account[u] # "none"
        BY <2>1 DEF Handoff, DeliverUpsert, PromiseInv, OnlySignedUpUsers
      <3> QED BY <2>1, <3>1, EnsureStores DEF Handoff, DeliverUpsert, E!Next
    <2>2. CASE DeliverDeletion(u)
      <3>1. account[u] = "gone"
        BY <2>2 DEF DeliverDeletion, PromiseInv, GoneIsFinal
      <3> QED BY <2>2, <3>1, DeleteErases DEF DeliverDeletion, E!Next
    <2>3. CASE Admit(u) \/ DeliveryDefers(u) \/ DeliveryDeferFails(u)
      BY <2>3 DEF Admit, DeliveryDefers, DeliveryDeferFails, E!vars, HasRow
    <2> QED BY <1>2, <2>1, <2>2, <2>3 DEF WebStep
  <1>3. ASSUME NEW u \in Users, WorkerStep(u) PROVE E!Next \/ UNCHANGED E!vars
    <2>1. CASE SweepErases(u)
      <3>1. account[u] = "gone"
        BY <2>1 DEF SweepErases, PromiseInv, GoneIsFinal
      <3> QED BY <2>1, <3>1, DeleteErases DEF SweepErases, E!Next
    <2>2. CASE LookupStep(u) \/ SweepDefers(u) \/ SweepStamps(u) \/ purge_posthog_person(u)
      BY <2>2
      DEF LookupStep, _lookup_clerk_user, SweepDefers, SweepStamps, mark_deletion_checked,
          purge_posthog_person, E!vars, HasRow
    <2> QED BY <1>3, <2>1, <2>2 DEF WorkerStep
  <1>4. CASE SweepStarts \/ SweepDecides \/ SweepFinishes \/ SweepCrash \/ WorkerRestarts \/ WebCrash
    BY <1>4
    DEF SweepStarts, SweepDecides, SweepFinishes, SweepCrash, WorkerRestarts, WebCrash, E!vars, HasRow
  <1>5. CASE UNCHANGED vars
    BY <1>5 DEF vars, E!vars, HasRow
  <1> QED BY <1>1, <1>2, <1>3, <1>4, <1>5 DEF Next

\* With its own instance's key the subsystem implements Erasure: no row is erased
\* while its account exists, and none is written for somebody who never had one.
THEOREM ErasureRefined == OwnInstance => (Spec => KeepsErasurePromise)
  <1> SUFFICES ASSUME OwnInstance PROVE Spec => KeepsErasurePromise
    OBVIOUS
  <1>1. Init => E!Init
    BY DEF Init, E!Init, HasRow
  <1>2. PromiseInv /\ [Next]_vars => [E!Next]_(E!vars)
    BY StepRefines
  <1>3. Spec => []PromiseInv
    BY PromiseHolds
  <1> QED BY <1>1, <1>2, <1>3, PTL DEF Spec, E!Spec, KeepsErasurePromise

-----------------------------------------------------------------------------
\* The jobs and messages that AckedDeletionQueuesPurge relates, with their types.
PurgeInv ==
    /\ deletion \in [Users -> {"unsent", "sent", "acked", "dropped"}]
    /\ purge \in [Users -> {"none", "queued", "done", "failed"}]
    /\ AckedDeletionQueuesPurge

\* Nothing acknowledges a deletion without enqueueing its purge or logging why not,
\* and no step forgets a job.
LEMMA StepPurge == PurgeInv /\ [Next]_vars => PurgeInv'
  <1> SUFFICES ASSUME PurgeInv, [Next]_vars PROVE PurgeInv'
    OBVIOUS
  <1> USE DEF PurgeInv, AckedDeletionQueuesPurge, webVars, jobVars
  <1>1. ASSUME NEW u \in Users, DeliverDeletion(u) PROVE PurgeInv'
    BY <1>1, CapAssumption DEF DeliverDeletion, Acknowledge
  <1>2. ASSUME NEW u \in Users, DeliveryDefers(u) PROVE PurgeInv'
    BY <1>2 DEF DeliveryDefers, Acknowledge
  <1>3. ASSUME NEW u \in Users, DeliveryDeferFails(u) PROVE PurgeInv'
    BY <1>3 DEF DeliveryDeferFails, Acknowledge
  <1>4. ASSUME NEW u \in Users, Admit(u) \/ Handoff(u) \/ DeliverUpsert(u) PROVE PurgeInv'
    BY <1>4 DEF Admit, Handoff, DeliverUpsert
  <1>5. ASSUME NEW u \in Users, Environment(u) PROVE PurgeInv'
    BY <1>5 DEF Environment, SignsUp, ClerkUpdates, Leaves, LastTokenDies, SvixGivesUp, Settles
  <1>6. ASSUME NEW u \in Users, WorkerStep(u) PROVE PurgeInv'
    BY <1>6
    DEF WorkerStep, LookupStep, _lookup_clerk_user, SweepErases, SweepDefers, SweepStamps,
        purge_posthog_person
  <1>7. CASE SweepStarts \/ SweepDecides \/ SweepFinishes \/ SweepCrash \/ WorkerRestarts \/ WebCrash
    BY <1>7 DEF SweepStarts, SweepDecides, SweepFinishes, SweepCrash, WorkerRestarts, WebCrash
  <1>8. CASE UNCHANGED vars
    BY <1>8 DEF vars
  <1> QED BY <1>1, <1>2, <1>3, <1>4, <1>5, <1>6, <1>7, <1>8 DEF Next, WebStep

\* Every acknowledged deletion has its purge enqueued, or the failure logged.
THEOREM PurgeAccounted == Spec => []AckedDeletionQueuesPurge
  <1>1. Init => PurgeInv
    BY DEF Init, PurgeInv, AckedDeletionQueuesPurge
  <1>2. PurgeInv => AckedDeletionQueuesPurge
    BY DEF PurgeInv
  <1> QED BY <1>1, <1>2, StepPurge, PTL DEF Spec

-----------------------------------------------------------------------------
\* The places of a sequence that hold an element of T.
Hits(s, T) == {i \in DOMAIN s : s[i] \in T}

\* Their number, as the elements are taken one by one from the front.
LEMMA CountOfTail ==
  ASSUME NEW S, NEW s \in Seq(S), s # <<>>, NEW T
  PROVE  /\ IsFiniteSet(Hits(s, T)) /\ IsFiniteSet(Hits(Tail(s), T))
         /\ Cardinality(Hits(s, T)) = Cardinality(Hits(Tail(s), T)) + IF Head(s) \in T THEN 1 ELSE 0
  <1> DEFINE In(t) == Hits(t, T)
             Next1 == [i \in In(Tail(s)) |-> i + 1]
  <1>1. /\ Tail(s) \in Seq(S) /\ Len(Tail(s)) = Len(s) - 1 /\ Len(s) \in Nat \ {0}
        /\ DOMAIN s = 1 .. Len(s) /\ DOMAIN Tail(s) = 1 .. Len(s) - 1
        /\ Head(s) = s[1]
        /\ \A i \in 1 .. Len(s) - 1 : Tail(s)[i] = s[i + 1]
    OBVIOUS
  <1>2. IsFiniteSet(In(s)) /\ IsFiniteSet(In(Tail(s)))
    <2>1. IsFiniteSet(1 .. Len(s)) /\ IsFiniteSet(1 .. Len(s) - 1)
      BY <1>1, FS_Interval
    <2>2. In(s) \subseteq 1 .. Len(s) /\ In(Tail(s)) \subseteq 1 .. Len(s) - 1
      BY <1>1 DEF Hits
    <2> QED BY <2>1, <2>2, FS_Subset
  <1>3. Next1 \in Bijection(In(Tail(s)), In(s) \ {1})
    <2>1. \A i \in In(Tail(s)) : i \in 1 .. Len(s) - 1 /\ s[i + 1] \in T
      BY <1>1 DEF Hits
    <2>2. \A i \in In(s) \ {1} : i \in 2 .. Len(s) /\ i - 1 \in In(Tail(s)) /\ Next1[i - 1] = i
      <3> TAKE i \in In(s) \ {1}
      <3>1. i \in 2 .. Len(s) /\ i - 1 \in 1 .. Len(s) - 1
        BY <1>1 DEF Hits
      <3>2. Tail(s)[i - 1] = s[i]
        BY <1>1, <3>1
      <3> QED BY <1>1, <3>1, <3>2 DEF Hits
    <2>3. Next1 \in [In(Tail(s)) -> In(s) \ {1}]
      BY <1>1, <2>1 DEF Hits
    <2>4. \A i, k \in In(Tail(s)) : Next1[i] = Next1[k] => i = k
      BY <2>1
    <2> HIDE DEF Next1
    <2>5. Next1 \in Injection(In(Tail(s)), In(s) \ {1})
      BY <2>3, <2>4 DEF Injection, IsInjective
    <2>6. Next1 \in Surjection(In(Tail(s)), In(s) \ {1})
      BY <2>2, <2>3 DEF Surjection
    <2> QED BY <2>5, <2>6 DEF Bijection
  <1>4. Cardinality(In(s) \ {1}) = Cardinality(In(Tail(s)))
    BY <1>2, <1>3, FS_Bijection DEF ExistsBijection
  <1>5. Cardinality(In(s) \ {1}) = IF 1 \in In(s) THEN Cardinality(In(s)) - 1 ELSE Cardinality(In(s))
    BY <1>2, FS_RemoveElement
  <1>6. 1 \in In(s) <=> Head(s) \in T
    BY <1>1 DEF Hits
  <1>7. Cardinality(In(s)) \in Nat
    BY <1>2, FS_CardinalityType
  <1> QED BY <1>2, <1>4, <1>5, <1>6, <1>7

-----------------------------------------------------------------------------
\* How much of the cohort a sweep may erase: its share n of the rows looked up is small.
Bearable(n) == n <= sweep.checked /\ (sweep.checked < MinChecked \/ 2 * n <= sweep.checked)

(***************************************************************************)
(* What the breaker let through is what is erased: the rows erased so far  *)
(* and the 404s still to be acted on are together no more than the breaker *)
(* accepted, because the outcomes do not change once the sweep applies     *)
(* them and every erased row leaves the list.                              *)
(***************************************************************************)
LossInv ==
    /\ DOMAIN sweep = DOMAIN NoSweep
    /\ sweep.looked \in Seq(Users)
    /\ sweep.outcome \in [Users -> Outcomes]
    /\ sweep.deleted \in Nat /\ sweep.checked \in Nat
    /\ IF sweep.at = "applying" THEN Bearable(sweep.deleted + Cardinality(NotFound))
                                ELSE sweep.deleted = 0

Missing == {u \in Users : sweep.outcome[u] = "not_found"}

\* NotFound is finite, at most as large as the list, and counted by CountOfTail.
LEMMA NotFoundCounted ==
  ASSUME LossInv
  PROVE  /\ NotFound = Hits(sweep.looked, Missing)
         /\ Cardinality(NotFound) \in 0 .. Len(sweep.looked)
  <1>1. /\ sweep.looked \in Seq(Users) /\ DOMAIN sweep.looked = 1 .. Len(sweep.looked)
        /\ Len(sweep.looked) \in Nat
        /\ \A i \in DOMAIN sweep.looked : sweep.looked[i] \in Users
    BY DEF LossInv
  <1>2. NotFound = Hits(sweep.looked, Missing)
    BY <1>1 DEF NotFound, Hits, Missing
  <1>3. IsFiniteSet(1 .. Len(sweep.looked)) /\ Cardinality(1 .. Len(sweep.looked)) = Len(sweep.looked)
    BY <1>1, FS_Interval
  <1>4. NotFound \subseteq 1 .. Len(sweep.looked)
    BY <1>1 DEF NotFound
  <1>5. IsFiniteSet(NotFound) /\ Cardinality(NotFound) <= Len(sweep.looked)
    BY <1>3, <1>4, FS_Subset
  <1>6. Cardinality(NotFound) \in Nat
    BY <1>5, FS_CardinalityType
  <1> QED BY <1>1, <1>2, <1>5, <1>6

\* A sweep that has just begun, ended or died has erased nothing.
LEMMA FreshSweepLoses ==
  ASSUME DOMAIN sweep' = DOMAIN NoSweep, sweep'.at # "applying",
         sweep'.looked = NoSweep.looked, sweep'.outcome = NoSweep.outcome,
         sweep'.deleted = NoSweep.deleted, sweep'.checked = NoSweep.checked
  PROVE  LossInv'
  <1>1. /\ NoSweep.looked = <<>> /\ NoSweep.deleted = 0 /\ NoSweep.checked = 0
        /\ NoSweep.outcome \in [Users -> Outcomes]
    BY DEF NoSweep, Outcomes
  <1>2. NoSweep' = NoSweep
    BY DEF NoSweep
  <1> QED BY <1>1, <1>2 DEF LossInv

\* The decision: the breaker did not trip.
LEMMA DecisionBounds ==
  ASSUME LossInv, SweepDecides
  PROVE  LossInv'
  <1>1. CASE BreakerTrips
    BY <1>1, FreshSweepLoses DEF SweepDecides, NoSweep
  <1>2. CASE ~BreakerTrips
    <2>1. sweep' = [sweep EXCEPT !.at = "applying", !.checked = Len(sweep.looked)]
      BY <1>2 DEF SweepDecides
    <2>2. /\ DOMAIN sweep' = DOMAIN sweep /\ sweep'.at = "applying"
          /\ sweep'.checked = Len(sweep.looked) /\ sweep'.looked = sweep.looked
          /\ sweep'.outcome = sweep.outcome /\ sweep'.deleted = sweep.deleted
      BY <2>1 DEF LossInv, NoSweep
    <2>3. sweep.deleted = 0
      BY DEF LossInv, SweepDecides
    <2>4. NotFound' = NotFound
      BY <2>2 DEF NotFound
    <2>5. Cardinality(NotFound) \in 0 .. Len(sweep.looked) /\ Len(sweep.looked) \in Nat
      BY NotFoundCounted DEF LossInv
    <2>6. Len(sweep.looked) < MinChecked \/ 2 * Cardinality(NotFound) <= Len(sweep.looked)
      BY <1>2, <2>5, CapAssumption DEF BreakerTrips
    <2>7. Bearable(sweep.deleted + Cardinality(NotFound))'
      BY <2>2, <2>3, <2>4, <2>5, <2>6 DEF Bearable
    <2> QED BY <2>2, <2>5, <2>7 DEF LossInv, NoSweep
  <1> QED BY <1>1, <1>2

\* One candidate is acted on: it leaves the list, and is counted as erased if its answer was a 404.
LEMMA AppliedStepBounds ==
  ASSUME LossInv, sweep.at = "applying", sweep.looked # <<>>,
         NEW n \in {0, 1}, n = (IF Head(sweep.looked) \in Missing THEN 1 ELSE 0),
         DOMAIN sweep' = DOMAIN sweep, sweep'.at = sweep.at, sweep'.checked = sweep.checked,
         sweep'.outcome = sweep.outcome, sweep'.looked = Tail(sweep.looked),
         sweep'.deleted = sweep.deleted + n
  PROVE  LossInv'
  <1>1. sweep'.looked \in Seq(Users) /\ sweep'.deleted \in Nat /\ sweep'.checked \in Nat
    BY DEF LossInv
  <1>2. NotFound = Hits(sweep.looked, Missing) /\ Cardinality(NotFound) \in Nat
    BY NotFoundCounted
  <1>3. NotFound' = Hits(Tail(sweep.looked), Missing)
    BY <1>1 DEF NotFound, Hits, Missing
  <1>4. /\ Cardinality(NotFound) = Cardinality(NotFound') + n
        /\ IsFiniteSet(NotFound')
    BY <1>2, <1>3, CountOfTail DEF LossInv
  <1>5. Cardinality(NotFound') \in Nat
    BY <1>4, FS_CardinalityType
  <1>6. sweep.deleted + Cardinality(NotFound) = sweep'.deleted + Cardinality(NotFound')
    BY <1>2, <1>4, <1>5 DEF LossInv
  <1>7. Bearable(sweep.deleted + Cardinality(NotFound))'
    BY <1>6 DEF LossInv, Bearable
  <1> QED BY <1>1, <1>7 DEF LossInv, NoSweep

\* Every step keeps what the breaker let through.
LEMMA StepLoss == LossInv /\ [Next]_vars => LossInv'
  <1> SUFFICES ASSUME LossInv, [Next]_vars PROVE LossInv'
    OBVIOUS
  <1>1. ASSUME UNCHANGED sweep PROVE LossInv'
    <2>1. NotFound' = NotFound
      BY <1>1 DEF NotFound
    <2> QED BY <1>1, <2>1 DEF LossInv, Bearable, NoSweep
  <1>2. ASSUME NEW u \in Users, Environment(u) \/ WebStep(u) PROVE LossInv'
    BY <1>1, <1>2
    DEF Environment, SignsUp, ClerkUpdates, Leaves, LastTokenDies, SvixGivesUp, Settles, WebStep,
        Admit, Handoff, DeliverUpsert, DeliverDeletion, DeliveryDefers, DeliveryDeferFails
  <1>3. ASSUME NEW u \in Users, NEW answer \in Outcomes, _lookup_clerk_user(u, answer) PROVE LossInv'
    <2>1. /\ DOMAIN sweep' = DOMAIN sweep /\ sweep'.at = sweep.at /\ sweep.at = "looking"
          /\ sweep'.checked = sweep.checked /\ sweep'.deleted = sweep.deleted
          /\ sweep'.looked = Append(sweep.looked, u)
          /\ sweep'.outcome = [sweep.outcome EXCEPT ![u] = answer]
      BY <1>3 DEF _lookup_clerk_user, LossInv, NoSweep
    <2>2. sweep'.looked \in Seq(Users) /\ sweep'.outcome \in [Users -> Outcomes]
      BY <2>1 DEF LossInv
    <2> QED BY <2>1, <2>2 DEF LossInv, NoSweep
  <1>4. ASSUME NEW u \in Users, SweepErases(u) PROVE LossInv'
    <2>1. /\ DOMAIN sweep' = DOMAIN sweep /\ sweep'.at = sweep.at /\ sweep'.checked = sweep.checked
          /\ sweep'.outcome = sweep.outcome /\ sweep'.looked = Tail(sweep.looked)
          /\ sweep'.deleted = sweep.deleted + 1
      BY <1>4 DEF SweepErases, LossInv, NoSweep
    <2>2. sweep.at = "applying" /\ sweep.looked # <<>> /\ Head(sweep.looked) \in Missing
      BY <1>4 DEF SweepErases, Missing
    <2> QED BY <2>1, <2>2, AppliedStepBounds
  <1>5. ASSUME NEW u \in Users, SweepStamps(u) PROVE LossInv'
    <2>1. /\ DOMAIN sweep' = DOMAIN sweep /\ sweep'.at = sweep.at /\ sweep'.checked = sweep.checked
          /\ sweep'.outcome = sweep.outcome /\ sweep'.looked = Tail(sweep.looked)
          /\ sweep'.deleted = sweep.deleted + 0
      BY <1>5 DEF SweepStamps, LossInv, NoSweep
    <2>2. sweep.at = "applying" /\ sweep.looked # <<>> /\ Head(sweep.looked) \notin Missing
      BY <1>5 DEF SweepStamps, Missing
    <2> QED BY <2>1, <2>2, AppliedStepBounds
  <1>6. ASSUME NEW u \in Users, SweepDefers(u) PROVE LossInv'
    <2>1. /\ DOMAIN sweep' = DOMAIN sweep /\ sweep'.at = sweep.at /\ sweep'.checked = sweep.checked
          /\ sweep'.outcome = sweep.outcome /\ sweep'.looked = sweep.looked
          /\ sweep'.deleted = sweep.deleted
      BY <1>6 DEF SweepDefers, LossInv, NoSweep
    <2>2. NotFound' = NotFound
      BY <2>1 DEF NotFound
    <2> QED BY <2>1, <2>2 DEF LossInv, Bearable, NoSweep
  <1>7. ASSUME NEW u \in Users, purge_posthog_person(u) PROVE LossInv'
    BY <1>1, <1>7 DEF purge_posthog_person
  <1>8. CASE SweepStarts
    <2>1. \E cohort : sweep' = [NoSweep EXCEPT !.at = "looking", !.todo = cohort]
      BY <1>8 DEF SweepStarts
    <2> QED BY <2>1, FreshSweepLoses DEF NoSweep
  <1>9. CASE SweepFinishes \/ SweepCrash \/ WorkerRestarts
    <2>1. sweep' = NoSweep \/ sweep' = [NoSweep EXCEPT !.at = "down"]
      BY <1>9 DEF SweepFinishes, SweepCrash, WorkerRestarts
    <2> QED BY <2>1, FreshSweepLoses DEF NoSweep
  <1>10. CASE WebCrash \/ UNCHANGED vars
    BY <1>1, <1>10 DEF WebCrash, vars
  <1> QED
    BY <1>2, <1>3, <1>4, <1>5, <1>6, <1>7, <1>8, <1>9, <1>10, DecisionBounds
    DEF Next, WorkerStep, LookupStep

(***************************************************************************)
(* For any number of users, whichever Clerk instance the key names: a      *)
(* sweep never erases as many as MinChecked rows and more than half of     *)
(* those it looked up.                                                     *)
(***************************************************************************)
THEOREM LossBounded == Spec => []BreakerBoundsLoss
  <1>1. Init => LossInv
    BY FreshSweepLoses DEF Init, LossInv, NoSweep, Outcomes
  <1>2. LossInv => BreakerBoundsLoss
    <2> SUFFICES ASSUME LossInv PROVE BreakerBoundsLoss
      OBVIOUS
    <2>1. Cardinality(NotFound) \in Nat
      BY NotFoundCounted DEF LossInv
    <2>2. CASE sweep.at = "applying"
      BY <2>1, <2>2, CapAssumption DEF LossInv, Bearable, BreakerBoundsLoss
    <2>3. CASE sweep.at # "applying"
      BY <2>3, CapAssumption DEF LossInv, BreakerBoundsLoss
    <2> QED BY <2>2, <2>3
  <1> QED BY <1>1, <1>2, StepLoss, PTL DEF Spec

-----------------------------------------------------------------------------
(* Revocation *)

USE DEF Idle, RequestStates, Tombstones, history

\* The initial state satisfies the inductive invariant.
LEMMA TokenInitInv == TokenInit => TokenInv
  <1> SUFFICES ASSUME TokenInit PROVE TokenInv
    OBVIOUS
  <1>1. TokenTypeOK
    <2>1. Idle \in RequestStates
      OBVIOUS
    <2>2. request \in [Requests -> RequestStates]
      BY <2>1 DEF TokenInit
    <2>3. deniedUpTo \in Int /\ now \in Nat
      BY TimesAssumption DEF TokenInit
    <2> QED BY <2>2, <2>3 DEF TokenInit, TokenTypeOK
  <1> QED
    BY <1>1, TimesAssumption
    DEF TokenInit, TokenInv, IdleSlotsClear, TokensNotFromFuture, TokensVerify, RowKeepsPromise, NotifiedDeniesAll

\* Stamping a tombstone covers every outstanding token and keeps the invariant's
\* clauses about rows, whether a request or a webhook does it.
LEMMA StampCovers ==
  ASSUME TokenInv, revoke_subject
  PROVE  /\ tombstone' \in Tombstones
         /\ deniedUpTo' \in Int
         /\ RowKeepsPromise'
         /\ \A iat \in tokens : iat <= deniedUpTo'
  <1>1. now \in Nat /\ TTL \in Nat /\ Tolerance \in Nat /\ ClockSkew \in Nat
    BY TimesAssumption DEF TokenInv, TokenTypeOK
  <1>2. tombstone' = [revoked_at |-> now, expires_at |-> now + TTL] /\ deniedUpTo' = now + Tolerance
    BY DEF revoke_subject
  <1>3. tombstone' # NoTombstone
    BY <1>1, <1>2, NoTombstoneAssumption
  <1>4. ASSUME NEW iat \in tokens PROVE iat <= deniedUpTo'
    <2>1. iat \in Nat /\ iat <= now + ClockSkew
      BY DEF TokenInv, TokenTypeOK, TokensNotFromFuture
    <2> QED BY <1>1, <1>2, <2>1, ToleranceCoversSkew
  <1> QED BY <1>1, <1>2, <1>3, <1>4 DEF RowKeepsPromise

\* A token that the latest stamp denies outlives neither the row nor its life.
LEMMA DeniedHasRow ==
  ASSUME TokenInv, NEW iat \in tokens, iat <= deniedUpTo
  PROVE  /\ tombstone # NoTombstone
         /\ tombstone.expires_at > now
         /\ iat <= tombstone.revoked_at + Tolerance
  <1>1. iat \in Nat /\ now \in Nat /\ deniedUpTo \in Int /\ now < iat + JwtLife
    BY DEF TokenInv, TokenTypeOK, TokensVerify
  <1>2. tombstone # NoTombstone
    BY <1>1, TimesAssumption DEF TokenInv, RowKeepsPromise
  <1>3. tombstone.revoked_at \in Nat
    BY <1>2 DEF TokenInv, TokenTypeOK
  <1>4. deniedUpTo = tombstone.revoked_at + Tolerance /\ tombstone.expires_at = tombstone.revoked_at + TTL
    BY <1>2 DEF TokenInv, RowKeepsPromise
  <1> QED BY <1>1, <1>2, <1>3, <1>4, TimesAssumption, TTLOutlivesTokens

\* A step that touches neither the clock, nor Clerk, nor the row keeps the invariant.
LEMMA RequestMoves ==
  ASSUME TokenInv, UNCHANGED <<now, identity, tombstone, tokens, history>>,
         request' \in [Requests -> RequestStates], IdleSlotsClear'
  PROVE  TokenInv'
  BY DEF TokenInv, TokenTypeOK, TokensNotFromFuture, TokensVerify, RowKeepsPromise, NotifiedDeniesAll

\* Every step of the program, of Clerk and of the clock keeps the invariant.
LEMMA TokenStepInv == TokenInv /\ [TokenNext]_tokenVars => TokenInv'
  <1> SUFFICES ASSUME TokenInv, [TokenNext]_tokenVars PROVE TokenInv'
    OBVIOUS
  <1> USE TimesAssumption, NoTombstoneAssumption
  <1>1. CASE Tick
    <2>1. now' = now + 1 /\ now \in Nat /\ tokens' \subseteq tokens /\ tokens \subseteq Nat
      BY <1>1 DEF Tick, TokenInv, TokenTypeOK
    <2>2. UNCHANGED <<identity, tombstone, request, notified, deniedUpTo>>
      BY <1>1 DEF Tick
    <2>3. TokenTypeOK' /\ IdleSlotsClear'
      BY <2>1, <2>2 DEF TokenInv, TokenTypeOK, IdleSlotsClear
    <2>4. TokensVerify'
      BY <1>1 DEF Tick, TokensVerify
    <2>5. TokensNotFromFuture'
      BY <2>1 DEF TokenInv, TokensNotFromFuture
    <2>6. RowKeepsPromise'
      BY <2>1, <2>2 DEF TokenInv, TokenTypeOK, RowKeepsPromise
    <2>7. NotifiedDeniesAll'
      BY <2>1, <2>2 DEF TokenInv, NotifiedDeniesAll
    <2> QED BY <2>3, <2>4, <2>5, <2>6, <2>7 DEF TokenInv
  <1>2. ASSUME NEW iat \in MintTimes, ClerkMints(iat) PROVE TokenInv'
    <2>1. iat \in Nat /\ iat <= now + ClockSkew /\ now \in Nat
      BY <1>2 DEF MintTimes, TokenInv, TokenTypeOK, TokensNotFromFuture
    <2>2. identity = "live" /\ ~notified
      BY <1>2 DEF ClerkMints, TokenInv, NotifiedDeniesAll
    <2> QED
      BY <1>2, <2>1, <2>2
      DEF ClerkMints, TokenInv, TokenTypeOK, IdleSlotsClear, TokensNotFromFuture,
          TokensVerify, RowKeepsPromise, NotifiedDeniesAll
  <1>3. CASE PortalDeletes
    BY <1>3
    DEF PortalDeletes, TokenInv, TokenTypeOK, IdleSlotsClear, TokensNotFromFuture,
        TokensVerify, RowKeepsPromise, NotifiedDeniesAll
  <1>4. CASE clerk_webhook_revokes
    <2>1. revoke_subject /\ identity # "live" /\ notified' = TRUE /\ UNCHANGED <<now, identity, tokens, request>>
      BY <1>4 DEF clerk_webhook_revokes
    <2> QED
      BY <2>1, StampCovers
      DEF TokenInv, TokenTypeOK, IdleSlotsClear, TokensNotFromFuture, TokensVerify, NotifiedDeniesAll
  <1>5. CASE prune_expired_revocations
    <2>1. tombstone' = NoTombstone /\ tombstone # NoTombstone /\ tombstone.expires_at <= now
      BY <1>5 DEF prune_expired_revocations
    <2>2. UNCHANGED <<now, identity, tokens, request, notified, deniedUpTo>>
      BY <1>5 DEF prune_expired_revocations
    <2>3. tombstone.revoked_at \in Nat /\ now \in Nat
      BY <2>1 DEF TokenInv, TokenTypeOK
    <2>4. deniedUpTo + JwtLife <= now
      BY <2>1, <2>3, TTLOutlivesTokens DEF TokenInv, RowKeepsPromise
    <2> QED
      BY <2>1, <2>2, <2>4
      DEF TokenInv, TokenTypeOK, IdleSlotsClear, TokensNotFromFuture, TokensVerify, RowKeepsPromise, NotifiedDeniesAll
  <1>6. ASSUME NEW r \in Requests, RequestStep(r) PROVE TokenInv'
    <2>1. request \in [Requests -> RequestStates] /\ IdleSlotsClear /\ tokens \subseteq Nat
      BY DEF TokenInv, TokenTypeOK
    <2>2. CASE \E iat \in tokens : clerk_auth(r, iat)
      BY <2>1, <2>2, RequestMoves DEF clerk_auth, IdleSlotsClear
    <2>3. CASE Answer(r)
      BY <2>1, <2>3, RequestMoves DEF Answer, IdleSlotsClear
    <2>4. CASE post_delete(r)
      <3>1. revoke_subject /\ UNCHANGED <<now, identity, tokens, notified>>
        BY <2>4 DEF post_delete
      <3>2. request' \in [Requests -> RequestStates] /\ IdleSlotsClear'
        BY <2>1, <2>4 DEF post_delete, IdleSlotsClear
      <3> QED
        BY <3>1, <3>2, StampCovers
        DEF TokenInv, TokenTypeOK, TokensNotFromFuture, TokensVerify, NotifiedDeniesAll
    <2>5. CASE ClerkDeletes(r)
      <3>1. UNCHANGED <<now, tombstone, tokens, notified, deniedUpTo>>
        BY <2>5 DEF ClerkDeletes
      <3>2. identity' = (IF identity = "live" THEN "in_app" ELSE identity)
        BY <2>5 DEF ClerkDeletes
      <3>3. request' \in [Requests -> RequestStates] /\ IdleSlotsClear'
        BY <2>1, <2>5 DEF ClerkDeletes, IdleSlotsClear
      <3> QED
        BY <3>1, <3>2, <3>3
        DEF TokenInv, TokenTypeOK, TokensNotFromFuture, TokensVerify, RowKeepsPromise, NotifiedDeniesAll
    <2>6. CASE ClerkRefuses(r)
      BY <2>1, <2>6, RequestMoves DEF ClerkRefuses, IdleSlotsClear
    <2>7. CASE CallTimesOut(r)
      BY <2>1, <2>7, RequestMoves DEF CallTimesOut, IdleSlotsClear
    <2> QED BY <1>6, <2>2, <2>3, <2>4, <2>5, <2>6, <2>7 DEF RequestStep
  <1>7. CASE UNCHANGED tokenVars
    BY <1>7, RequestMoves DEF tokenVars, TokenInv, TokenTypeOK, IdleSlotsClear
  <1> QED BY <1>1, <1>2, <1>3, <1>4, <1>5, <1>6, <1>7 DEF TokenNext

\* The inductive invariant holds in every reachable state: a row outlives every token
\* that it was written to deny, and a reported deletion denies them all.
THEOREM TokenInvHolds == TokenSpec => []TokenInv
  BY TokenInitInv, TokenStepInv, PTL DEF TokenSpec

\* clerk_auth, on a lookup that worked, admits no token that the latest tombstone
\* promised to deny, and none at all once a user.deleted delivery has been handled.
THEOREM NoStaleAdmissionHolds == TokenSpec => NoStaleAdmission
  <1>1. ASSUME TokenInv, [TokenNext]_tokenVars, NEW r \in Requests, Admitted(r)
        PROVE  ~notified /\ request'[r].iat > deniedUpTo
    <2>1. request[r].lookup = "none" /\ request'[r] # request[r]
      BY <1>1 DEF TokenInv, IdleSlotsClear, Admitted
    <2>2. PICK iat \in tokens : clerk_auth(r, iat)
      BY <1>1, <2>1
      DEF TokenNext, Tick, ClerkMints, PortalDeletes, clerk_webhook_revokes, prune_expired_revocations,
          RequestStep, clerk_auth, Answer, post_delete, ClerkDeletes, ClerkRefuses, CallTimesOut,
          CallPending, TokenInv, TokenTypeOK, tokenVars, Admitted
    <2>3. ~is_subject_revoked(iat) /\ request'[r].iat = iat
      BY <1>1, <2>2 DEF clerk_auth, TokenInv, TokenTypeOK, Admitted
    <2>4. ~(iat <= deniedUpTo)
      BY <1>1, <2>3, DeniedHasRow DEF is_subject_revoked
    <2>5. iat \in Nat /\ deniedUpTo \in Int
      BY <1>1 DEF TokenInv, TokenTypeOK
    <2> QED BY <1>1, <2>3, <2>4, <2>5 DEF TokenInv, NotifiedDeniesAll
  <1>2. TokenInv /\ [TokenNext]_tokenVars =>
          [\A r \in Requests : Admitted(r) => ~notified /\ request'[r].iat > deniedUpTo]_tokenVars
    BY <1>1
  <1> QED BY <1>2, TokenInvHolds, PTL DEF TokenSpec, NoStaleAdmission

\* A row is pruned after TTL, when every token of its deny band has expired.
THEOREM PruneOutlivesTokensHolds == TokenSpec => PruneOutlivesTokens
  <1>1. TokenInv /\ [TokenNext]_tokenVars =>
          [tombstone # NoTombstone /\ tombstone' = NoTombstone =>
              \A iat \in tokens : ~notified /\ iat > deniedUpTo]_tokenVars
    <2> SUFFICES ASSUME TokenInv, TokenNext, tombstone # NoTombstone, tombstone' = NoTombstone,
                        NEW iat \in tokens
                 PROVE  ~notified /\ iat > deniedUpTo
      BY DEF tokenVars
    <2>1. revoke_subject => tombstone' # NoTombstone
      BY NoTombstoneAssumption, TimesAssumption DEF revoke_subject, TokenInv, TokenTypeOK
    <2>2. tombstone.expires_at <= now
      BY <2>1
      DEF TokenNext, RequestStep, Tick, ClerkMints, PortalDeletes, clerk_webhook_revokes,
          prune_expired_revocations, clerk_auth, Answer, post_delete, ClerkDeletes, ClerkRefuses,
          CallTimesOut
    <2>3. iat \in Nat /\ deniedUpTo \in Int /\ now \in Nat /\ tombstone.expires_at \in Nat
      BY DEF TokenInv, TokenTypeOK, Tombstones
    <2>4. ~(iat <= deniedUpTo)
      BY <2>2, <2>3, DeniedHasRow
    <2> QED BY <2>3, <2>4 DEF TokenInv, NotifiedDeniesAll
  <1> QED BY <1>1, TokenInvHolds, PTL DEF TokenSpec, PruneOutlivesTokens
=============================================================================
