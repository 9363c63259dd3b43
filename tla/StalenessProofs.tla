--------------------------- MODULE StalenessProofs ---------------------------
(***************************************************************************)
(* What the nightly run keeps for any postings, thresholds, number of      *)
(* workers and seams that the host has bound.  The argument: a posting     *)
(* under way in Phase C, or selected by an archive pass, was passive when  *)
(* it was selected (Selected); one whose live verdict was written tonight  *)
(* has been seen and checked today until the run is over (Fresh), so that  *)
(* no pass but the last selects it (Chosen); and what the clear pass did   *)
(* not spare, of the gated, has been seen or checked since (Spared).       *)
(***************************************************************************)
EXTENDS Staleness, TLAPS

Results == [verdict : Verdicts, link : BOOLEAN, careers : BOOLEAN]
Clockless == Gated \ (OnBoard \cup HasPage)

\* A future that is done holds what the cascade can find.
Returned ==
    \A j \in Jobs : work[j] = "finished" =>
        result[j] \in Results /\ (j \in Clockless => result[j].verdict = "inconclusive")

\* The pool belongs to Phase C, which finds each posting once.
Drained ==
    /\ phase \notin Cascading => \A j \in Jobs : work[j] = "none"
    /\ phase = "off" => tonight = {}
    /\ phase \in Cascading => \A j \in tonight : work[j] \notin {"queued", "running", "finished"}

Selected ==
    \A j \in Jobs :
        work[j] \in {"queued", "running", "finished"} \/ (phase \in {"idle", "unverifiable"} /\ j \in chosen)
        => stage[j] # "active" \/ j \in moved

Fresh == "expiry" \in wired => \A j \in tonight : seen[j] = 0 /\ checked[j] = 0

Chosen ==
    \A j \in chosen :
        /\ phase = "gating" => j \in Gated /\ status[j] = "inconclusive"
        /\ phase \in {"gating", "idle"} /\ "expiry" \in wired => j \notin tonight
        /\ phase = "unverifiable" => j \in Gated

Spared ==
    phase = "sparing" =>
        \A j \in Gated : Passive(j) /\ stale[j] /\ ~Older(seen[j], Cutoff(j)) /\ status[j] # "live"
                         => j \in chosen \cup raced

IInv == Inv /\ Returned /\ Drained /\ Selected /\ Fresh /\ Chosen /\ Spared

LEMMA Thresholds ==
    /\ Unverified \in Nat \ {0} /\ Stale \in Nat \ {0} /\ Archive \in Nat \ {0} /\ Grace \in Nat \ {0}
    /\ Ceiling \in Nat \ {0} /\ Recheck \in Nat \ {0} /\ MaxFailures \in Nat \ {0} /\ SkipDays \in Nat \ {0}
    /\ Unverified <= Stale /\ Recheck <= Stale /\ Stale <= Archive /\ Stale <= Ceiling
BY StalenessAssumption

(* A verdict moves the clock if it is verified, and a live one the sighting and the mark with it. *)
LEMMA VerdictKeepsClock ==
    ASSUME Inv, NEW j \in Jobs, NEW v \in Verdicts, persist_job_expiry_state(j, v), UNCHANGED age,
           j \in Clockless => v = "inconclusive"
    PROVE  ClockOfTheVerified'
<1> USE DEF Inv, TypeOK, Verdicts
<1>1. ASSUME NEW i \in Jobs, i # j
      PROVE  status'[i] = status[i] /\ checked'[i] = checked[i] /\ seen'[i] = seen[i] /\ stale'[i] = stale[i]
  BY <1>1 DEF persist_job_expiry_state
<1>2. /\ status'[j] = v /\ checked'[j] = (IF v = "inconclusive" THEN checked[j] ELSE 0)
      /\ v = "live" => seen'[j] = 0 /\ ~stale'[j]
  BY DEF persist_job_expiry_state
<1>3. age' = age /\ 0 # None /\ v # None /\ age[j] \in Nat  BY StalenessAssumption
<1> SUFFICES ASSUME NEW i \in Jobs
             PROVE  /\ status'[i] \in {"live", "expired"} => checked'[i] # None
                    /\ checked'[i] # None => status'[i] # None /\ checked'[i] <= age'[i]
                    /\ i \in Clockless => checked'[i] = None
                    /\ status'[i] = "live" /\ checked'[i] <= Recheck => seen'[i] <= checked'[i] /\ ~stale'[i]
  BY DEF ClockOfTheVerified, Clockless
<1>4. CASE i # j  BY <1>1, <1>3, <1>4 DEF ClockOfTheVerified, Clockless
<1>5. CASE i = j
  <2>1. CASE v = "inconclusive"  BY <1>2, <1>3, <1>5, <2>1 DEF ClockOfTheVerified, Clockless
  <2>2. CASE v \in {"live", "expired"}  BY <1>2, <1>3, <1>5, <2>2
  <2> QED BY <2>1, <2>2
<1> QED BY <1>4, <1>5

LEMMA VerdictIsTyped ==
    ASSUME TypeOK, NEW j \in Jobs, NEW v \in Verdicts, persist_job_expiry_state(j, v)
    PROVE  /\ status' \in [Jobs -> Verdicts \cup {None}] /\ checked' \in [Jobs -> Nat \cup {None}]
           /\ seen' \in [Jobs -> Nat] /\ stale' \in [Jobs -> BOOLEAN]
BY DEF TypeOK, persist_job_expiry_state

LEMMA InitIInv == Init => IInv
<1> SUFFICES ASSUME Init PROVE IInv  OBVIOUS
<1> USE StalenessAssumption, Thresholds DEF Init, InitRest
<1>1. TypeOK
  <2>1. 0 \in 0 .. MaxFailures /\ 0 \in 0 .. SkipDays  OBVIOUS
  <2> QED BY <2>1 DEF TypeOK, Verdicts
<1>2. ClockOfTheVerified  BY DEF ClockOfTheVerified, Verdicts
<1>3. Returned /\ Drained /\ Selected /\ Fresh /\ Chosen /\ Spared
  BY DEF Returned, Drained, Selected, Fresh, Chosen, Spared, Cascading
<1> QED BY <1>1, <1>2, <1>3 DEF IInv, Inv

(* What a worker finds, without the cases of the cascade. *)
LEMMA CascadeFindsResults ==
    ASSUME TypeOK, NEW j \in Jobs, NEW r \in CascadeFinds(j)
    PROVE  r \in Results /\ (j \in Clockless => r.verdict = "inconclusive")
<1>1. "live" \in Verdicts /\ "expired" \in Verdicts /\ "inconclusive" \in Verdicts
  BY DEF Verdicts
<1>2. \A v \in Verdicts, link \in BOOLEAN, page \in BOOLEAN : Found(v, link, page) \in Results /\ Found(v, link, page).verdict = v
  BY DEF Found, Results
<1>3. (j \in HasPage /\ skip[j] = 0) \in BOOLEAN  OBVIOUS
<1>4. CASE r \in {Found("inconclusive", FALSE, j \in HasPage /\ skip[j] = 0), Found("inconclusive", FALSE, FALSE)}
  BY <1>1, <1>2, <1>3, <1>4
<1>5. CASE (j \notin Gated \/ j \in OnBoard) /\ \E v \in {"live", "expired"} : r = Found(v, FALSE, FALSE)
  BY <1>1, <1>2, <1>5 DEF Clockless
<1>6. CASE j \in HasPage /\ \E link \in BOOLEAN : r = Found("live", link, TRUE)
  BY <1>1, <1>2, <1>6 DEF Clockless
<1> QED BY <1>4, <1>5, <1>6 DEF CascadeFinds

-----------------------------------------------------------------------------
LEMMA BeginsKeep == ASSUME IInv, Begins PROVE IInv'
<1> USE StalenessAssumption, Thresholds DEF IInv, Inv, Begins, posting, cascade, ledger, history, Ends
<1>1. TypeOK'  BY DEF TypeOK, Returned, Judging, Cascading
<1>2. ClockOfTheVerified'  BY DEF TypeOK, ClockOfTheVerified
<1>3. Returned'  BY DEF TypeOK, Returned
<1>4. Drained'  BY DEF TypeOK, Drained, Cascading
<1>5. Selected'  BY DEF TypeOK, Selected, Drained, Passive, Cascading
<1>6. Fresh'  BY DEF TypeOK, Fresh, Drained
<1>7. Chosen'  BY DEF TypeOK, Chosen
<1>8. Spared'  BY DEF TypeOK, Spared, Passive, Cutoff
<1> QED BY <1>1, <1>2, <1>3, <1>4, <1>5, <1>6, <1>7, <1>8

LEMMA StartsKeep == ASSUME IInv, NEW j \in Jobs, Starts(j) PROVE IInv'
<1> USE StalenessAssumption, Thresholds DEF IInv, Inv, Starts, posting, cascade, ledger, history, Ends
<1>1. TypeOK'  BY DEF TypeOK, Returned, Judging, Cascading
<1>2. ClockOfTheVerified'  BY DEF TypeOK, ClockOfTheVerified
<1>3. Returned'  BY DEF TypeOK, Returned
<1>4. Drained'  BY DEF TypeOK, Drained, Cascading
<1>5. Selected'  BY DEF TypeOK, Selected, Drained, Passive, Cascading
<1>6. Fresh'  BY DEF TypeOK, Fresh, Drained
<1>7. Chosen'  BY DEF TypeOK, Chosen
<1>8. Spared'  BY DEF TypeOK, Spared, Passive, Cutoff
<1> QED BY <1>1, <1>2, <1>3, <1>4, <1>5, <1>6, <1>7, <1>8

LEMMA FinishesKeep == ASSUME IInv, NEW j \in Jobs, Finishes(j) PROVE IInv'
<1> USE DEF IInv, Inv
<1>1. PICK r \in CascadeFinds(j) : result' = [result EXCEPT ![j] = r]  BY DEF Finishes
<1>2. r \in Results /\ (j \in Clockless => r.verdict = "inconclusive")  BY CascadeFindsResults
<1>3. /\ work[j] = "running" /\ work' = [work EXCEPT ![j] = "finished"]
      /\ UNCHANGED <<wired, stage, seen, age, stale, status, checked, careers, direct, phase, ran, limit, outcome,
                     abandoned, strikes, skip, chosen, held, tonight, moved, raced>>
  BY DEF Finishes, posting, ledger, history
<1>4. TypeOK'  BY <1>1, <1>2, <1>3 DEF TypeOK, Results
<1>5. ClockOfTheVerified'  BY <1>3 DEF ClockOfTheVerified
<1>6. Returned'  BY <1>1, <1>2, <1>3 DEF TypeOK, Returned
<1>7. Drained'  BY <1>3 DEF TypeOK, Drained
<1>8. Selected'  BY <1>3 DEF TypeOK, Selected
<1>9. Fresh' /\ Chosen' /\ Spared'  BY <1>3 DEF Fresh, Chosen, Spared, Passive, Cutoff
<1> QED BY <1>4, <1>5, <1>6, <1>7, <1>8, <1>9

LEMMA LimitPassesKeep == ASSUME IInv, LimitPasses PROVE IInv'
<1> USE StalenessAssumption, Thresholds DEF IInv, Inv, LimitPasses, posting, cascade, ledger, history, Ends
<1>1. TypeOK'  BY DEF TypeOK, Returned, Judging, Cascading
<1>2. ClockOfTheVerified'  BY DEF TypeOK, ClockOfTheVerified
<1>3. Returned'  BY DEF TypeOK, Returned
<1>4. Drained'  BY DEF TypeOK, Drained, Cascading
<1>5. Selected'  BY DEF TypeOK, Selected, Drained, Passive, Cascading
<1>6. Fresh'  BY DEF TypeOK, Fresh, Drained
<1>7. Chosen'  BY DEF TypeOK, Chosen
<1>8. Spared'  BY DEF TypeOK, Spared, Passive, Cutoff
<1> QED BY <1>1, <1>2, <1>3, <1>4, <1>5, <1>6, <1>7, <1>8

(* The main loop, or the drain: the result of j is taken, and what has not started may be cancelled. *)
LEMMA AfterResultLeaves ==
    ASSUME TypeOK, NEW j \in Jobs, phase \in Cascading, work[j] = "finished", AfterResult(j)
    PROVE  /\ phase' \in Cascading
           /\ work' \in [Jobs -> {"none", "queued", "running", "finished", "kept", "cancelled"}]
           /\ work'[j] = "kept" /\ \A i \in Jobs : work'[i] \in {work[i], "kept", "cancelled"}
<1> USE DEF TypeOK, Cascading
<1>1. CASE phase = "C" /\ limit
  <2>1. /\ phase' = "draining"
        /\ work' = [i \in Jobs |-> CASE i = j -> "kept" [] work[i] = "queued" -> "cancelled" [] OTHER -> work[i]]
    BY <1>1 DEF AfterResult
  <2> HIDE DEF TypeOK
  <2>2. ASSUME NEW i \in Jobs
        PROVE  work'[i] = IF i = j THEN "kept" ELSE IF work[i] = "queued" THEN "cancelled" ELSE work[i]
    <3>1. work'[i] = CASE i = j -> "kept" [] work[i] = "queued" -> "cancelled" [] OTHER -> work[i]  BY <2>1
    <3>2. CASE i = j  BY <3>1, <3>2
    <3>3. CASE i # j /\ work[i] = "queued"  BY <3>1, <3>3
    <3>4. CASE i # j /\ work[i] # "queued"  BY <3>1, <3>4
    <3> QED BY <3>2, <3>3, <3>4
  <2>3. work' = [i \in Jobs |-> work'[i]]  BY <2>1
  <2>4. \A i \in Jobs : work[i] \in {"none", "queued", "running", "finished", "kept", "cancelled"}  BY DEF TypeOK
  <2> QED BY <2>1, <2>2, <2>3, <2>4
<1>2. CASE ~(phase = "C" /\ limit)
  <2>1. work' = [work EXCEPT ![j] = "kept"] /\ phase' = phase  BY <1>2 DEF AfterResult
  <2> QED BY <2>1
<1> QED BY <1>1, <1>2

LEMMA KeepsKeep == ASSUME IInv, NEW j \in Jobs, Keeps(j) PROVE IInv'
<1> USE DEF IInv, Inv
<1> DEFINE r == result[j]
<1>1. r \in Results /\ r.verdict \in Verdicts /\ r.link \in BOOLEAN /\ r.careers \in BOOLEAN
      /\ (j \in Clockless => r.verdict = "inconclusive")
  BY DEF Keeps, Returned, Results
<1>2. /\ phase' \in Cascading
      /\ work' \in [Jobs -> {"none", "queued", "running", "finished", "kept", "cancelled"}]
      /\ work'[j] = "kept" /\ \A i \in Jobs : work'[i] \in {work[i], "kept", "cancelled"}
  BY AfterResultLeaves DEF Keeps
<1>3. /\ phase \in Cascading /\ work[j] = "finished"
      /\ VerdictKept(j, r.verdict) /\ CareersKept(j, r.careers)
      /\ direct' = [direct EXCEPT ![j] = @ \/ (r.link /\ "direct" \in wired)]
      /\ stage' = [stage EXCEPT ![j] = IF r.verdict = "expired" /\ "stage" \in wired THEN "archived" ELSE @]
      /\ outcome' = [outcome EXCEPT ![j] = IF r.careers THEN r.verdict = "live" ELSE @]
      /\ tonight' = IF r.verdict = "live" THEN tonight \cup {j} ELSE tonight
      /\ result' = [result EXCEPT ![j] = None]
      /\ UNCHANGED <<wired, age, ran, limit, abandoned, strikes, skip, chosen, moved, raced>>
  BY DEF Keeps, ledger
<1>4. \/ "expiry" \in wired /\ persist_job_expiry_state(j, r.verdict)
      \/ "expiry" \notin wired /\ UNCHANGED <<status, checked, seen, stale>>
  BY <1>3 DEF VerdictKept
<1> HIDE DEF r
<1>5. careers' \in [Jobs -> BOOLEAN] /\ held' \subseteq Jobs
  <2>1. careers' = [careers EXCEPT ![j] = @ \/ r.careers]  BY <1>3 DEF CareersKept
  <2>2. careers' \in [Jobs -> BOOLEAN]  BY <1>1, <2>1 DEF TypeOK
  <2>3. \/ held' = {}
        \/ held' \in {h \cup (IF r.careers /\ ~careers[j] THEN {j} ELSE {}) : h \in {{}, held}}
    BY <1>3 DEF CareersKept
  <2>4. held \subseteq Jobs /\ (IF r.careers /\ ~careers[j] THEN {j} ELSE {}) \subseteq Jobs  BY DEF TypeOK
  <2> QED BY <2>2, <2>3, <2>4
<1>6. TypeOK'
  <2>1. direct' \in [Jobs -> BOOLEAN] /\ stage' \in [Jobs -> {"passive", "active", "archived"}]
    BY <1>1, <1>3 DEF TypeOK
  <2>2. outcome' \in [Jobs -> BOOLEAN \cup {None}]
    <3>1. CASE r.careers /\ r.verdict = "live"
      <4>1. outcome' = [outcome EXCEPT ![j] = TRUE]  BY <1>3, <3>1
      <4> QED BY <4>1 DEF TypeOK
    <3>2. CASE r.careers /\ r.verdict # "live"
      <4>1. outcome' = [outcome EXCEPT ![j] = FALSE]  BY <1>3, <3>2
      <4> QED BY <4>1 DEF TypeOK
    <3>3. CASE ~r.careers
      <4>1. outcome' = [outcome EXCEPT ![j] = @]  BY <1>3, <3>3
      <4> QED BY <4>1 DEF TypeOK
    <3> QED BY <1>1, <3>1, <3>2, <3>3
  <2>3. tonight' \subseteq Jobs  BY <1>3 DEF TypeOK
  <2>4. /\ result' \in [Jobs -> [verdict : Verdicts, link : BOOLEAN, careers : BOOLEAN] \cup {None}]
        /\ phase' \in {"off"} \cup Cascading \cup Judging
    BY <1>2, <1>3 DEF TypeOK
  <2>5. /\ status' \in [Jobs -> Verdicts \cup {None}] /\ checked' \in [Jobs -> Nat \cup {None}]
        /\ seen' \in [Jobs -> Nat] /\ stale' \in [Jobs -> BOOLEAN]
    BY <1>1, <1>4, VerdictIsTyped DEF TypeOK
  <2> QED BY <1>2, <1>3, <1>5, <2>1, <2>2, <2>3, <2>4, <2>5 DEF TypeOK
<1>7. ClockOfTheVerified'
  <2>1. CASE UNCHANGED <<status, checked, seen, stale>>  BY <1>3, <2>1 DEF ClockOfTheVerified
  <2>2. CASE persist_job_expiry_state(j, r.verdict)  BY <1>1, <1>3, <2>2, VerdictKeepsClock
  <2> QED BY <1>4, <2>1, <2>2
<1>8. Returned'  BY <1>2, <1>3 DEF TypeOK, Returned
<1>9. Drained'  BY <1>2, <1>3 DEF Drained, Cascading, TypeOK
<1>10. Selected'  BY <1>2, <1>3 DEF TypeOK, Selected, Cascading
<1>11. Fresh'
  <2> SUFFICES ASSUME "expiry" \in wired, NEW i \in tonight' PROVE seen'[i] = 0 /\ checked'[i] = 0
    BY <1>3 DEF Fresh
  <2>1. persist_job_expiry_state(j, r.verdict)  BY <1>4
  <2>2. CASE i \in tonight  BY <2>1, <2>2 DEF persist_job_expiry_state, Fresh, TypeOK
  <2>3. CASE i = j /\ r.verdict = "live"  BY <2>1, <2>3 DEF persist_job_expiry_state, TypeOK
  <2> QED BY <1>3, <2>2, <2>3
<1>12. Chosen' /\ Spared'  BY <1>2 DEF Chosen, Spared, Cascading
<1> QED BY <1>6, <1>7, <1>8, <1>9, <1>10, <1>11, <1>12

LEMMA PersistRaisesKeep == ASSUME IInv, NEW j \in Jobs, PersistRaises(j) PROVE IInv'
<1> USE DEF IInv, Inv
<1> DEFINE r == result[j]
<1>1. r.verdict \in Verdicts /\ r.link \in BOOLEAN /\ r.careers \in BOOLEAN
      /\ (j \in Clockless => r.verdict = "inconclusive")
  BY DEF PersistRaises, Returned, Results
<1>2. /\ phase' = "A" /\ work' = [i \in Jobs |-> "none"] /\ result' = [i \in Jobs |-> None]
      /\ limit' = FALSE /\ outcome' = [i \in Jobs |-> None] /\ abandoned' = {} /\ held' = {}
      /\ UNCHANGED <<wired, stage, age, ran, strikes, skip, chosen, tonight, moved, raced>>
  BY DEF PersistRaises, CascadeOver, ledger, history
<1>3. \/ UNCHANGED <<status, checked, seen, stale>>
      \/ persist_job_expiry_state(j, r.verdict)
  BY DEF PersistRaises
<1>4. /\ \/ direct' = direct
         \/ direct' = [direct EXCEPT ![j] = @ \/ (r.link /\ "direct" \in wired)]
      /\ \/ \E lost \in {{}, held} : careers' = [i \in Jobs |-> careers[i] /\ i \notin lost]
         \/ careers' = [careers EXCEPT ![j] = @ \/ r.careers]
  BY DEF PersistRaises
<1> HIDE DEF r
<1>5. TypeOK'
  <2>1. direct' \in [Jobs -> BOOLEAN]  BY <1>1, <1>4 DEF TypeOK
  <2>2. careers' \in [Jobs -> BOOLEAN]
    <3>1. CASE careers' = [careers EXCEPT ![j] = @ \/ r.careers]  BY <1>1, <3>1 DEF TypeOK
    <3>2. ASSUME NEW lost, careers' = [i \in Jobs |-> careers[i] /\ i \notin lost] PROVE careers' \in [Jobs -> BOOLEAN]
      <4>1. \A i \in Jobs : (careers[i] /\ i \notin lost) \in BOOLEAN  OBVIOUS
      <4> QED BY <3>2, <4>1
    <3> QED BY <1>4, <3>1, <3>2
  <2>3. /\ status' \in [Jobs -> Verdicts \cup {None}] /\ checked' \in [Jobs -> Nat \cup {None}]
        /\ seen' \in [Jobs -> Nat] /\ stale' \in [Jobs -> BOOLEAN]
    BY <1>1, <1>3, VerdictIsTyped DEF TypeOK
  <2> QED BY <1>2, <2>1, <2>2, <2>3 DEF TypeOK, Judging
<1>6. ClockOfTheVerified'
  <2>1. CASE UNCHANGED <<status, checked, seen, stale>>  BY <1>2, <2>1 DEF ClockOfTheVerified
  <2>2. CASE persist_job_expiry_state(j, r.verdict)  BY <1>1, <1>2, <2>2, VerdictKeepsClock
  <2> QED BY <1>3, <2>1, <2>2
<1>7. Returned' /\ Drained' /\ Selected' /\ Chosen' /\ Spared'
  BY <1>2 DEF Returned, Drained, Selected, Chosen, Spared, Cascading
<1>8. Fresh'
  <2>1. \A i \in Jobs : (seen[i] = 0 => seen'[i] = 0) /\ (checked[i] = 0 => checked'[i] = 0)
    BY <1>3 DEF persist_job_expiry_state, TypeOK
  <2> QED BY <1>2, <2>1 DEF Fresh, TypeOK
<1> QED BY <1>5, <1>6, <1>7, <1>8

LEMMA DrainGivesUpKeep == ASSUME IInv, NEW j \in Jobs, DrainGivesUp(j) PROVE IInv'
<1> USE StalenessAssumption, Thresholds DEF IInv, Inv, DrainGivesUp, posting, cascade, ledger, history, Ends
<1>1. TypeOK'  BY DEF TypeOK, Returned, Judging, Cascading
<1>2. ClockOfTheVerified'  BY DEF TypeOK, ClockOfTheVerified
<1>3. Returned'  BY DEF TypeOK, Returned
<1>4. Drained'  BY DEF TypeOK, Drained, Cascading
<1>5. Selected'  BY DEF TypeOK, Selected, Drained, Passive, Cascading
<1>6. Fresh'  BY DEF TypeOK, Fresh, Drained
<1>7. Chosen'  BY DEF TypeOK, Chosen
<1>8. Spared'  BY DEF TypeOK, Spared, Passive, Cutoff
<1> QED BY <1>1, <1>2, <1>3, <1>4, <1>5, <1>6, <1>7, <1>8

(* One more strike at most, and the days of the skip are the constant's. *)
LEMMA LedgerIsTyped ==
    ASSUME TypeOK, Records
    PROVE  strikes' \in [Jobs -> 0 .. MaxFailures] /\ skip' \in [Jobs -> 0 .. SkipDays]
<1>1. /\ strikes \in [Jobs -> 0 .. MaxFailures] /\ skip \in [Jobs -> 0 .. SkipDays]
      /\ MaxFailures \in Nat \ {0} /\ SkipDays \in Nat \ {0}
  BY Thresholds DEF TypeOK
<1>2. ASSUME NEW n \in 0 .. MaxFailures, n # MaxFailures
      PROVE  n + 1 \in 0 .. MaxFailures
  BY <1>1, <1>2
<1>3. 0 \in 0 .. MaxFailures /\ 0 \in 0 .. SkipDays /\ SkipDays \in 0 .. SkipDays
  BY <1>1
<1>4. strikes' \in [Jobs -> 0 .. MaxFailures]
  BY <1>1, <1>2, <1>3 DEF Records
<1>5. skip' \in [Jobs -> 0 .. SkipDays]
  BY <1>1, <1>3 DEF Records
<1> QED BY <1>4, <1>5

LEMMA CascadedKeep == ASSUME IInv, Cascaded PROVE IInv'
<1> USE DEF IInv, Inv, Cascaded, CascadeOver, posting, history
<1>1. TypeOK'
  <2>1. strikes' \in [Jobs -> 0 .. MaxFailures] /\ skip' \in [Jobs -> 0 .. SkipDays]  BY LedgerIsTyped
  <2> QED BY <2>1 DEF TypeOK, Judging
<1>2. ClockOfTheVerified'  BY DEF ClockOfTheVerified
<1>3. Returned' /\ Drained' /\ Selected'  BY DEF Returned, Drained, Selected, Cascading
<1>4. Fresh' /\ Chosen' /\ Spared'  BY DEF Fresh, Chosen, Spared
<1> QED BY <1>1, <1>2, <1>3, <1>4

(* What was verified live lately, or is written live tonight, is not older than its cutoff. *)
LEMMA LiveIsNotOlder ==
    ASSUME IInv, NEW j \in Jobs, Older(seen[j], Cutoff(j))
    PROVE  /\ ~(status[j] = "live" /\ checked[j] <= Recheck)
           /\ "expiry" \in wired => j \notin tonight
<1> USE Thresholds DEF IInv, Inv, TypeOK
<1>1. Cutoff(j) \in Nat \ {0} /\ (status[j] = "live" => Cutoff(j) = Stale)  BY DEF Cutoff
<1>2. seen[j] > Cutoff(j)  BY DEF Older
<1>3. "expiry" \in wired => j \notin tonight  BY <1>1, <1>2 DEF Fresh
<1>4. ASSUME status[j] = "live", checked[j] <= Recheck PROVE FALSE
  <2>1. checked[j] \in Nat /\ seen[j] <= checked[j]  BY <1>4 DEF ClockOfTheVerified
  <2> QED BY <1>1, <1>2, <1>4, <2>1
<1> QED BY <1>3, <1>4

LEMMA MarksUnseenKeep == ASSUME IInv, MarksUnseen PROVE IInv'
<1> USE DEF IInv, Inv, MarksUnseen, cascade, ledger, history
<1>1. TypeOK'  BY DEF TypeOK, Judging
<1>2. \A j \in Jobs : stale'[j] => stale[j] \/ Older(seen[j], Cutoff(j))  OBVIOUS
<1>3. ClockOfTheVerified'  BY <1>2, LiveIsNotOlder DEF ClockOfTheVerified
<1>4. Returned' /\ Fresh' /\ Spared'  BY DEF Returned, Fresh, Spared
<1>5. Drained' /\ Selected' /\ Chosen'  BY DEF Drained, Selected, Chosen, Cascading
<1> QED BY <1>1, <1>3, <1>4, <1>5

LEMMA SelectsGatedKeep == ASSUME IInv, SelectsGated PROVE IInv'
<1> USE DEF IInv, Inv, SelectsGated, posting, cascade, ledger, history
<1>1. TypeOK'  BY StalenessAssumption DEF TypeOK, Judging
<1>2. ClockOfTheVerified' /\ Returned' /\ Fresh' /\ Spared'  BY DEF ClockOfTheVerified, Returned, Fresh, Spared
<1>3. Drained' /\ Selected'  BY DEF Drained, Selected, Cascading
<1>4. Chosen'
  <2>1. "expiry" \in wired => \A j \in tonight : ~Older(checked[j], Unverified)  BY Thresholds DEF Fresh, Older
  <2> QED BY <2>1 DEF Chosen
<1> QED BY <1>1, <1>2, <1>3, <1>4

LEMMA MarksGatedKeep == ASSUME IInv, MarksGated PROVE IInv'
<1> USE DEF IInv, Inv, MarksGated, cascade, ledger, history
<1>1. TypeOK'  BY DEF TypeOK, Judging
<1>2. ClockOfTheVerified'  BY DEF ClockOfTheVerified, Chosen
<1>3. Returned' /\ Fresh' /\ Spared'  BY DEF Returned, Fresh, Spared
<1>4. Drained' /\ Selected' /\ Chosen'  BY DEF Drained, Selected, Chosen, Cascading
<1> QED BY <1>1, <1>2, <1>3, <1>4

LEMMA SelectsSparedKeep == ASSUME IInv, SelectsSpared PROVE IInv'
<1> USE DEF IInv, Inv, SelectsSpared, posting, cascade, ledger
<1>1. TypeOK'  BY StalenessAssumption DEF TypeOK, Judging
<1>2. ClockOfTheVerified' /\ Returned' /\ Fresh'  BY DEF ClockOfTheVerified, Returned, Fresh
<1>3. Drained' /\ Selected' /\ Chosen'  BY DEF Drained, Selected, Chosen, Cascading
<1>4. Spared'  BY DEF Spared, Cutoff, Passive
<1> QED BY <1>1, <1>2, <1>3, <1>4

LEMMA ClearsKeep == ASSUME IInv, Clears PROVE IInv'
<1> USE DEF IInv, Inv, Clears, cascade, ledger, history
<1>1. TypeOK'
  <2>1. stale' \in [Jobs -> BOOLEAN]
    <3>1. \A j \in Jobs : (stale[j] /\ Passive(j) /\ (Older(seen[j], Cutoff(j)) \/ j \in chosen)) \in BOOLEAN
      BY DEF TypeOK
    <3> QED BY <3>1
  <2> QED BY <2>1 DEF TypeOK, Judging
<1>2. \A j \in Jobs : stale'[j] => stale[j]  OBVIOUS
<1>3. ClockOfTheVerified'  BY <1>2 DEF ClockOfTheVerified
<1>4. Returned' /\ Fresh' /\ Spared'  BY DEF Returned, Fresh, Spared
<1>5. Drained' /\ Selected' /\ Chosen'  BY DEF Drained, Selected, Chosen, Cascading
<1> QED BY <1>1, <1>3, <1>4, <1>5

LEMMA SelectsIdleKeep == ASSUME IInv, SelectsIdle PROVE IInv'
<1> USE DEF IInv, Inv, SelectsIdle, posting, cascade, ledger
<1>1. TypeOK'  BY DEF TypeOK, Judging
<1>2. ClockOfTheVerified' /\ Returned' /\ Fresh' /\ Spared'  BY DEF ClockOfTheVerified, Returned, Fresh, Spared
<1>3. Drained'  BY DEF Drained, Cascading
<1>4. Selected'
  <2>1. \A j \in Jobs : work'[j] = "none" /\ (j \in chosen' => stage'[j] = "passive")
    BY DEF Drained, Idle, Passive, Cascading
  <2> QED BY <2>1 DEF Selected
<1>5. Chosen'
  <2>1. "expiry" \in wired => \A j \in tonight : ~Idle(j)  BY Thresholds DEF Fresh, Idle, Older, TypeOK
  <2> QED BY <2>1 DEF Chosen
<1> QED BY <1>1, <1>2, <1>3, <1>4, <1>5

LEMMA ArchivesIdleKeep == ASSUME IInv, ArchivesIdle PROVE IInv'
<1> USE DEF IInv, Inv, ArchivesIdle, ArchivesChosen, cascade, ledger, history
<1>1. TypeOK'  BY DEF TypeOK, Judging
<1>2. ClockOfTheVerified' /\ Returned' /\ Fresh' /\ Spared'  BY DEF ClockOfTheVerified, Returned, Fresh, Spared
<1>3. Drained' /\ Selected' /\ Chosen'  BY DEF Drained, Selected, Chosen, Cascading
<1> QED BY <1>1, <1>2, <1>3

LEMMA SelectsUnverifiableKeep == ASSUME IInv, SelectsUnverifiable PROVE IInv'
<1> USE DEF IInv, Inv, SelectsUnverifiable, posting, cascade, ledger
<1>1. TypeOK'  BY DEF TypeOK, Judging
<1>2. ClockOfTheVerified' /\ Returned' /\ Fresh' /\ Spared'  BY DEF ClockOfTheVerified, Returned, Fresh, Spared
<1>3. Drained'  BY DEF Drained, Cascading
<1>4. Selected'
  <2>1. \A j \in Jobs : work'[j] = "none" /\ (j \in chosen' => stage'[j] = "passive")
    BY DEF Drained, Unverifiable, Passive, Cascading
  <2> QED BY <2>1 DEF Selected
<1>5. Chosen'  BY DEF Chosen, Unverifiable
<1> QED BY <1>1, <1>2, <1>3, <1>4, <1>5

LEMMA ArchivesUnverifiableKeep == ASSUME IInv, ArchivesUnverifiable PROVE IInv'
<1> USE DEF IInv, Inv, ArchivesUnverifiable, ArchivesChosen, Ends, cascade, ledger
<1>1. TypeOK'  BY DEF TypeOK
<1>2. ClockOfTheVerified' /\ Returned' /\ Fresh' /\ Spared'  BY DEF ClockOfTheVerified, Returned, Fresh, Spared
<1>3. Drained' /\ Selected' /\ Chosen'  BY DEF Drained, Selected, Chosen, Cascading
<1> QED BY <1>1, <1>2, <1>3

(* A rollback takes marks back, and makes none. *)
LEMMA UndoneIsTyped ==
    ASSUME TypeOK, MarksUndone
    PROVE  stale' \in [Jobs -> BOOLEAN] /\ \A j \in Jobs : stale'[j] => stale[j]
<1>1. \A j \in Jobs : (stale[j] /\ ~(phase \in Judging /\ j \in held)) \in BOOLEAN  BY DEF TypeOK
<1> QED BY <1>1 DEF MarksUndone

LEMMA PhaseAFailsKeep == ASSUME IInv, PhaseAFails PROVE IInv'
<1> USE UndoneIsTyped DEF IInv, Inv, PhaseAFails, Ends, cascade, ledger
<1>1. TypeOK'  BY DEF TypeOK
<1>2. ClockOfTheVerified' /\ Returned' /\ Fresh' /\ Spared'  BY DEF ClockOfTheVerified, Returned, Fresh, Spared
<1>3. Drained' /\ Selected' /\ Chosen'  BY DEF Drained, Selected, Chosen, Cascading, Judging
<1> QED BY <1>1, <1>2, <1>3

LEMMA SeenAgainKeep == ASSUME IInv, NEW j \in Jobs, SeenAgain(j) PROVE IInv'
<1> USE DEF IInv, Inv, SeenAgain, cascade, ledger
<1>1. TypeOK'  BY DEF TypeOK, Races
<1>2. ClockOfTheVerified'
  <2>1. \A i \in Jobs : checked[i] \in Nat => seen'[i] <= seen[i] \/ seen'[i] <= checked[i]  BY DEF TypeOK
  <2>2. \A i \in Jobs : status[i] = "live" => checked[i] \in Nat  BY DEF TypeOK, ClockOfTheVerified
  <2>3. \A i \in Jobs : seen[i] \in Nat /\ seen'[i] \in Nat  BY <1>1 DEF TypeOK
  <2> QED BY <2>1, <2>2, <2>3 DEF ClockOfTheVerified
<1>3. Returned' /\ Drained' /\ Selected' /\ Chosen'  BY DEF Returned, Drained, Selected, Chosen
<1>4. Fresh'  BY DEF TypeOK, Fresh
<1>5. Spared'
  <2>1. \A i \in Jobs : i # j => seen'[i] = seen[i]  BY DEF TypeOK
  <2>2. phase = "sparing" => raced' = raced \cup {j}  BY DEF Races
  <2> QED BY <2>1, <2>2, StalenessAssumption DEF Spared, Passive, Cutoff
<1> QED BY <1>1, <1>2, <1>3, <1>4, <1>5

LEMMA PreflightKeep == ASSUME IInv, NEW j \in Jobs, Preflight(j) PROVE IInv'
<1> USE DEF IInv, Inv
<1>1. PICK v \in Verdicts : (j \in Gated => v = "inconclusive") /\ persist_job_expiry_state(j, v)
  BY DEF Preflight
<1>2. j \in Clockless => v = "inconclusive"  BY <1>1 DEF Clockless
<1>3. UNCHANGED <<wired, stage, age, careers, direct, phase, ran, work, result, limit, outcome, abandoned, strikes,
                  skip, chosen, held, tonight, moved>> /\ Races(j) /\ checked[j] # 0
  BY DEF Preflight, cascade, ledger
<1>4. TypeOK'  BY <1>1, <1>3, VerdictIsTyped DEF TypeOK, Races
<1>5. ClockOfTheVerified'  BY <1>1, <1>2, <1>3, VerdictKeepsClock
<1>6. Returned' /\ Drained' /\ Selected'  BY <1>3 DEF Returned, Drained, Selected
<1>7. /\ \A i \in Jobs : i # j => /\ seen'[i] = seen[i] /\ checked'[i] = checked[i]
                                  /\ status'[i] = status[i] /\ stale'[i] = stale[i]
      /\ status'[j] = v
  BY <1>1 DEF persist_job_expiry_state, TypeOK
<1>8. Fresh'  BY <1>3, <1>7 DEF Fresh, TypeOK
<1>9. Chosen'  BY <1>1, <1>3, <1>7 DEF Chosen, TypeOK
<1>10. Spared'
  <2>1. phase = "sparing" => raced' = raced \cup {j}  BY <1>3 DEF Races
  <2> QED BY <1>3, <1>7, <2>1, StalenessAssumption DEF Spared, Passive, Cutoff
<1> QED BY <1>4, <1>5, <1>6, <1>8, <1>9, <1>10

LEMMA ResolvesKeep == ASSUME IInv, NEW j \in Jobs, Resolves(j) PROVE IInv'
<1> USE StalenessAssumption, Thresholds DEF IInv, Inv, Resolves, posting, cascade, ledger, history, Ends
<1>1. TypeOK'  BY DEF TypeOK, Returned, Judging, Cascading
<1>2. ClockOfTheVerified'  BY DEF TypeOK, ClockOfTheVerified
<1>3. Returned'  BY DEF TypeOK, Returned
<1>4. Drained'  BY DEF TypeOK, Drained, Cascading
<1>5. Selected'  BY DEF TypeOK, Selected, Drained, Passive, Cascading
<1>6. Fresh'  BY DEF TypeOK, Fresh, Drained
<1>7. Chosen'  BY DEF TypeOK, Chosen
<1>8. Spared'  BY DEF TypeOK, Spared, Passive, Cutoff
<1> QED BY <1>1, <1>2, <1>3, <1>4, <1>5, <1>6, <1>7, <1>8

LEMMA AppliesKeep == ASSUME IInv, NEW j \in Jobs, Applies(j) PROVE IInv'
<1> USE StalenessAssumption, Thresholds DEF IInv, Inv, Applies, posting, cascade, ledger, history, Ends
<1>1. TypeOK'  BY DEF TypeOK, Returned, Judging, Cascading
<1>2. ClockOfTheVerified'  BY DEF TypeOK, ClockOfTheVerified
<1>3. Returned'  BY DEF TypeOK, Returned
<1>4. Drained'  BY DEF TypeOK, Drained, Cascading
<1>5. Selected'  BY DEF TypeOK, Selected, Drained, Passive, Cascading
<1>6. Fresh'  BY DEF TypeOK, Fresh, Drained
<1>7. Chosen'  BY DEF TypeOK, Chosen
<1>8. Spared'  BY DEF TypeOK, Spared, Passive, Cutoff
<1> QED BY <1>1, <1>2, <1>3, <1>4, <1>5, <1>6, <1>7, <1>8

(* A day more, unless the count has reached its cap. *)
LEMMA Counted ==
    ASSUME NEW days \in Nat, NEW cap \in Nat
    PROVE  /\ Capped(days, cap) \in Nat /\ Capped(days, cap) # None /\ Capped(days, cap) <= days + 1
           /\ \/ days < cap /\ Capped(days, cap) = days + 1
              \/ days >= cap /\ Capped(days, cap) = days
<1>1. Capped(days, cap) = IF days >= cap THEN days ELSE days + 1  BY StalenessAssumption DEF Capped
<1> QED BY <1>1, StalenessAssumption

LEMMA DayPassesKeep == ASSUME IInv, DayPasses PROVE IInv'
<1> DEFINE limit1 == Archive + 1
           limit2 == Ceiling + 1
           limit3 == (IF Unverified > Recheck THEN Unverified ELSE Recheck) + 1
<1> USE DEF IInv, Inv
<1>1. limit1 \in Nat /\ limit2 \in Nat /\ limit3 \in Nat /\ Recheck < limit3 /\ limit3 <= limit2
      /\ Recheck < limit1
  BY Thresholds
<1>2. /\ seen' = [j \in Jobs |-> Capped(seen[j], limit1)] /\ age' = [j \in Jobs |-> Capped(age[j], limit2)]
      /\ checked' = [j \in Jobs |-> Capped(checked[j], limit3)]
      /\ skip' = [j \in Jobs |-> IF skip[j] = 0 THEN 0 ELSE skip[j] - 1]
      /\ phase = "off" /\ ran' = FALSE
      /\ UNCHANGED <<wired, stage, stale, status, careers, direct, phase, work, result, limit, outcome, abandoned,
                     strikes, chosen, held, tonight, moved, raced>>
  BY DEF DayPasses, cascade, history
<1> HIDE DEF limit1, limit2, limit3
<1>3. \A j \in Jobs : /\ seen[j] \in Nat /\ seen[j] # None /\ age[j] \in Nat /\ age[j] # None
                      /\ checked[j] \in Nat \cup {None} /\ skip[j] \in 0 .. SkipDays
  BY StalenessAssumption DEF TypeOK
<1>4. TypeOK'
  <2>1. seen' \in [Jobs -> Nat] /\ age' \in [Jobs -> Nat]  BY <1>1, <1>2, <1>3, Counted
  <2>2. checked' \in [Jobs -> Nat \cup {None}]
    <3>1. ASSUME NEW j \in Jobs PROVE Capped(checked[j], limit3) \in Nat \cup {None}
      BY <1>1, <1>3, Counted DEF Capped
    <3> QED BY <1>2, <3>1
  <2>3. skip' \in [Jobs -> 0 .. SkipDays]  BY <1>2, <1>3, Thresholds
  <2> QED BY <1>2, <2>1, <2>2, <2>3 DEF TypeOK
<1>5. ClockOfTheVerified'
  <2> SUFFICES ASSUME NEW j \in Jobs
               PROVE  /\ status[j] \in {"live", "expired"} => checked'[j] # None
                      /\ checked'[j] # None => status[j] # None /\ checked'[j] <= age'[j]
                      /\ j \in Clockless => checked'[j] = None
                      /\ status[j] = "live" /\ checked'[j] <= Recheck => seen'[j] <= checked'[j] /\ ~stale[j]
    BY <1>2 DEF ClockOfTheVerified, Clockless
  <2>1. /\ checked'[j] = Capped(checked[j], limit3) /\ age'[j] = Capped(age[j], limit2)
        /\ seen'[j] = Capped(seen[j], limit1)
    BY <1>2
  <2>2. /\ status[j] \in {"live", "expired"} => checked[j] # None
        /\ checked[j] # None => status[j] # None /\ checked[j] <= age[j]
        /\ j \in Clockless => checked[j] = None
        /\ status[j] = "live" /\ checked[j] <= Recheck => seen[j] <= checked[j] /\ ~stale[j]
    BY DEF ClockOfTheVerified, Clockless
  <2>3. CASE checked[j] = None
    <3>1. checked'[j] = None  BY <2>1, <2>3 DEF Capped
    <3> QED BY <2>2, <2>3, <3>1
  <2>4. CASE checked[j] # None
    <3>1. checked[j] \in Nat /\ checked'[j] \in Nat /\ checked'[j] # None
      <4>1. checked[j] \in Nat  BY <1>3, <2>4
      <4> QED BY <1>1, <2>1, <4>1, Counted
    <3>2. \/ checked[j] < limit3 /\ checked'[j] = checked[j] + 1
          \/ checked[j] >= limit3 /\ checked'[j] = checked[j]
      BY <1>1, <2>1, <2>4, <3>1, Counted
    <3>3. \/ age[j] < limit2 /\ age'[j] = age[j] + 1
          \/ age[j] >= limit2 /\ age'[j] = age[j]
      BY <1>1, <1>3, <2>1, Counted
    <3>4. seen'[j] \in Nat /\ seen'[j] <= seen[j] + 1
      <4>1. seen[j] \in Nat  BY <1>3
      <4> QED BY <1>1, <2>1, <4>1, Counted
    <3>5. checked'[j] <= age'[j]  BY <1>1, <1>3, <2>2, <2>4, <3>1, <3>2, <3>3
    <3>6. checked'[j] <= Recheck => checked'[j] = checked[j] + 1 /\ checked[j] <= Recheck
      BY <1>1, <3>1, <3>2, Thresholds
    <3>7. status[j] = "live" /\ checked'[j] <= Recheck => seen'[j] <= checked'[j] /\ ~stale[j]
      BY <1>3, <2>2, <3>1, <3>4, <3>6
    <3> QED BY <2>2, <2>4, <3>1, <3>5, <3>7
  <2> QED BY <2>3, <2>4
<1>6. Returned' /\ Drained' /\ Selected'  BY <1>2 DEF Returned, Drained, Selected
<1>7. Fresh' /\ Chosen' /\ Spared'  BY <1>2 DEF Fresh, Chosen, Spared, Drained
<1> QED BY <1>4, <1>5, <1>6, <1>7

LEMMA RestartsKeep == ASSUME IInv, Restarts PROVE IInv'
<1> USE UndoneIsTyped DEF IInv, Inv, Restarts, CascadeOver, Ends
<1>1. TypeOK'
  <2>1. 0 \in 0 .. MaxFailures /\ 0 \in 0 .. SkipDays  BY Thresholds
  <2>2. \A j \in Jobs : (careers[j] /\ ~(phase \in Cascading /\ j \in held)) \in BOOLEAN  OBVIOUS
  <2>3. careers' \in [Jobs -> BOOLEAN]  BY <2>2
  <2> QED BY <2>1, <2>3 DEF TypeOK
<1>2. ClockOfTheVerified'  BY DEF ClockOfTheVerified
<1>3. Returned' /\ Drained' /\ Selected'  BY DEF Returned, Drained, Selected
<1>4. Fresh' /\ Chosen' /\ Spared'  BY DEF Fresh, Chosen, Spared
<1> QED BY <1>1, <1>2, <1>3, <1>4

LEMMA NextIInv == IInv /\ [Next]_vars => IInv'
<1> SUFFICES ASSUME IInv, [Next]_vars PROVE IInv'  OBVIOUS
<1>1. CASE UNCHANGED vars
  BY <1>1 DEF vars, IInv, Inv, TypeOK, ClockOfTheVerified, Returned, Drained, Selected, Fresh, Chosen, Spared, Passive,
              Cutoff
<1>2. CASE Cascade
  BY <1>2, BeginsKeep, LimitPassesKeep, CascadedKeep, StartsKeep, FinishesKeep, KeepsKeep, DrainGivesUpKeep DEF Cascade
<1>3. CASE Marks
  BY <1>3, MarksUnseenKeep, SelectsGatedKeep, MarksGatedKeep, SelectsSparedKeep, ClearsKeep DEF Marks
<1>4. CASE Archives
  BY <1>4, SelectsIdleKeep, ArchivesIdleKeep, SelectsUnverifiableKeep, ArchivesUnverifiableKeep DEF Archives
<1>5. CASE PhaseAFails \/ DayPasses \/ Restarts
  BY <1>5, PhaseAFailsKeep, DayPassesKeep, RestartsKeep
<1>6. ASSUME NEW j \in Jobs, PersistRaises(j) \/ World(j) PROVE IInv'
  BY <1>6, PersistRaisesKeep, SeenAgainKeep, PreflightKeep, ResolvesKeep, AppliesKeep DEF World
<1> QED BY <1>1, <1>2, <1>3, <1>4, <1>5, <1>6 DEF Next

LEMMA SpecIInv == Spec => []IInv
BY InitIInv, NextIInv, PTL DEF Spec

(* The columns that the nightly run, the scorer and the feeds write agree: the clock is *)
(* that of the last verified verdict, and who is verified live has been seen since.     *)
THEOREM InvHolds == Spec => []Inv
<1>1. IInv => Inv  BY DEF IInv
<1> QED BY <1>1, SpecIInv, PTL

-----------------------------------------------------------------------------

(* What a verdict, or a rollback, does to a mark. *)
LEMMA VerdictMarks ==
    ASSUME TypeOK, NEW i \in Jobs, NEW v \in Verdicts, NEW j \in Jobs, persist_job_expiry_state(i, v), stale'[j] # stale[j]
    PROVE  stale[j] /\ ~stale'[j] /\ status'[j] = "live"
BY DEF persist_job_expiry_state, TypeOK

(* The steps that set a mark, and the steps that take one back. *)
LEMMA WhoMarks ==
    ASSUME IInv, [Next]_vars, NEW j \in Jobs, stale'[j] # stale[j]
    PROVE  \/ ~stale[j] /\ stale'[j] /\ Older(seen[j], Cutoff(j))
           \/ ~stale[j] /\ stale'[j] /\ phase = "gating" /\ j \in chosen
           \/ stale[j] /\ ~stale'[j] /\ (status'[j] = "live" \/ j \in held)
           \/ stale[j] /\ ~stale'[j] /\ Clears
<1> USE DEF IInv, Inv
<1>0. stale[j] \in BOOLEAN /\ stale'[j] \in BOOLEAN
  <2>1. TypeOK'  BY NextIInv
  <2> QED BY <2>1 DEF TypeOK
<1>1. CASE MarksUnseen
  <2>1. stale'[j] = (stale[j] \/ j \in held')  BY <1>1 DEF MarksUnseen
  <2>2. j \in held' => Older(seen[j], Cutoff(j))  BY <1>1 DEF MarksUnseen
  <2> QED BY <1>0, <2>1, <2>2
<1>2. CASE MarksGated
  <2>1. stale'[j] = (stale[j] \/ j \in chosen) /\ phase = "gating"  BY <1>2 DEF MarksGated
  <2> QED BY <1>0, <2>1
<1>3. CASE Clears
  <2>1. stale'[j] => stale[j]  BY <1>3 DEF Clears
  <2> QED BY <1>0, <1>3, <2>1
<1>4. CASE MarksUndone
  <2>1. stale'[j] = (stale[j] /\ ~(phase \in Judging /\ j \in held))  BY <1>4 DEF MarksUndone
  <2> QED BY <1>0, <2>1
<1>5. ASSUME NEW i \in Jobs, Keeps(i) PROVE stale[j] /\ ~stale'[j] /\ status'[j] = "live"
  <2>1. result[i].verdict \in Verdicts  BY <1>5 DEF Keeps, Returned, Results
  <2>2. persist_job_expiry_state(i, result[i].verdict)  BY <1>5 DEF Keeps, VerdictKept
  <2> QED BY <2>1, <2>2, VerdictMarks
<1>6. ASSUME NEW i \in Jobs, PersistRaises(i) PROVE stale[j] /\ ~stale'[j] /\ status'[j] = "live"
  <2>1. result[i].verdict \in Verdicts  BY <1>6 DEF PersistRaises, Returned, Results
  <2>2. persist_job_expiry_state(i, result[i].verdict)  BY <1>6 DEF PersistRaises
  <2> QED BY <2>1, <2>2, VerdictMarks
<1>7. ASSUME NEW i \in Jobs, Preflight(i) PROVE stale[j] /\ ~stale'[j] /\ status'[j] = "live"
  BY <1>7, VerdictMarks DEF Preflight
<1>8. ~UNCHANGED stale  OBVIOUS
<1>9. ~(\E i \in Jobs : Starts(i) \/ Finishes(i) \/ DrainGivesUp(i) \/ SeenAgain(i) \/ Resolves(i) \/ Applies(i))
  BY <1>8 DEF Starts, Finishes, DrainGivesUp, SeenAgain, Resolves, Applies, posting
<1>10. /\ ~Begins /\ ~LimitPasses /\ ~Cascaded /\ ~SelectsGated /\ ~SelectsSpared /\ ~Archives /\ ~DayPasses
       /\ ~UNCHANGED vars
  BY <1>8 DEF Begins, LimitPasses, Cascaded, SelectsGated, SelectsSpared, Archives, SelectsIdle, ArchivesIdle,
              SelectsUnverifiable, ArchivesUnverifiable, ArchivesChosen, DayPasses, posting, vars
<1> QED
  BY <1>1, <1>2, <1>3, <1>4, <1>5, <1>6, <1>7, <1>9, <1>10
  DEF Next, Cascade, Marks, PhaseAFails, Restarts, World

(* The steps that archive. *)
LEMMA WhoArchives ==
    ASSUME IInv, [Next]_vars, NEW j \in Jobs, stage[j] # "archived", stage'[j] = "archived"
    PROVE  \/ Keeps(j)
           \/ phase \in {"idle", "unverifiable"} /\ j \in chosen
<1> USE DEF IInv, Inv, TypeOK
<1>1. CASE ArchivesIdle \/ ArchivesUnverifiable  BY <1>1 DEF ArchivesIdle, ArchivesUnverifiable, ArchivesChosen
<1>2. ASSUME NEW i \in Jobs, Keeps(i) PROVE Keeps(j)
  <2>1. i = j  BY <1>2 DEF Keeps
  <2> QED BY <1>2, <2>1
<1>3. ASSUME NEW i \in Jobs PROVE ~Applies(i)  BY DEF Applies
<1>4. ~UNCHANGED stage  OBVIOUS
<1>5. ~(\E i \in Jobs : Starts(i) \/ Finishes(i) \/ DrainGivesUp(i) \/ PersistRaises(i) \/ SeenAgain(i) \/ Preflight(i)
                        \/ Resolves(i))
  BY <1>4 DEF Starts, Finishes, DrainGivesUp, PersistRaises, SeenAgain, Preflight, Resolves, posting
<1>6. /\ ~Begins /\ ~LimitPasses /\ ~Cascaded /\ ~Marks /\ ~SelectsIdle /\ ~SelectsUnverifiable /\ ~PhaseAFails
      /\ ~DayPasses /\ ~Restarts /\ ~UNCHANGED vars
  BY <1>4 DEF Begins, LimitPasses, Cascaded, Marks, MarksUnseen, SelectsGated, MarksGated, SelectsSpared, Clears,
              SelectsIdle, SelectsUnverifiable, PhaseAFails, DayPasses, Restarts, posting, vars
<1> QED BY <1>1, <1>2, <1>3, <1>5, <1>6 DEF Next, Cascade, Archives, World

(* "A job HTTP-verified live tonight must not be stale-marked or clock-archived tonight": *)
(* run_staleness_check, where the host has bound persist_job_expiry_state, for every      *)
(* posting; the gated ones may still be archived as unverifiable.                         *)
THEOREM LiveTonightStaysHolds == Spec => LiveTonightStays
<1>1. ASSUME IInv, [Next]_vars, NEW j \in tonight, "expiry" \in wired
      PROVE  /\ ~stale[j] => ~stale'[j]
             /\ stage[j] = "passive" /\ stage'[j] = "archived" => phase = "unverifiable" /\ j \in Gated
  <2>1. j \in Jobs  BY <1>1 DEF IInv, Inv, TypeOK
  <2>2. ~stale[j] => ~stale'[j]
    <3>1. ~Older(seen[j], Cutoff(j))  BY <1>1, <2>1, LiveIsNotOlder
    <3>2. ~(phase = "gating" /\ j \in chosen)  BY <1>1 DEF IInv, Chosen
    <3> QED BY <1>1, <2>1, <3>1, <3>2, WhoMarks
  <2>3. work[j] # "finished" \/ phase \notin Cascading
    BY <1>1 DEF IInv, Drained
  <2>4. ~Keeps(j)  BY <2>3 DEF Keeps
  <2>5. phase \in {"idle", "unverifiable"} /\ j \in chosen => phase = "unverifiable" /\ j \in Gated
    BY <1>1 DEF IInv, Chosen
  <2> QED BY <1>1, <2>1, <2>2, <2>4, <2>5, WhoArchives
<1>2. IInv /\ [Next]_vars =>
          [\A j \in tonight : "expiry" \in wired =>
              /\ ~stale[j] => ~stale'[j]
              /\ stage[j] = "passive" /\ stage'[j] = "archived" => phase = "unverifiable" /\ j \in Gated]_vars
  BY <1>1
<1> QED BY <1>2, SpecIInv, PTL DEF Spec, LiveTonightStays

(* "NEVER auto-archived": an application that was active when a pass, or Phase C, made its *)
(* selection is not archived by it.                                                         *)
THEOREM ActiveIsKeptHolds == Spec => ActiveIsKept
<1>1. ASSUME IInv, [Next]_vars, NEW j \in Jobs, stage[j] = "active", stage'[j] = "archived" PROVE j \in moved
  BY <1>1, WhoArchives DEF IInv, Selected, Keeps
<1>2. IInv /\ [Next]_vars => [\A j \in Jobs : stage[j] = "active" /\ stage'[j] = "archived" => j \in moved]_vars
  BY <1>1
<1> QED BY <1>2, SpecIInv, PTL DEF Spec, ActiveIsKept

(* The pool is drained before Phase C ends: what a worker has begun is waited for and taken, *)
(* but for a straggler past its timeout, a write that raises, or a restart.                  *)
THEOREM PaidForIsKeptHolds == Spec => PaidForIsKept
<1>1. ASSUME IInv, [Next]_vars, NEW j \in Jobs, work[j] \in {"running", "finished"}
      PROVE  \/ work'[j] \in {"running", "finished"}
             \/ work'[j] = "kept" /\ ("expiry" \in wired => status'[j] = result[j].verdict)
             \/ j \in abandoned \/ Restarts \/ \E i \in Jobs : PersistRaises(i)
  <2> USE DEF IInv, Inv, TypeOK
  <2>1. CASE work' = work  BY <1>1, <2>1
  <2>2. ~Begins  BY <1>1 DEF Begins, Drained, Cascading
  <2>3. CASE Cascaded  BY <1>1, <2>3 DEF Cascaded
  <2>4. ASSUME NEW i \in Jobs, Starts(i) \/ Finishes(i) PROVE work'[j] \in {"running", "finished"}
    BY <1>1, <2>4 DEF Starts, Finishes
  <2>5. ASSUME NEW i \in Jobs, Keeps(i), i # j PROVE work'[j] \in {"running", "finished"}
    <3>1. CASE phase = "C" /\ limit
      <4>1. work' = [k \in Jobs |-> CASE k = i -> "kept" [] work[k] = "queued" -> "cancelled" [] OTHER -> work[k]]
        BY <2>5, <3>1 DEF Keeps, AfterResult
      <4>2. work'[j] = CASE j = i -> "kept" [] work[j] = "queued" -> "cancelled" [] OTHER -> work[j]  BY <4>1
      <4> QED BY <1>1, <2>5, <4>2
    <3>2. CASE ~(phase = "C" /\ limit)
      <4>1. work' = [work EXCEPT ![i] = "kept"]  BY <2>5, <3>2 DEF Keeps, AfterResult
      <4> QED BY <1>1, <2>5, <4>1
    <3> QED BY <3>1, <3>2
  <2>6. CASE Keeps(j)
    <3>1. phase \in Cascading /\ work[j] = "finished" /\ AfterResult(j) /\ VerdictKept(j, result[j].verdict)
      BY <2>6 DEF Keeps
    <3>2. work'[j] = "kept"  BY <1>1, <3>1, AfterResultLeaves
    <3>3. "expiry" \in wired => status' = [status EXCEPT ![j] = result[j].verdict]
      BY <3>1 DEF VerdictKept, persist_job_expiry_state
    <3>4. "expiry" \in wired => status'[j] = result[j].verdict  BY <1>1, <3>3
    <3> QED BY <3>2, <3>4
  <2> QED
    BY <1>1, <2>1, <2>2, <2>3, <2>4, <2>5, <2>6
    DEF Next, vars, Cascade, LimitPasses, DrainGivesUp, Marks, MarksUnseen, SelectsGated, MarksGated, SelectsSpared,
        Clears, Archives, SelectsIdle, ArchivesIdle, SelectsUnverifiable, ArchivesUnverifiable, ArchivesChosen,
        PhaseAFails, DayPasses, World, SeenAgain, Preflight, Resolves, Applies, cascade
<1>2. IInv /\ [Next]_vars =>
          [\A j \in Jobs : work[j] \in {"running", "finished"} =>
              \/ work'[j] \in {"running", "finished"}
              \/ work'[j] = "kept" /\ ("expiry" \in wired => status'[j] = result[j].verdict)
              \/ j \in abandoned \/ Restarts \/ \E i \in Jobs : PersistRaises(i)]_vars
  BY <1>1
<1> QED BY <1>2, SpecIInv, PTL DEF Spec, PaidForIsKept

(* The exception of #1077 to the clear pass: a gated source's sightings clear no mark, *)
(* but for those that come between the pass's SELECT and its UPDATE.                   *)
THEOREM GatedStaysMarkedHolds == Spec => GatedStaysMarked
<1>1. ASSUME IInv, [Next]_vars, NEW j \in Gated, Passive(j), stale[j], ~stale'[j]
      PROVE  status'[j] = "live" \/ j \in raced \cup held
  <2>1. j \in Jobs  BY StalenessAssumption
  <2>2. CASE Clears
    <3>1. ~Older(seen[j], Cutoff(j)) /\ j \notin chosen /\ phase = "sparing" /\ status' = status
      BY <1>1, <2>1, <2>2 DEF Clears
    <3> QED BY <1>1, <3>1 DEF IInv, Spared
  <2> QED BY <1>1, <2>1, <2>2, WhoMarks
<1>2. IInv /\ [Next]_vars =>
          [\A j \in Gated : Passive(j) /\ stale[j] /\ ~stale'[j] => status'[j] = "live" \/ j \in raced \cup held]_vars
  BY <1>1
<1> QED BY <1>2, SpecIInv, PTL DEF Spec, GatedStaysMarked
=============================================================================
