----------------------------- MODULE ScanProofs -----------------------------
(***************************************************************************)
(* What run_ats_scan keeps for any companies, postings, threads and number *)
(* of overlapping runs.  The argument is in InPlace and CutIsLate: work    *)
(* under way belongs to the lane of the phase that the run is in, a worker *)
(* holds keys only until its future is merged, and a run that is cut short *)
(* is past its deadline.  And what the scans leave in the table companies, *)
(* for any boards, scans and extensions: whatever scans, probes and        *)
(* corrections write over one another, a company's row agrees with itself  *)
(* and a board has one owner.                                              *)
(***************************************************************************)
EXTENDS AtsScanRun, CompanyScan, TLAPS

InPlace ==
    \A r \in Runs, c \in Employers :
        /\ found[r][c] # {} => ByWorker(r, c) /\ at[r][c] \in {"running", "finished"}
        /\ phase[r] \notin Active => found[r][c] = {} /\ at[r][c] = "todo"
        /\ at[r][c] = "running" => phase[r] # "D" /\ Lane[c] = PhaseLane[phase[r]]

CutIsLate == \A r \in Runs : /\ phase[r] \in Active /\ cut[r] => "scan" \in late[r]
                             /\ phase[r] = "off" => ~cut[r]

IInv == Inv /\ InPlace /\ CutIsLate

(* The phases and their lanes, without the CASEs. *)
LEMMA PhaseLanes ==
    /\ PhaseLane["A"] = "api" /\ PhaseLane["draining"] = "api"
    /\ PhaseLane["A2"] = "render" /\ PhaseLane["C"] = "page"
    /\ After["A"] = "A2" /\ After["draining"] = "A2" /\ After["A2"] = "C" /\ After["C"] = "D"
BY DEF PhaseLane, After

LEMMA InitIInv == Init => IInv
<1> SUFFICES ASSUME Init PROVE IInv  OBVIOUS
<1> USE ScanRunAssumption DEF Init
<1>1. TypeOK  BY DEF TypeOK, Places
<1>2. Accounted  BY DEF Accounted, Has
<1>3. NobodyLeftBehind /\ InPlace /\ CutIsLate  BY DEF NobodyLeftBehind, InPlace, CutIsLate, Active
<1> QED BY <1>1, <1>2, <1>3 DEF IInv, Inv

-----------------------------------------------------------------------------
LEMMA BeginsKeeps == ASSUME IInv, NEW r \in Runs, Begins(r) PROVE IInv'
<1> USE ScanRunAssumption DEF IInv, Inv, Begins, Sets, Forgets
<1>1. TypeOK'  BY PhaseLanes DEF TypeOK, Places, Active, InSequence
<1>2. Accounted'  BY DEF TypeOK, Accounted, Has, NobodyLeftBehind, InPlace, Active, Pooled, InSequence
<1>3. NobodyLeftBehind'  BY PhaseLanes DEF TypeOK, NobodyLeftBehind, InPlace, Active, Pooled, InSequence, Busy, Running, Todo, ByWorker, Places
<1>4. InPlace'  BY PhaseLanes DEF TypeOK, NobodyLeftBehind, InPlace, Active, Pooled, InSequence, Busy, Running, Todo, ByWorker, Places
<1>5. CutIsLate'  BY PhaseLanes DEF TypeOK, CutIsLate, Active, InSequence
<1> QED BY <1>1, <1>2, <1>3, <1>4, <1>5

LEMMA SubmitsKeeps == ASSUME IInv, NEW r \in Runs, NEW c \in Employers, Submits(r, c) PROVE IInv'
<1> USE ScanRunAssumption DEF IInv, Inv, Submits, Sets, Forgets
<1>1. TypeOK'  BY PhaseLanes DEF TypeOK, Places, Active, InSequence
<1>2. Accounted'  BY DEF TypeOK, Accounted, Has, NobodyLeftBehind, InPlace, Active, Pooled, InSequence
<1>3. NobodyLeftBehind'  BY PhaseLanes DEF TypeOK, NobodyLeftBehind, InPlace, Active, Pooled, InSequence, Busy, Running, Todo, ByWorker, Places
<1>4. InPlace'  BY PhaseLanes DEF TypeOK, NobodyLeftBehind, InPlace, Active, Pooled, InSequence, Busy, Running, Todo, ByWorker, Places
<1>5. CutIsLate'  BY PhaseLanes DEF TypeOK, CutIsLate, Active, InSequence
<1> QED BY <1>1, <1>2, <1>3, <1>4, <1>5

LEMMA StopsSubmittingKeeps == ASSUME IInv, NEW r \in Runs, StopsSubmitting(r) PROVE IInv'
<1> USE ScanRunAssumption DEF IInv, Inv, StopsSubmitting, Sets, Forgets
<1>1. TypeOK'  BY PhaseLanes DEF TypeOK, Places, Active, InSequence
<1>2. Accounted'  BY DEF TypeOK, Accounted, Has, NobodyLeftBehind, InPlace, Active, Pooled, InSequence
<1>3. NobodyLeftBehind'  BY PhaseLanes DEF TypeOK, NobodyLeftBehind, InPlace, Active, Pooled, InSequence, Busy, Running, Todo, ByWorker, Places
<1>4. InPlace'  BY PhaseLanes DEF TypeOK, NobodyLeftBehind, InPlace, Active, Pooled, InSequence, Busy, Running, Todo, ByWorker, Places
<1>5. CutIsLate'  BY PhaseLanes DEF TypeOK, CutIsLate, Active, InSequence
<1> QED BY <1>1, <1>2, <1>3, <1>4, <1>5

LEMMA MergesKeeps == ASSUME IInv, NEW r \in Runs, NEW c \in Employers, Merges(r, c) PROVE IInv'
<1> USE ScanRunAssumption DEF IInv, Inv, Merges, Sets, Forgets
<1>1. TypeOK'  BY PhaseLanes DEF TypeOK, Places, Active, InSequence
<1>2. Accounted'  BY DEF TypeOK, Accounted, Has, NobodyLeftBehind, InPlace, Active, Pooled, InSequence
<1>3. NobodyLeftBehind'  BY PhaseLanes DEF TypeOK, NobodyLeftBehind, InPlace, Active, Pooled, InSequence, Busy, Running, Todo, ByWorker, Places
<1>4. InPlace'  BY PhaseLanes DEF TypeOK, NobodyLeftBehind, InPlace, Active, Pooled, InSequence, Busy, Running, Todo, ByWorker, Places
<1>5. CutIsLate'  BY PhaseLanes DEF TypeOK, CutIsLate, Active, InSequence
<1> QED BY <1>1, <1>2, <1>3, <1>4, <1>5

LEMMA DrainedKeeps == ASSUME IInv, NEW r \in Runs, Drained(r) PROVE IInv'
<1> USE ScanRunAssumption DEF IInv, Inv, Drained, Sets, Forgets
<1>1. TypeOK'  BY PhaseLanes DEF TypeOK, Places, Active, InSequence
<1>2. Accounted'  BY DEF TypeOK, Accounted, Has, NobodyLeftBehind, InPlace, Active, Pooled, InSequence
<1>3. NobodyLeftBehind'  BY PhaseLanes DEF TypeOK, NobodyLeftBehind, InPlace, Active, Pooled, InSequence, Busy, Running, Todo, ByWorker, Places
<1>4. InPlace'  BY PhaseLanes DEF TypeOK, NobodyLeftBehind, InPlace, Active, Pooled, InSequence, Busy, Running, Todo, ByWorker, Places
<1>5. CutIsLate'  BY PhaseLanes DEF TypeOK, CutIsLate, Active, InSequence
<1> QED BY <1>1, <1>2, <1>3, <1>4, <1>5

LEMMA VisitsKeeps == ASSUME IInv, NEW r \in Runs, NEW c \in Employers, Visits(r, c) PROVE IInv'
<1> USE ScanRunAssumption DEF IInv, Inv, Visits, Sets, Forgets
<1>1. TypeOK'  BY PhaseLanes DEF TypeOK, Places, Active, InSequence
<1>2. Accounted'  BY DEF TypeOK, Accounted, Has, NobodyLeftBehind, InPlace, Active, Pooled, InSequence
<1>3. NobodyLeftBehind'  BY PhaseLanes DEF TypeOK, NobodyLeftBehind, InPlace, Active, Pooled, InSequence, Busy, Running, Todo, ByWorker, Places
<1>4. InPlace'  BY PhaseLanes DEF TypeOK, NobodyLeftBehind, InPlace, Active, Pooled, InSequence, Busy, Running, Todo, ByWorker, Places
<1>5. CutIsLate'  BY PhaseLanes DEF TypeOK, CutIsLate, Active, InSequence
<1> QED BY <1>1, <1>2, <1>3, <1>4, <1>5

LEMMA EndsPhaseKeeps == ASSUME IInv, NEW r \in Runs, EndsPhase(r) PROVE IInv'
<1> USE ScanRunAssumption DEF IInv, Inv, EndsPhase, Sets, Forgets
<1>1. TypeOK'  BY PhaseLanes DEF TypeOK, Places, Active, InSequence
<1>2. Accounted'  BY DEF TypeOK, Accounted, Has, NobodyLeftBehind, InPlace, Active, Pooled, InSequence
<1>3. NobodyLeftBehind'  BY PhaseLanes DEF TypeOK, NobodyLeftBehind, InPlace, Active, Pooled, InSequence, Busy, Running, Todo, ByWorker, Places
<1>4. InPlace'  BY PhaseLanes DEF TypeOK, NobodyLeftBehind, InPlace, Active, Pooled, InSequence, Busy, Running, Todo, ByWorker, Places
<1>5. CutIsLate'  BY PhaseLanes DEF TypeOK, CutIsLate, Active, InSequence
<1> QED BY <1>1, <1>2, <1>3, <1>4, <1>5

LEMMA LaunchFailsKeeps == ASSUME IInv, NEW r \in Runs, LaunchFails(r) PROVE IInv'
<1> USE ScanRunAssumption DEF IInv, Inv, LaunchFails, Sets, Forgets
<1>1. TypeOK'  BY PhaseLanes DEF TypeOK, Places, Active, InSequence
<1>2. Accounted'  BY DEF TypeOK, Accounted, Has, NobodyLeftBehind, InPlace, Active, Pooled, InSequence
<1>3. NobodyLeftBehind'  BY PhaseLanes DEF TypeOK, NobodyLeftBehind, InPlace, Active, Pooled, InSequence, Busy, Running, Todo, ByWorker, Places
<1>4. InPlace'  BY PhaseLanes DEF TypeOK, NobodyLeftBehind, InPlace, Active, Pooled, InSequence, Busy, Running, Todo, ByWorker, Places
<1>5. CutIsLate'  BY PhaseLanes DEF TypeOK, CutIsLate, Active, InSequence
<1> QED BY <1>1, <1>2, <1>3, <1>4, <1>5

LEMMA TakesKeeps == ASSUME IInv, NEW r \in Runs, NEW c \in Employers, Takes(r, c) PROVE IInv'
<1> USE ScanRunAssumption DEF IInv, Inv, Sets
<1>1. /\ ByWorker(r, c) /\ at[r][c] = "queued" /\ phase[r] \in Active
      /\ UNCHANGED <<phase, found, keys, tried, late, cut, raised, by>>
  BY DEF Takes
<1>2. CASE at' = [at EXCEPT ![r][c] = "finished"] /\ UNCHANGED left
  <2>1. TypeOK'  BY <1>1, <1>2, PhaseLanes DEF TypeOK, Places, Active, InSequence
  <2>2. Accounted'  BY <1>1, <1>2, PhaseLanes DEF TypeOK, Accounted, Has, NobodyLeftBehind, InPlace, Active, Pooled, InSequence, ByWorker
  <2>3. NobodyLeftBehind'  BY <1>1, <1>2, PhaseLanes DEF TypeOK, NobodyLeftBehind, InPlace, Active, Pooled, InSequence, ByWorker, Places
  <2>4. InPlace'  BY <1>1, <1>2, PhaseLanes DEF TypeOK, NobodyLeftBehind, InPlace, Active, Pooled, InSequence, ByWorker, Places
  <2>5. CutIsLate'  BY <1>1, <1>2, PhaseLanes DEF TypeOK, CutIsLate, Active
  <2> QED BY <2>1, <2>2, <2>3, <2>4, <2>5
<1>3. CASE at' = [at EXCEPT ![r][c] = "running"] /\ left' = [left EXCEPT ![r][c] = Finds[c]]
  <2>1. TypeOK'  BY <1>1, <1>3, PhaseLanes DEF TypeOK, Places, Active, InSequence
  <2>2. Accounted'  BY <1>1, <1>3, PhaseLanes DEF TypeOK, Accounted, Has, NobodyLeftBehind, InPlace, Active, Pooled, InSequence, ByWorker
  <2>3. NobodyLeftBehind'  BY <1>1, <1>3, PhaseLanes DEF TypeOK, NobodyLeftBehind, InPlace, Active, Pooled, InSequence, ByWorker, Places
  <2>4. InPlace'  BY <1>1, <1>3, PhaseLanes DEF TypeOK, NobodyLeftBehind, InPlace, Active, Pooled, InSequence, ByWorker, Places
  <2>5. CutIsLate'  BY <1>1, <1>3, PhaseLanes DEF TypeOK, CutIsLate, Active
  <2> QED BY <2>1, <2>2, <2>3, <2>4, <2>5
<1> QED BY <1>2, <1>3 DEF Takes

LEMMA UpsertsKeeps == ASSUME IInv, NEW r \in Runs, NEW c \in Employers, NEW p \in Postings, Upserts(r, c, p) PROVE IInv'
<1> USE ScanRunAssumption DEF IInv, Inv
<1>1. /\ at[r][c] = "running" /\ phase[r] \in Active
      /\ left' = [left EXCEPT ![r][c] = @ \ {p}]
      /\ UNCHANGED <<phase, at, tried, late, cut, raised>>
  BY DEF Upserts
<1>2. CASE ByWorker(r, c) /\ by[p] = None /\ by' = [by EXCEPT ![p] = r]
           /\ found' = [found EXCEPT ![r][c] = @ \cup {p}] /\ UNCHANGED keys
  <2>1. TypeOK'  BY <1>1, <1>2, PhaseLanes DEF TypeOK, Places, Active, InSequence
  <2>2. Accounted'  BY <1>1, <1>2, PhaseLanes DEF TypeOK, Accounted, Has, NobodyLeftBehind, InPlace, Active, Pooled, InSequence, ByWorker
  <2>3. NobodyLeftBehind'  BY <1>1, <1>2, PhaseLanes DEF TypeOK, NobodyLeftBehind, InPlace, Active, Pooled, InSequence, ByWorker, Places
  <2>4. InPlace'  BY <1>1, <1>2, PhaseLanes DEF TypeOK, NobodyLeftBehind, InPlace, Active, Pooled, InSequence, ByWorker, Places
  <2>5. CutIsLate'  BY <1>1, <1>2, PhaseLanes DEF TypeOK, CutIsLate, Active
  <2> QED BY <2>1, <2>2, <2>3, <2>4, <2>5
<1>3. CASE by[p] = None /\ by' = [by EXCEPT ![p] = r] /\ keys' = [keys EXCEPT ![r] = @ \cup {p}] /\ UNCHANGED found
  <2>1. TypeOK'  BY <1>1, <1>3, PhaseLanes DEF TypeOK, Places, Active, InSequence
  <2>2. Accounted'  BY <1>1, <1>3, PhaseLanes DEF TypeOK, Accounted, Has, NobodyLeftBehind, InPlace, Active, Pooled, InSequence, ByWorker
  <2>3. NobodyLeftBehind'  BY <1>1, <1>3, PhaseLanes DEF TypeOK, NobodyLeftBehind, InPlace, Active, Pooled, InSequence, ByWorker, Places
  <2>4. InPlace'  BY <1>1, <1>3, PhaseLanes DEF TypeOK, NobodyLeftBehind, InPlace, Active, Pooled, InSequence, ByWorker, Places
  <2>5. CutIsLate'  BY <1>1, <1>3, PhaseLanes DEF TypeOK, CutIsLate, Active
  <2> QED BY <2>1, <2>2, <2>3, <2>4, <2>5
<1>4. CASE UNCHANGED <<by, keys, found>>
  <2>1. TypeOK'  BY <1>1, <1>4, PhaseLanes DEF TypeOK, Places, Active, InSequence
  <2>2. Accounted'  BY <1>1, <1>4, PhaseLanes DEF TypeOK, Accounted, Has, NobodyLeftBehind, InPlace, Active, Pooled, InSequence, ByWorker
  <2>3. NobodyLeftBehind'  BY <1>1, <1>4, PhaseLanes DEF TypeOK, NobodyLeftBehind, InPlace, Active, Pooled, InSequence, ByWorker, Places
  <2>4. InPlace'  BY <1>1, <1>4, PhaseLanes DEF TypeOK, NobodyLeftBehind, InPlace, Active, Pooled, InSequence, ByWorker, Places
  <2>5. CutIsLate'  BY <1>1, <1>4, PhaseLanes DEF TypeOK, CutIsLate, Active
  <2> QED BY <2>1, <2>2, <2>3, <2>4, <2>5
<1> QED BY <1>2, <1>3, <1>4 DEF Upserts

LEMMA LeavesKeeps == ASSUME IInv, NEW r \in Runs, NEW c \in Employers, Leaves(r, c) PROVE IInv'
<1> USE ScanRunAssumption DEF IInv, Inv, Leaves, Sets, Forgets
<1>1. TypeOK'  BY PhaseLanes DEF TypeOK, Places, Active, InSequence
<1>2. Accounted'  BY DEF TypeOK, Accounted, Has, NobodyLeftBehind, InPlace, Active, Pooled, InSequence
<1>3. NobodyLeftBehind'  BY PhaseLanes DEF TypeOK, NobodyLeftBehind, InPlace, Active, Pooled, InSequence, Busy, Running, Todo, ByWorker, Places
<1>4. InPlace'  BY PhaseLanes DEF TypeOK, NobodyLeftBehind, InPlace, Active, Pooled, InSequence, Busy, Running, Todo, ByWorker, Places
<1>5. CutIsLate'  BY PhaseLanes DEF TypeOK, CutIsLate, Active, InSequence
<1> QED BY <1>1, <1>2, <1>3, <1>4, <1>5

LEMMA WorkerRaisesKeeps == ASSUME IInv, NEW r \in Runs, NEW c \in Employers, WorkerRaises(r, c) PROVE IInv'
<1> USE ScanRunAssumption DEF IInv, Inv, WorkerRaises, Sets, Forgets
<1>1. TypeOK'  BY PhaseLanes DEF TypeOK, Places, Active, InSequence
<1>2. Accounted'  BY DEF TypeOK, Accounted, Has, NobodyLeftBehind, InPlace, Active, Pooled, InSequence
<1>3. NobodyLeftBehind'  BY PhaseLanes DEF TypeOK, NobodyLeftBehind, InPlace, Active, Pooled, InSequence, Busy, Running, Todo, ByWorker, Places
<1>4. InPlace'  BY PhaseLanes DEF TypeOK, NobodyLeftBehind, InPlace, Active, Pooled, InSequence, Busy, Running, Todo, ByWorker, Places
<1>5. CutIsLate'  BY PhaseLanes DEF TypeOK, CutIsLate, Active, InSequence
<1> QED BY <1>1, <1>2, <1>3, <1>4, <1>5

LEMMA ScoresKeeps == ASSUME IInv, NEW r \in Runs, NEW p \in Postings, Scores(r, p) PROVE IInv'
<1> USE ScanRunAssumption DEF IInv, Inv, Scores, Sets, Forgets
<1>1. TypeOK'  BY PhaseLanes DEF TypeOK, Places, Active, InSequence
<1>2. Accounted'  BY DEF TypeOK, Accounted, Has, NobodyLeftBehind, InPlace, Active, Pooled, InSequence
<1>3. NobodyLeftBehind'  BY PhaseLanes DEF TypeOK, NobodyLeftBehind, InPlace, Active, Pooled, InSequence, Busy, Running, Todo, ByWorker, Places
<1>4. InPlace'  BY PhaseLanes DEF TypeOK, NobodyLeftBehind, InPlace, Active, Pooled, InSequence, Busy, Running, Todo, ByWorker, Places
<1>5. CutIsLate'  BY PhaseLanes DEF TypeOK, CutIsLate, Active, InSequence
<1> QED BY <1>1, <1>2, <1>3, <1>4, <1>5

LEMMA EndsScoringKeeps == ASSUME IInv, NEW r \in Runs, EndsScoring(r) PROVE IInv'
<1> USE ScanRunAssumption DEF IInv, Inv, EndsScoring, Sets, Forgets
<1>1. TypeOK'  BY PhaseLanes DEF TypeOK, Places, Active, InSequence
<1>2. Accounted'
  <2>1. \A c \in Employers : found[r][c] = {}  BY DEF NobodyLeftBehind, Active, Pooled
  <2>2. \A q \in Runs, p \in Postings : Has(q, p)' <=> Has(q, p)  BY <2>1 DEF TypeOK, Has
  <2> QED BY <2>2 DEF TypeOK, Accounted
<1>3. NobodyLeftBehind'  BY PhaseLanes DEF TypeOK, NobodyLeftBehind, InPlace, Active, Pooled, InSequence, Busy, Running, Todo, ByWorker, Places
<1>4. InPlace'  BY PhaseLanes DEF TypeOK, NobodyLeftBehind, InPlace, Active, Pooled, InSequence, Busy, Running, Todo, ByWorker, Places
<1>5. CutIsLate'  BY PhaseLanes DEF TypeOK, CutIsLate, Active, InSequence
<1> QED BY <1>1, <1>2, <1>3, <1>4, <1>5

LEMMA ScoringFailsKeeps == ASSUME IInv, NEW r \in Runs, ScoringFails(r) PROVE IInv'
<1> USE ScanRunAssumption DEF IInv, Inv, ScoringFails, Sets, Forgets
<1>1. TypeOK'  BY PhaseLanes DEF TypeOK, Places, Active, InSequence
<1>2. Accounted'  BY DEF TypeOK, Accounted, Has, NobodyLeftBehind, InPlace, Active, Pooled, InSequence
<1>3. NobodyLeftBehind'  BY PhaseLanes DEF TypeOK, NobodyLeftBehind, InPlace, Active, Pooled, InSequence, Busy, Running, Todo, ByWorker, Places
<1>4. InPlace'  BY PhaseLanes DEF TypeOK, NobodyLeftBehind, InPlace, Active, Pooled, InSequence, Busy, Running, Todo, ByWorker, Places
<1>5. CutIsLate'  BY PhaseLanes DEF TypeOK, CutIsLate, Active, InSequence
<1> QED BY <1>1, <1>2, <1>3, <1>4, <1>5

LEMMA PassesKeeps == ASSUME IInv, NEW r \in Runs, NEW ds \in SUBSET {"scan", "wall"}, Passes(r, ds) PROVE IInv'
<1> USE ScanRunAssumption DEF IInv, Inv, Passes, Sets, Forgets
<1>1. TypeOK'  BY PhaseLanes DEF TypeOK, Places, Active, InSequence
<1>2. Accounted'  BY DEF TypeOK, Accounted, Has, NobodyLeftBehind, InPlace, Active, Pooled, InSequence
<1>3. NobodyLeftBehind'  BY PhaseLanes DEF TypeOK, NobodyLeftBehind, InPlace, Active, Pooled, InSequence, Busy, Running, Todo, ByWorker, Places
<1>4. InPlace'  BY PhaseLanes DEF TypeOK, NobodyLeftBehind, InPlace, Active, Pooled, InSequence, Busy, Running, Todo, ByWorker, Places
<1>5. CutIsLate'  BY PhaseLanes DEF TypeOK, CutIsLate, Active, InSequence
<1> QED BY <1>1, <1>2, <1>3, <1>4, <1>5

LEMMA KilledKeeps == ASSUME IInv, Killed PROVE IInv'
<1> USE ScanRunAssumption DEF IInv, Inv, Killed, Sets, Forgets
<1>1. TypeOK'  BY PhaseLanes DEF TypeOK, Places, Active, InSequence
<1>2. Accounted'  BY DEF TypeOK, Accounted, Has, NobodyLeftBehind, InPlace, Active, Pooled, InSequence
<1>3. NobodyLeftBehind'  BY PhaseLanes DEF TypeOK, NobodyLeftBehind, InPlace, Active, Pooled, InSequence, Busy, Running, Todo, ByWorker, Places
<1>4. InPlace'  BY PhaseLanes DEF TypeOK, NobodyLeftBehind, InPlace, Active, Pooled, InSequence, Busy, Running, Todo, ByWorker, Places
<1>5. CutIsLate'  BY PhaseLanes DEF TypeOK, CutIsLate, Active, InSequence
<1> QED BY <1>1, <1>2, <1>3, <1>4, <1>5

LEMMA NextIInv == IInv /\ [Next]_vars => IInv'
<1> SUFFICES ASSUME IInv, [Next]_vars PROVE IInv'  OBVIOUS
<1>1. ASSUME NEW r \in Runs, Begins(r) \/ Outer(r) PROVE IInv'
  BY <1>1, BeginsKeeps, StopsSubmittingKeeps, DrainedKeeps, EndsPhaseKeeps, LaunchFailsKeeps, EndsScoringKeeps,
     ScoringFailsKeeps, SubmitsKeeps, MergesKeeps, VisitsKeeps, ScoresKeeps DEF Outer
<1>2. ASSUME NEW r \in Runs, NEW deadlines \in SUBSET {"scan", "wall"}, Passes(r, deadlines) PROVE IInv'
  BY <1>2, PassesKeeps
<1>3. ASSUME NEW r \in Runs, NEW c \in Employers, Works(r, c) PROVE IInv'
  BY <1>3, TakesKeeps, UpsertsKeeps, LeavesKeeps, WorkerRaisesKeeps DEF Works
<1>4. CASE Killed  BY <1>4, KilledKeeps
<1>5. CASE UNCHANGED vars
  BY <1>5 DEF vars, IInv, Inv, TypeOK, Accounted, Has, NobodyLeftBehind, InPlace, CutIsLate,
              Pooled, InSequence, ByWorker
<1> QED BY <1>1, <1>2, <1>3, <1>4, <1>5 DEF Next

LEMMA SpecIInv == Spec => []IInv
BY InitIInv, NextIInv, PTL DEF Spec

(* What a run adds is among its keys or in a result still to be merged, and nobody of *)
(* the pool is at work outside of the pool's phase: the drain of run_ats_scan.        *)
THEOREM InvHolds == Spec => []Inv
<1>1. IInv => Inv  BY DEF IInv
<1> QED BY <1>1, SpecIInv, PTL

-----------------------------------------------------------------------------

(* A run that has noticed its deadline, past which the outer loops begin nothing, has *)
(* raised abort_scan as well: nothing begins in the pool either.                      *)
LEMMA StepStartsNothing ==
    ASSUME IInv, [Next]_vars, NEW r \in Runs, NEW c \in Employers, cut[r], at'[r][c] = "running"
    PROVE  at[r][c] = "running"
<1> USE DEF IInv, Inv, TypeOK
<1>1. CASE at' = at  BY <1>1
<1>2. ASSUME NEW q \in Runs, NEW d \in Employers, NEW where, where # "running",
             at' = [at EXCEPT ![q][d] = where]
      PROVE  at[r][c] = "running"
  BY <1>2
<1>3. ASSUME NEW q \in Runs, NEW d \in Employers, Visits(q, d) PROVE at[r][c] = "running"
  BY <1>3 DEF Visits, Sets, CutIsLate, InSequence, Active
<1>4. ASSUME NEW q \in Runs, NEW d \in Employers, Takes(q, d) PROVE at[r][c] = "running"
  <2>1. CASE cut[q]
    <3>1. at' = [at EXCEPT ![q][d] = "finished"]  BY <1>4, <2>1 DEF Takes, Sets
    <3> QED BY <1>2, <3>1
  <2>2. CASE ~cut[q]
    <3>1. at' = [at EXCEPT ![q][d] = "running"] /\ q # r  BY <1>4, <2>2 DEF Takes, Sets
    <3> QED BY <3>1
  <2> QED BY <2>1, <2>2
<1>5. ASSUME NEW runs, Forgets(runs) PROVE at[r][c] = "running"
  BY <1>5 DEF Forgets
<1>6. ASSUME NEW q \in Runs, Outer(q) PROVE at[r][c] = "running"
  <2>1. CASE StopsSubmitting(q) \/ Drained(q) \/ EndsPhase(q) \/ \E p \in Postings : Scores(q, p)
    BY <1>1, <2>1 DEF StopsSubmitting, Drained, EndsPhase, Scores
  <2>2. CASE LaunchFails(q) \/ EndsScoring(q) \/ ScoringFails(q)
    BY <1>5, <2>2 DEF LaunchFails, EndsScoring, ScoringFails
  <2>3. ASSUME NEW d \in Employers, Submits(q, d) PROVE at[r][c] = "running"
    BY <1>2, <2>3 DEF Submits, Sets
  <2>4. ASSUME NEW d \in Employers, Merges(q, d) PROVE at[r][c] = "running"
    BY <1>2, <2>4 DEF Merges, Sets
  <2> QED BY <1>3, <1>6, <2>1, <2>2, <2>3, <2>4 DEF Outer
<1>7. ASSUME NEW q \in Runs, NEW d \in Employers, Works(q, d) PROVE at[r][c] = "running"
  <2>1. CASE Leaves(q, d)
    <3>1. at' = [at EXCEPT ![q][d] = "finished"] \/ at' = [at EXCEPT ![q][d] = "done"]  BY <2>1 DEF Leaves, Sets
    <3> QED BY <1>2, <3>1
  <2>2. CASE WorkerRaises(q, d)  BY <1>2, <2>2 DEF WorkerRaises, Sets
  <2>3. CASE \E p \in Postings : Upserts(q, d, p)  BY <1>1, <2>3 DEF Upserts
  <2> QED BY <1>4, <1>7, <2>1, <2>2, <2>3 DEF Works
<1> QED BY <1>1, <1>5, <1>6, <1>7 DEF Next, vars, Begins, Passes, Killed

(* abort_scan is looked at by every worker before it begins, and the deadline by every loop. *)
THEOREM TruncationStopsStartsHolds == Spec => TruncationStopsStarts
<1>1. IInv /\ [Next]_vars =>
          [\A r \in Runs, c \in Employers : cut[r] /\ at'[r][c] = "running" => at[r][c] = "running"]_vars
  BY StepStartsNothing
<1> QED BY <1>1, SpecIInv, PTL DEF Spec, TruncationStopsStarts

-----------------------------------------------------------------------------
(* The refinement *)

LEMMA Stages ==
    /\ StageOf("off") = "off" /\ StageOf("D") = "scoring" /\ StageOf("ended") = "ended"
    /\ StageOf("failed") = "dead" /\ StageOf("killed") = "dead"
    /\ \A p \in Active \ {"D"} : StageOf(p) = "finding"
    /\ \A p \in Active : StageOf(p) \in {"finding", "scoring"}
BY DEF StageOf, Active

LEMMA StageMoves ==
    ASSUME TypeOK, NEW r \in Runs, NEW p, phase' = [phase EXCEPT ![r] = p]
    PROVE  Stage' = [Stage EXCEPT ![r] = StageOf(p)]
<1>1. ASSUME NEW q \in Runs PROVE StageOf(phase'[q]) = [Stage EXCEPT ![r] = StageOf(p)][q]
  BY DEF TypeOK, Stage
<1>2. Stage' = [q \in Runs |-> StageOf(phase'[q])]  BY DEF Stage, StageOf
<1> QED BY <1>1, <1>2 DEF Stage

LEMMA StageStays == ASSUME TypeOK, NEW r \in Runs, NEW p, phase' = [phase EXCEPT ![r] = p], StageOf(p) = StageOf(phase[r])
    PROVE  UNCHANGED Stage
BY StageMoves DEF Stage

(* The excuse of a run is added or stays. *)
LEMMA ExcuseAdded ==
    ASSUME TypeOK, NEW r \in Runs, NEW yes \in BOOLEAN,
           \/ cut' = [cut EXCEPT ![r] = @ \/ yes] /\ raised' = raised
           \/ raised' = [raised EXCEPT ![r] = yes \/ @] /\ cut' = cut
    PROVE  Excused' = IF yes THEN [Excused EXCEPT ![r] = TRUE] ELSE Excused
<1>1. CASE yes = TRUE  BY <1>1 DEF TypeOK, Excused
<1>2. CASE yes = FALSE  BY <1>2 DEF TypeOK, Excused
<1> QED BY <1>1, <1>2

LEMMA InitImplements == Init => Promise!Init
<1> SUFFICES ASSUME Init PROVE Promise!Init  OBVIOUS
<1>1. Stage = [r \in Runs |-> "off"]  BY Stages DEF Init, Stage
<1>2. Excused = [r \in Runs |-> FALSE]  BY DEF Init, Excused
<1> QED BY <1>1, <1>2 DEF Init, Promise!Init

(* Steps in which neither the rows, the stage nor what was tried is touched. *)
LEMMA QuietSteps ==
    ASSUME TypeOK, NEW r \in Runs, UNCHANGED <<by, tried, Stage>>,
           \/ \E yes \in BOOLEAN : cut' = [cut EXCEPT ![r] = @ \/ yes] /\ raised' = raised
           \/ raised' = [raised EXCEPT ![r] = TRUE] /\ cut' = cut
           \/ UNCHANGED <<cut, raised>>
    PROVE  [Promise!Next]_(Promise!vars)
<1>1. Excused' = [Excused EXCEPT ![r] = TRUE] \/ Excused' = Excused
  <2>1. CASE UNCHANGED <<cut, raised>>  BY <2>1 DEF Excused
  <2>2. CASE raised' = [raised EXCEPT ![r] = TRUE] /\ cut' = cut
    <3>1. raised' = [raised EXCEPT ![r] = TRUE \/ @]  BY <2>2
    <3> QED BY <2>2, <3>1, ExcuseAdded
  <2>3. ASSUME NEW yes \in BOOLEAN, cut' = [cut EXCEPT ![r] = @ \/ yes] /\ raised' = raised
        PROVE  Excused' = [Excused EXCEPT ![r] = TRUE] \/ Excused' = Excused
    BY <2>3, ExcuseAdded
  <2> QED BY <2>1, <2>2, <2>3
<1> QED BY <1>1 DEF Promise!Next, Promise!vars, Promise!Excuses

(* A step of the phase alone, with or without an excuse. *)
LEMMA PhaseSteps ==
    ASSUME IInv, NEW r \in Runs, NEW p, phase' = [phase EXCEPT ![r] = p], UNCHANGED <<by, tried>>,
           StageOf(phase[r]) = "finding" /\ StageOf(p) \in {"finding", "scoring"},
           \E yes \in BOOLEAN : cut' = [cut EXCEPT ![r] = @ \/ yes] /\ raised' = raised
    PROVE  [Promise!Next]_(Promise!vars)
<1> USE DEF IInv, Inv
<1>1. CASE StageOf(p) = "finding"
  <2>1. UNCHANGED Stage  BY <1>1, StageStays
  <2> QED BY <2>1, QuietSteps
<1>2. CASE StageOf(p) = "scoring"
  <2>1. Stage[r] = "finding" /\ Stage' = [Stage EXCEPT ![r] = "scoring"]  BY <1>2, StageMoves DEF Stage
  <2>2. Excused' \in {Excused, [Excused EXCEPT ![r] = TRUE]}  BY ExcuseAdded
  <2> QED BY <2>1, <2>2 DEF Promise!Next, Promise!TurnsToScoring
<1> QED BY <1>1, <1>2

(* The end of the scoring: what is left unscored has an excuse. *)
LEMMA EndSteps ==
    ASSUME IInv, NEW r \in Runs, phase[r] = "D", phase' = [phase EXCEPT ![r] = "ended"], UNCHANGED <<by, tried>>,
           \/ cut' = [cut EXCEPT ![r] = @ \/ ~(keys[r] \subseteq tried[r])] /\ raised' = raised
           \/ raised' = [raised EXCEPT ![r] = TRUE] /\ cut' = cut
    PROVE  Promise!Ends(r)
<1> USE DEF IInv, Inv
<1>1. Stage[r] = "scoring" /\ Stage' = [Stage EXCEPT ![r] = "ended"]
  <2>1. Stage[r] = "scoring"  BY Stages DEF Stage
  <2>2. Stage' = [Stage EXCEPT ![r] = StageOf("ended")]  BY StageMoves
  <2> QED BY <2>1, <2>2, Stages
<1>2. Excused'[r] <=> cut'[r] \/ raised'[r]  BY DEF Excused
<1>3. Excused' \in {Excused, [Excused EXCEPT ![r] = TRUE]}
  <2>1. CASE cut' = [cut EXCEPT ![r] = @ \/ ~(keys[r] \subseteq tried[r])] /\ raised' = raised
    <3>1. CASE keys[r] \subseteq tried[r]
      <4>1. cut' = [cut EXCEPT ![r] = @ \/ FALSE] /\ raised' = raised  BY <2>1, <3>1 DEF TypeOK
      <4> QED BY <4>1, ExcuseAdded
    <3>2. CASE ~(keys[r] \subseteq tried[r])
      <4>1. cut' = [cut EXCEPT ![r] = @ \/ TRUE] /\ raised' = raised  BY <2>1, <3>2 DEF TypeOK
      <4> QED BY <4>1, ExcuseAdded
    <3> QED BY <3>1, <3>2
  <2>2. CASE raised' = [raised EXCEPT ![r] = TRUE] /\ cut' = cut
    <3>1. raised' = [raised EXCEPT ![r] = TRUE \/ @]  BY <2>2
    <3> QED BY <2>2, <3>1, ExcuseAdded
  <2> QED BY <2>1, <2>2
<1>4. cut'[r] \/ raised'[r] \/ (keys[r] \subseteq tried[r] /\ ~raised[r])
  BY DEF TypeOK
<1>5. ASSUME keys[r] \subseteq tried[r], ~raised[r], NEW p \in Postings, by[p] = r PROVE p \in tried[r]
  <2>1. \A c \in Employers : found[r][c] = {}  BY DEF NobodyLeftBehind, Active, Pooled
  <2>2. Has(r, p)  BY <1>5 DEF Accounted
  <2> QED BY <1>5, <2>1, <2>2 DEF Has
<1> QED BY <1>1, <1>2, <1>3, <1>4, <1>5 DEF Promise!Ends

LEMMA StepImplements == IInv /\ [Next]_vars => [Promise!Next]_(Promise!vars)
<1> SUFFICES ASSUME IInv, [Next]_vars PROVE [Promise!Next]_(Promise!vars)  OBVIOUS
<1> USE DEF IInv, Inv
<1>1. CASE UNCHANGED <<phase, by, tried, cut, raised>>
  <2>1. UNCHANGED Stage /\ UNCHANGED Excused  BY <1>1 DEF Stage, Excused
  <2> QED BY <1>1, <2>1 DEF Promise!vars
<1>2. ASSUME NEW r \in Runs, Begins(r) PROVE Promise!Starts(r)
  <2>1. Stage[r] = "off" /\ Stage' = [Stage EXCEPT ![r] = StageOf("A")]
    BY <1>2, Stages, StageMoves DEF Begins, Stage
  <2>2. StageOf("A") = "finding"  BY Stages DEF Active
  <2>3. UNCHANGED Excused  BY <1>2 DEF Begins, Excused
  <2> QED BY <1>2, <2>1, <2>2, <2>3 DEF Begins, Promise!Starts
<1>3. ASSUME NEW r \in Runs, StopsSubmitting(r) \/ Drained(r) \/ EndsPhase(r) PROVE [Promise!Next]_(Promise!vars)
  <2>1. PICK p \in {"draining", "A2", "C", "D"} : phase' = [phase EXCEPT ![r] = p]
    BY <1>3, PhaseLanes DEF StopsSubmitting, Drained, EndsPhase, InSequence
  <2>2. StageOf(phase[r]) = "finding" /\ StageOf(p) \in {"finding", "scoring"}
    BY <1>3, Stages DEF StopsSubmitting, Drained, EndsPhase, InSequence, Active
  <2>3. PICK yes \in BOOLEAN : cut' = [cut EXCEPT ![r] = @ \/ yes] /\ raised' = raised
    <3>1. CASE cut' = [cut EXCEPT ![r] = @ \/ Todo(r) # {}] /\ raised' = raised
      <4>1. CASE Todo(r) = {}
        <5>1. cut' = [cut EXCEPT ![r] = @ \/ FALSE]  BY <3>1, <4>1 DEF TypeOK
        <5> QED BY <3>1, <5>1
      <4>2. CASE Todo(r) # {}
        <5>1. cut' = [cut EXCEPT ![r] = @ \/ TRUE]  BY <3>1, <4>2 DEF TypeOK
        <5> QED BY <3>1, <5>1
      <4> QED BY <4>1, <4>2
    <3>2. CASE UNCHANGED <<cut, raised>>
      <4>1. cut' = [cut EXCEPT ![r] = @ \/ FALSE]  BY <3>2 DEF TypeOK
      <4> QED BY <3>2, <4>1
    <3> QED BY <1>3, <3>1, <3>2 DEF StopsSubmitting, Drained, EndsPhase
  <2>4. UNCHANGED <<by, tried>>  BY <1>3 DEF StopsSubmitting, Drained, EndsPhase
  <2> QED BY <2>1, <2>2, <2>3, <2>4, PhaseSteps
<1>4. ASSUME NEW r \in Runs, NEW c \in Employers, Merges(r, c) PROVE [Promise!Next]_(Promise!vars)
  <2>1. UNCHANGED Stage  BY <1>4 DEF Merges, Stage
  <2>2. \E yes \in BOOLEAN : cut' = [cut EXCEPT ![r] = @ \/ yes] /\ raised' = raised
    <3>1. CASE "scan" \in late[r]
      <4>1. cut' = [cut EXCEPT ![r] = @ \/ TRUE] /\ raised' = raised  BY <1>4, <3>1 DEF Merges, TypeOK
      <4> QED BY <4>1
    <3>2. CASE "scan" \notin late[r]
      <4>1. cut' = [cut EXCEPT ![r] = @ \/ FALSE] /\ raised' = raised  BY <1>4, <3>2 DEF Merges, TypeOK
      <4> QED BY <4>1
    <3> QED BY <3>1, <3>2
  <2> QED BY <1>4, <2>1, <2>2, QuietSteps DEF Merges
<1>5. ASSUME NEW r \in Runs, NEW c \in Employers, WorkerRaises(r, c) PROVE [Promise!Next]_(Promise!vars)
  <2>1. UNCHANGED Stage  BY <1>5 DEF WorkerRaises, Stage
  <2> QED BY <1>5, <2>1, QuietSteps DEF WorkerRaises
<1>6. ASSUME NEW r \in Runs, NEW c \in Employers, NEW p \in Postings, Upserts(r, c, p)
      PROVE  Promise!Adds(r, p) \/ UNCHANGED <<phase, by, tried, cut, raised>>
  <2>1. UNCHANGED <<phase, tried, cut, raised>>  BY <1>6 DEF Upserts
  <2>2. Stage[r] = "finding"  BY <1>6, Stages DEF Upserts, InPlace, Stage
  <2>3. UNCHANGED Stage /\ UNCHANGED Excused  BY <2>1 DEF Stage, Excused
  <2>4. (by[p] = None /\ by' = [by EXCEPT ![p] = r]) \/ UNCHANGED by  BY <1>6 DEF Upserts
  <2> QED BY <2>1, <2>2, <2>3, <2>4 DEF Promise!Adds
<1>7. ASSUME NEW r \in Runs, NEW p \in Postings, Scores(r, p) PROVE Promise!Tries(r, p)
  <2>1. Stage[r] = "scoring" /\ UNCHANGED Stage  BY <1>7, Stages DEF Scores, Stage
  <2>2. UNCHANGED Excused  BY <1>7 DEF Scores, Excused
  <2>3. by[p] = r  BY <1>7 DEF Scores, Accounted, Has
  <2> QED BY <1>7, <2>1, <2>2, <2>3 DEF Scores, Promise!Tries
<1>8. ASSUME NEW r \in Runs, EndsScoring(r) \/ ScoringFails(r) PROVE Promise!Ends(r)
  BY <1>8, EndSteps DEF EndsScoring, ScoringFails
<1>9. ASSUME NEW dead \in SUBSET Runs, NEW p \in {"failed", "killed"}, \A r \in dead : phase[r] \in Active,
             phase' = [r \in Runs |-> IF r \in dead THEN p ELSE phase[r]], UNCHANGED <<by, tried, cut, raised>>
      PROVE  Promise!Dies
  <2>1. Stage' = [r \in Runs |-> IF r \in dead THEN "dead" ELSE Stage[r]]
    <3>1. Stage' = [r \in Runs |-> StageOf(phase'[r])]  BY DEF Stage, StageOf
    <3>2. \A r \in Runs : StageOf(phase'[r]) = IF r \in dead THEN "dead" ELSE Stage[r]  BY <1>9, Stages DEF Stage
    <3> QED BY <3>1, <3>2
  <2>2. dead \in SUBSET {r \in Runs : Stage[r] \in {"finding", "scoring"}}  BY <1>9, Stages DEF Stage
  <2>3. UNCHANGED Excused  BY <1>9 DEF Excused
  <2> QED BY <1>9, <2>1, <2>2, <2>3 DEF Promise!Dies
<1>10. ASSUME NEW r \in Runs, LaunchFails(r) PROVE Promise!Dies
  <2>1. phase' = [q \in Runs |-> IF q \in {r} THEN "failed" ELSE phase[q]]  BY <1>10 DEF LaunchFails, TypeOK
  <2>2. {r} \in SUBSET Runs /\ \A q \in {r} : phase[q] \in Active  BY <1>10 DEF LaunchFails, Active
  <2>3. UNCHANGED <<by, tried, cut, raised>>  BY <1>10 DEF LaunchFails
  <2> QED BY ONLY <1>9, <2>1, <2>2, <2>3
<1>11. ASSUME Killed PROVE Promise!Dies
  <2> DEFINE dead == {r \in Runs : phase[r] \in Active}
  <2>1. dead \in SUBSET Runs /\ \A r \in dead : phase[r] \in Active  OBVIOUS
  <2>2. phase' = [r \in Runs |-> IF r \in dead THEN "killed" ELSE phase[r]]  BY <1>11 DEF Killed, TypeOK
  <2>3. UNCHANGED <<by, tried, cut, raised>>  BY <1>11 DEF Killed
  <2> HIDE DEF dead
  <2> QED BY ONLY <1>9, <2>1, <2>2, <2>3
<1>12. ASSUME NEW r \in Runs, Outer(r) PROVE [Promise!Next]_(Promise!vars)
  BY <1>1, <1>3, <1>4, <1>7, <1>8, <1>10, <1>12 DEF Outer, Submits, Visits, Promise!Next
<1>13. ASSUME NEW r \in Runs, NEW c \in Employers, Works(r, c) PROVE [Promise!Next]_(Promise!vars)
  BY <1>1, <1>5, <1>6, <1>13 DEF Works, Takes, Leaves, Promise!Next
<1> QED BY <1>1, <1>2, <1>11, <1>12, <1>13 DEF Next, vars, Passes, Promise!Next

(* "No job a worker discovered can silently skip Phase D scoring, and Phase A2+ can never *)
(* start while a worker thread is still writing": run_ats_scan implements ScanPromise.    *)
THEOREM KeepsScanPromiseHolds == Spec => KeepsScanPromise
BY InitImplements, StepImplements, SpecIInv, PTL DEF Spec, KeepsScanPromise, Promise!Spec

-----------------------------------------------------------------------------
(* CompanyScan *)

\* What RowsAgree says of one row.
Agrees(r) ==
    /\ r \in Rows
    /\ r.status = "hit" => r.board # NoBoard
    /\ r.status = "error" => r.retries \in 1 .. MaxRetries - 1
    /\ r.status = "miss" /\ r.reason = "unreachable" => r.retries = MaxRetries

\* The invariant, row by row.
LEMMA InvByRow ==
  ScanInv <=> /\ row \in [Companies -> Rows]
              /\ \A c \in Companies : Agrees(row[c])
              /\ \A c, d \in Companies : c # d /\ row[c].board = row[d].board => row[c].board = NoBoard
              /\ batch \in [Companies -> Boards \cup {NoBoard, Unselected}]
              /\ scan \in [Visitors -> ScanRecords]
              /\ \A s \in Visitors : scan[s].at # "idle" => scan[s].company \in Companies
  BY DEF ScanInv, CompanyTypeOK, RowsAgree, Agrees

-----------------------------------------------------------------------------
(* The helpers *)

Statuses == {"pending", "hit", "miss", "error"}

\* A row with one column set is a row.
LEMMA ColumnSet ==
  ASSUME NEW r \in Rows
  PROVE  /\ \A v \in Statuses : [r EXCEPT !.status = v] \in Rows
         /\ \A v \in Boards \cup {NoBoard} : [r EXCEPT !.board = v] \in Rows
         /\ \A v \in Reasons : [r EXCEPT !.reason = v] \in Rows
         /\ \A v \in 0 .. MaxRetries : [r EXCEPT !.retries = v] \in Rows
         /\ \A v \in 0 .. DormancyThreshold + 1 : [r EXCEPT !.empty = v] \in Rows
         /\ \A v \in Ages : [r EXCEPT !.crawled = v] \in Rows
         /\ \A v \in BOOLEAN : /\ [r EXCEPT !.waiting = v] \in Rows
                               /\ [r EXCEPT !.enabled = v] \in Rows
                               /\ [r EXCEPT !.careers = v] \in Rows
                               /\ [r EXCEPT !.url = v] \in Rows
                               /\ [r EXCEPT !.fresh = v] \in Rows
  BY DEF Rows, Statuses

LEMMA ConstantsInRange ==
  /\ 0 \in 0 .. DormancyThreshold + 1 /\ 0 \in 0 .. MaxRetries /\ MaxRetries \in 0 .. MaxRetries
  /\ {"none", "unreachable", "collision", "other"} \subseteq Reasons
  /\ {"pending", "hit", "miss", "error"} \subseteq Statuses
  /\ \A n \in 0 .. MaxRetries : n < MaxRetries - 1 => n + 1 \in 1 .. MaxRetries - 1
  /\ 1 .. MaxRetries - 1 \subseteq 0 .. MaxRetries
  BY CompanyAssumption DEF MaxRetries, Reasons, Statuses

\* A failed read leaves a row that agrees with itself, whichever count it had read.
LEMMA FailedAgrees ==
  ASSUME NEW r, Agrees(r), NEW n \in 0 .. MaxRetries
  PROVE  Agrees(Failed(r, n)) /\ Failed(r, n).board = r.board
  <1>1. CASE n >= MaxRetries - 1
    <2>1. Failed(r, n) = [r EXCEPT !.status = "miss", !.reason = "unreachable", !.retries = MaxRetries]
      BY <1>1 DEF Failed
    <2>2. [r EXCEPT !.status = "miss", !.reason = "unreachable"] \in Rows
      BY ColumnSet, ConstantsInRange DEF Agrees
    <2>3. Failed(r, n) \in Rows
      <3>1. MaxRetries \in 0 .. MaxRetries
        BY ConstantsInRange
      <3>2. [[r EXCEPT !.status = "miss", !.reason = "unreachable"] EXCEPT !.retries = MaxRetries] \in Rows
        BY <2>2, <3>1, ColumnSet
      <3> QED BY <2>1, <3>2
    <2> QED BY <2>1, <2>3 DEF Agrees, Rows
  <1>2. CASE n < MaxRetries - 1
    <2>1. Failed(r, n) = [r EXCEPT !.status = "error", !.retries = n + 1, !.waiting = TRUE]
      BY <1>2 DEF Failed, MaxRetries
    <2>2. n + 1 \in 0 .. MaxRetries
      BY <1>2 DEF MaxRetries
    <2>3. [r EXCEPT !.status = "error"] \in Rows
      BY ColumnSet, ConstantsInRange DEF Agrees
    <2>4. [r EXCEPT !.status = "error", !.retries = n + 1] \in Rows
      BY <2>2, <2>3, ColumnSet
    <2>5. Failed(r, n) \in Rows
      BY <2>1, <2>4, ColumnSet
    <2> QED BY <1>2, <2>1, <2>2, <2>5 DEF Agrees, Rows, MaxRetries
  <1> QED BY <1>1, <1>2 DEF MaxRetries

LEMMA MissedAgrees ==
  ASSUME NEW r, Agrees(r), NEW why \in {"collision", "other"}
  PROVE  Agrees(Missed(r, why)) /\ Missed(r, why).board = r.board
  <1>1. Missed(r, why) \in Rows
    BY ColumnSet, ConstantsInRange DEF Missed, Agrees
  <1> QED BY <1>1 DEF Missed, Agrees, Rows

LEMMA ClaimedAgrees ==
  ASSUME NEW r, Agrees(r), NEW b \in Boards
  PROVE  Agrees(Claimed(r, b)) /\ Claimed(r, b).board = b
  <1>1. Claimed(r, b) \in Rows
    BY ColumnSet, ConstantsInRange DEF Claimed, Agrees
  <1> QED BY <1>1, CompanyAssumption DEF Claimed, Agrees, Rows

LEMMA ResetAgrees ==
  ASSUME NEW r, Agrees(r), r.status \in {"hit"}
  PROVE  Agrees(reset_retry_state(r)) /\ reset_retry_state(r).board = r.board
  <1>1. reset_retry_state(r) \in Rows
    BY ColumnSet, ConstantsInRange DEF reset_retry_state, Agrees
  <1> QED BY <1>1 DEF reset_retry_state, Agrees, Rows

\* Columns that the agreement does not read may change.
LEMMA OtherColumns ==
  ASSUME NEW r, Agrees(r), NEW q \in Rows,
         q.status = r.status, q.board = r.board, q.reason = r.reason, q.retries = r.retries
  PROVE  Agrees(q)
  BY DEF Agrees

\* A correction leaves a pending row, of any board, with or without a careers_url.
CorrectedTo(r, b) == [Corrected(r) EXCEPT !.board = b]
Listed(r, url) == [r EXCEPT !.url = url, !.enabled = TRUE, !.careers = TRUE]

LEMMA CorrectedAgrees ==
  ASSUME NEW r, Agrees(r), NEW b \in Boards \cup {NoBoard}
  PROVE  Agrees(CorrectedTo(r, b)) /\ CorrectedTo(r, b).board = b
  <1>1. Corrected(r) \in Rows
    BY ColumnSet, ConstantsInRange DEF Corrected, Agrees
  <1>2. CorrectedTo(r, b) \in Rows
    BY <1>1, ColumnSet DEF CorrectedTo
  <1>3. Corrected(r).status = "pending"
    BY DEF Corrected, Agrees, Rows
  <1>4. CorrectedTo(r, b).status = "pending" /\ CorrectedTo(r, b).board = b
    BY <1>1, <1>3 DEF Rows, CorrectedTo
  <1> QED BY <1>2, <1>4 DEF Agrees

LEMMA ListedAgrees ==
  ASSUME NEW r, Agrees(r), NEW url \in BOOLEAN
  PROVE  Agrees(Listed(r, url)) /\ Listed(r, url).board = r.board
  <1>1. Listed(r, url) \in Rows
    BY ColumnSet DEF Listed, Agrees
  <1>2. /\ Listed(r, url).status = r.status /\ Listed(r, url).board = r.board
        /\ Listed(r, url).reason = r.reason /\ Listed(r, url).retries = r.retries
    BY DEF Listed, Agrees, Rows
  <1> QED BY <1>1, <1>2, OtherColumns

\* What a visitor holds stays of its type when a field is set.
LEMMA HeldSet ==
  ASSUME NEW h \in ScanRecords
  PROVE  /\ \A v \in {"api", "render", "page", "board", "stub", "guesses", "failing"} : [h EXCEPT !.at = v] \in ScanRecords
         /\ \A c \in Companies : /\ [h EXCEPT !.company = c] \in ScanRecords
                                 /\ [h EXCEPT !.company = c].company = c
         /\ \A b \in Boards \cup {NoBoard} : /\ [h EXCEPT !.board = b] \in ScanRecords
                                             /\ [h EXCEPT !.board = b].company = h.company
         /\ \A v \in BOOLEAN : [h EXCEPT !.url = v] \in ScanRecords /\ [h EXCEPT !.url = v].company = h.company
         /\ \A n \in 0 .. MaxRetries : [h EXCEPT !.read = n] \in ScanRecords /\ [h EXCEPT !.read = n].company = h.company
  BY DEF ScanRecords

LEMMA IdleHeld == Idle \in ScanRecords /\ Idle.at = "idle"
  BY DEF Idle, ScanRecords, MaxRetries

LEMMA HeldOf ==
  ASSUME NEW v \in {"api", "render", "page", "board", "stub", "guesses", "failing"}, NEW c \in Companies
  PROVE  LET h == [Idle EXCEPT !.at = v, !.company = c] IN h \in ScanRecords /\ h.company = c
  <1>1. [Idle EXCEPT !.at = v] \in ScanRecords
    BY HeldSet, IdleHeld
  <1> QED BY <1>1, HeldSet

-----------------------------------------------------------------------------
\* Writing one row: it agrees with itself, and its board is the old one, none, or free.
LEMMA SetsKeeps ==
  ASSUME ScanInv, NEW c \in Companies, NEW new, Stores(c, new), Agrees(new),
         \/ new.board = row[c].board
         \/ new.board = NoBoard
         \/ Free(c, new.board),
         batch' \in [Companies -> Boards \cup {NoBoard, Unselected}],
         scan' \in [Visitors -> ScanRecords],
         \A s \in Visitors : scan'[s].at # "idle" => scan'[s].company \in Companies
  PROVE  ScanInv'
  <1>1. /\ row \in [Companies -> Rows] /\ \A d \in Companies : Agrees(row[d])
        /\ \A d, e \in Companies : d # e /\ row[d].board = row[e].board => row[d].board = NoBoard
    BY InvByRow
  <1>2. new \in Rows
    BY DEF Agrees
  <1>3. row' = [row EXCEPT ![c] = new] /\ row' \in [Companies -> Rows]
    BY <1>1, <1>2 DEF Stores
  <1>4. /\ row'[c] = new
        /\ \A d \in Companies \ {c} : row'[d] = row[d]
    BY <1>1, <1>3
  <1>5. \A d \in Companies : Agrees(row'[d])
    BY <1>1, <1>4
  <1>6. \A d \in Companies \ {c} : new.board = row[d].board => new.board = NoBoard
    BY <1>1 DEF Free
  <1>7. \A d, e \in Companies : d # e /\ row'[d].board = row'[e].board => row'[d].board = NoBoard
    BY <1>1, <1>4, <1>6
  <1>8. CompanyTypeOK'
    BY <1>3 DEF CompanyTypeOK, ScanInv
  <1>9. RowsAgree'
    BY <1>5, <1>7 DEF RowsAgree, Agrees
  <1> QED BY <1>8, <1>9 DEF ScanInv

\* The same, when batch and scans stand still, one company has been probed, or a scan stops.
LEMMA SetsAloneKeeps ==
  ASSUME ScanInv, NEW c \in Companies, NEW new, Stores(c, new), Agrees(new),
         new.board = row[c].board \/ new.board = NoBoard \/ Free(c, new.board),
         Alone \/ Probed(c) \/ \E s \in Visitors : Stops(s) /\ UNCHANGED batch
  PROVE  ScanInv'
  <1>1. /\ batch \in [Companies -> Boards \cup {NoBoard, Unselected}] /\ scan \in [Visitors -> ScanRecords]
        /\ \A s \in Visitors : scan[s].at # "idle" => scan[s].company \in Companies
    BY DEF ScanInv, CompanyTypeOK
  <1>2. Idle \in ScanRecords /\ Idle.at = "idle"
    BY IdleHeld
  <1>3. CASE Alone
    BY <1>1, <1>3, SetsKeeps DEF Alone
  <1>4. CASE Probed(c)
    <2>1. batch' \in [Companies -> Boards \cup {NoBoard, Unselected}] /\ scan' = scan
      BY <1>1, <1>4 DEF Probed
    <2> QED BY <1>1, <2>1, SetsKeeps
  <1>5. ASSUME NEW s \in Visitors, Stops(s), UNCHANGED batch PROVE ScanInv'
    <2>1. /\ scan' \in [Visitors -> ScanRecords]
          /\ \A t \in Visitors : scan'[t].at # "idle" => scan'[t].company \in Companies
      BY <1>1, <1>2, <1>5 DEF Stops
    <2> QED BY <1>1, <1>5, <2>1, SetsKeeps
  <1> QED BY <1>3, <1>4, <1>5

-----------------------------------------------------------------------------
(* probe_ats_slugs *)

LEMMA BatchStartKeeps ==
  ASSUME ScanInv, ProbeBatchStarts
  PROVE  ScanInv'
  <1>1. /\ row \in [Companies -> Rows] /\ \A d \in Companies : Agrees(row[d])
        /\ \A d, e \in Companies : d # e /\ row[d].board = row[e].board => row[d].board = NoBoard
    BY InvByRow
  <1> DEFINE Now(cooled) ==
               [c \in Companies |-> IF c \in cooled
                                    THEN [row[c] EXCEPT !.status = "pending", !.reason = "none"]
                                    ELSE row[c]]
             Batch(now) == [c \in Companies |-> IF now[c].status = "pending" THEN now[c].board ELSE Unselected]
  <1>2. PICK cooled \in SUBSET {c \in Companies : row[c].status = "miss" /\ row[c].reason = "collision"} :
          row' = Now(cooled) /\ batch' = Batch(Now(cooled))
    BY Zenon DEF ProbeBatchStarts
  <1>3. \A c \in Companies : Agrees(row'[c]) /\ row'[c].board = row[c].board
    <2> SUFFICES ASSUME NEW c \in Companies PROVE Agrees(row'[c]) /\ row'[c].board = row[c].board
      OBVIOUS
    <2>1. CASE c \notin cooled
      BY <1>1, <1>2, <2>1
    <2>2. CASE c \in cooled
      <3> DEFINE q == [row[c] EXCEPT !.status = "pending", !.reason = "none"]
      <3>1. q \in Rows
        BY <1>1, ColumnSet, ConstantsInRange
      <3>2. q.status = "pending" /\ q.board = row[c].board
        BY <1>1 DEF Rows
      <3>3. row'[c] = q
        BY <1>2, <2>2
      <3> QED BY <3>1, <3>2, <3>3 DEF Agrees
    <2> QED BY <2>1, <2>2
  <1>4. \A c \in Companies : row'[c] \in Rows /\ row'[c].board \in Boards \cup {NoBoard}
    BY <1>3 DEF Agrees, Rows
  <1>5. row' \in [Companies -> Rows]
    BY <1>2, <1>4
  <1>6. batch' \in [Companies -> Boards \cup {NoBoard, Unselected}]
    <2> DEFINE now == Now(cooled)
    <2>1. row' = now /\ batch' = Batch(now)
      BY <1>2
    <2> HIDE DEF now
    <2>2. \A c \in Companies : now[c].board \in Boards \cup {NoBoard}
      BY <1>4, <2>1
    <2> QED BY <2>1, <2>2
  <1>7. UNCHANGED scan
    BY DEF ProbeBatchStarts
  <1>8. CompanyTypeOK'
    BY <1>5, <1>6, <1>7 DEF ScanInv, CompanyTypeOK
  <1>9. RowsAgree'
    BY <1>1, <1>3 DEF RowsAgree, Agrees
  <1> QED BY <1>8, <1>9 DEF ScanInv

LEMMA BatchEndKeeps ==
  ASSUME ScanInv, BatchEnds
  PROVE  ScanInv'
  BY DEF ScanInv, CompanyTypeOK, RowsAgree, BatchEnds

LEMMA ClaimKeeps ==
  ASSUME ScanInv, NEW c \in Companies, NEW b \in Boards, Claims(c, b)
  PROVE  ScanInv'
  <1>1. Agrees(row[c])
    BY InvByRow
  <1>2. CASE Free(c, b) /\ Stores(c, Claimed(row[c], b)) /\ Probed(c)
    BY <1>1, <1>2, ClaimedAgrees, SetsAloneKeeps
  <1>3. CASE Stores(c, Missed(row[c], "collision")) /\ Probed(c)
    BY <1>1, <1>3, MissedAgrees, SetsAloneKeeps
  <1> QED BY <1>2, <1>3, BatchEndKeeps DEF Claims

\* A board that a careers_url names, or a name suggests, is a board.
LEMMA NamedBoards ==
  ASSUME NEW c \in Companies
  PROVE  Guesses[c] \subseteq Boards /\ (UrlBoard[c] # NoBoard => UrlBoard[c] \in Boards)
  BY CompanyAssumption

LEMMA ProbesOneKeeps ==
  ASSUME ScanInv, NEW c \in Companies, ProbesOne(c)
  PROVE  ScanInv'
  <1>1. Agrees(row[c])
    BY InvByRow
  <1>2. CASE DirectDispatch(c)
    <2>1. ASSUME row[c].board # NoBoard, Stores(c, [row[c] EXCEPT !.status = "hit", !.empty = 0]), Probed(c)
          PROVE  ScanInv'
      <3> DEFINE q == [row[c] EXCEPT !.status = "hit", !.empty = 0]
      <3>1. q \in Rows
        BY <1>1, ColumnSet, ConstantsInRange DEF Agrees
      <3>2. q.status = "hit" /\ q.board = row[c].board
        BY <1>1 DEF Agrees, Rows
      <3>3. Agrees(q)
        BY <2>1, <3>1, <3>2 DEF Agrees
      <3> QED BY <2>1, <3>2, <3>3, SetsAloneKeeps
    <2>2. ASSUME Stores(c, Missed(row[c], "other")), Probed(c) PROVE ScanInv'
      BY <1>1, <2>2, MissedAgrees, SetsAloneKeeps
    <2> QED BY <1>2, <2>1, <2>2, BatchEndKeeps DEF DirectDispatch
  <1>3. CASE FastPath(c)
    BY <1>3, ClaimKeeps, NamedBoards DEF FastPath
  <1>4. CASE SpeculativeLadder(c)
    <2>1. ASSUME Stores(c, Missed(row[c], "other")), Probed(c) PROVE ScanInv'
      BY <1>1, <2>1, MissedAgrees, SetsAloneKeeps
    <2> QED BY <1>4, <2>1, ClaimKeeps, NamedBoards DEF SpeculativeLadder
  <1> QED BY <1>2, <1>3, <1>4 DEF ProbesOne

-----------------------------------------------------------------------------
(* A correction by hand *)

LEMMA AttributionKeeps ==
  ASSUME ScanInv, NEW c \in Companies, set_company_attribution(c)
  PROVE  ScanInv'
  <1>1. Agrees(row[c]) /\ Alone
    BY InvByRow DEF set_company_attribution
  <1>2. PICK b \in Boards \cup {NoBoard}, url \in BOOLEAN :
          /\ b = NoBoard \/ Free(c, b)
          /\ Stores(c, Listed(CorrectedTo(row[c], b), url)) \/ Stores(c, CorrectedTo(row[c], b))
    BY DEF set_company_attribution, Listed, CorrectedTo
  <1>3. Agrees(CorrectedTo(row[c], b)) /\ CorrectedTo(row[c], b).board = b
    BY <1>1, CorrectedAgrees
  <1>4. Agrees(Listed(CorrectedTo(row[c], b), url)) /\ Listed(CorrectedTo(row[c], b), url).board = b
    BY <1>3, ListedAgrees
  <1> QED BY <1>1, <1>2, <1>3, <1>4, SetsAloneKeeps

-----------------------------------------------------------------------------
(* The scans and the crawler *)

\* A scan that has selected a company has selected one.
LEMMA VisitedRow ==
  ASSUME ScanInv, NEW s \in Visitors, scan[s].at # "idle"
  PROVE  /\ scan[s].company \in Companies /\ Agrees(row[scan[s].company])
         /\ scan[s].read \in 0 .. MaxRetries
  BY InvByRow DEF ScanRecords

\* A visit's last UPDATE.
LEMMA WritesKeeps ==
  ASSUME ScanInv, NEW s \in Visitors, scan[s].at # "idle", NEW new, Writes(s, new), Agrees(new),
         new.board = row[scan[s].company].board \/ Free(scan[s].company, new.board)
  PROVE  ScanInv'
  BY VisitedRow, SetsAloneKeeps DEF Writes

LEMMA FallthroughKeeps ==
  ASSUME ScanInv, NEW q \in Visitors, scan[q].at # "idle", StaticFallthrough(q) \/ TiersMiss(q)
  PROVE  ScanInv'
  <1> DEFINE c == scan[q].company
  <1>1. c \in Companies /\ Agrees(row[c])
    BY VisitedRow
  <1>2. CASE Tier1Redetects(q)
    <2>1. Agrees(Claimed(row[c], UrlBoard[c])) /\ Claimed(row[c], UrlBoard[c]).board = UrlBoard[c]
      BY <1>1, <1>2, ClaimedAgrees, NamedBoards DEF Tier1Redetects
    <2> QED BY <1>2, <2>1, WritesKeeps DEF Tier1Redetects
  <1>3. CASE TierPersists(q)
    <2> DEFINE m == Missed(row[c], "other")
               new == [m EXCEPT !.enabled = TRUE, !.careers = TRUE]
    <2>1. Agrees(m) /\ m.board = row[c].board
      BY <1>1, MissedAgrees
    <2>2. Writes(q, new)
      BY <1>3 DEF TierPersists
    <2> HIDE DEF m
    <2>3. new \in Rows
      BY <2>1, ColumnSet DEF Agrees
    <2>4. new.status = m.status /\ new.board = m.board /\ new.reason = m.reason /\ new.retries = m.retries
      BY <2>1 DEF Agrees, Rows
    <2>5. Agrees(new)
      BY <2>1, <2>3, <2>4, OtherColumns
    <2> HIDE DEF new
    <2> QED BY <2>1, <2>2, <2>4, <2>5, WritesKeeps
  <1>4. CASE TiersMiss(q)
    BY <1>1, <1>4, MissedAgrees, WritesKeeps DEF TiersMiss
  <1> QED BY <1>2, <1>3, <1>4 DEF StaticFallthrough

LEMMA AnsweredKeeps ==
  ASSUME ScanInv, NEW q \in Requests, Answered(q)
  PROVE  ScanInv'
  <1> DEFINE c == scan[q].company
  <1>1. q \in Visitors /\ scan[q].at # "idle"
    BY DEF Visitors, Answered, BoardAnswers, BoardRefuses, StubFallsThrough, GuessAnswers, GuessesExhausted
  <1>2. c \in Companies /\ Agrees(row[c])
    BY <1>1, VisitedRow
  <1>3. CASE BoardAnswers(q)
    <2> DEFINE h == [row[c] EXCEPT !.status = "hit"]
    <2>1. h \in Rows
      BY <1>2, ColumnSet, ConstantsInRange DEF Agrees
    <2>2. h.status = "hit" /\ h.board = row[c].board /\ row[c].board # NoBoard
      BY <1>2, <1>3 DEF Agrees, Rows, BoardAnswers
    <2>3. Agrees(h)
      BY <2>1, <2>2 DEF Agrees
    <2>4. Writes(q, reset_retry_state(h))
      BY <1>3 DEF BoardAnswers
    <2> HIDE DEF h
    <2>5. Agrees(reset_retry_state(h)) /\ reset_retry_state(h).board = h.board
      BY <2>2, <2>3, ResetAgrees
    <2> QED BY <1>1, <2>2, <2>4, <2>5, WritesKeeps
  <1>4. CASE BoardRefuses(q) \/ StubFallsThrough(q) \/ GuessesExhausted(q)
    BY <1>1, <1>4, FallthroughKeeps DEF BoardRefuses, StubFallsThrough, GuessesExhausted, FallsThrough
  <1>5. CASE GuessAnswers(q)
    <2>1. PICK b \in Guesses[c] : Free(c, b) /\ Writes(q, reset_retry_state(Claimed(row[c], b)))
      BY <1>5 DEF GuessAnswers
    <2>2. b \in Boards
      BY <1>2, NamedBoards
    <2>3. Agrees(Claimed(row[c], b)) /\ Claimed(row[c], b).board = b
      BY <1>2, <2>2, ClaimedAgrees
    <2>4. Claimed(row[c], b).status = "hit"
      BY <1>2 DEF Claimed, Agrees, Rows
    <2>5. LET new == reset_retry_state(Claimed(row[c], b)) IN Agrees(new) /\ new.board = b
      BY <2>3, <2>4, ResetAgrees
    <2> QED BY <1>1, <2>1, <2>5, WritesKeeps
  <1> QED BY <1>3, <1>4, <1>5 DEF Answered

\* A visitor notes what it has read.
LEMMA HoldsKeeps ==
  ASSUME ScanInv, NEW s \in Visitors, NEW new \in ScanRecords, new.company \in Companies,
         scan' = [scan EXCEPT ![s] = new], UNCHANGED <<row, batch>>
  PROVE  ScanInv'
  <1>1. CompanyTypeOK'
    BY DEF ScanInv, CompanyTypeOK
  <1>2. RowsAgree'
    BY DEF ScanInv, RowsAgree
  <1> QED BY <1>1, <1>2 DEF ScanInv

LEMMA SelectsKeeps ==
  ASSUME ScanInv, NEW s \in Scans, NEW c \in Companies, Selects(s, c)
  PROVE  ScanInv'
  <1>1. PICK lane \in {"api", "render", "page"} : Starts(s, lane, c)
    BY DEF Selects, SelectsApi, SelectsRender, SelectsPage
  <1> DEFINE new == [Idle EXCEPT !.at = lane, !.company = c, !.board = row[c].board]
  <1>0. row[c].board \in Boards \cup {NoBoard}
    BY InvByRow DEF Agrees, Rows
  <1>2. new \in ScanRecords /\ new.company = c
    <2> DEFINE h == [Idle EXCEPT !.at = lane, !.company = c]
    <2>1. h \in ScanRecords /\ h.company = c
      BY HeldOf
    <2>2. new = [h EXCEPT !.board = row[c].board]
      OBVIOUS
    <2> HIDE DEF h, new
    <2> QED BY <1>0, <2>1, <2>2, HeldSet
  <1>3. scan' = [scan EXCEPT ![s] = new] /\ UNCHANGED <<row, batch>> /\ s \in Visitors
    BY <1>1 DEF Starts, Visitors
  <1> HIDE DEF new
  <1> QED BY <1>2, <1>3, HoldsKeeps

LEMMA RequestReadsKeeps ==
  ASSUME ScanInv, NEW q \in Requests, NEW c \in Companies, RequestReads(q, c)
  PROVE  ScanInv'
  <1> DEFINE new == [Idle EXCEPT !.at = Branch(row[c].board), !.company = c, !.url = row[c].url]
  <1>0. row[c].url \in BOOLEAN /\ Branch(row[c].board) \in {"guesses", "stub", "board"}
    BY InvByRow DEF Agrees, Rows, Branch
  <1>1. new \in ScanRecords /\ new.company = c
    <2> DEFINE h == [Idle EXCEPT !.at = Branch(row[c].board), !.company = c]
    <2>1. h \in ScanRecords /\ h.company = c
      BY <1>0, HeldOf
    <2>2. new = [h EXCEPT !.url = row[c].url]
      OBVIOUS
    <2> HIDE DEF h, new
    <2> QED BY <1>0, <2>1, <2>2, HeldSet
  <1>2. scan' = [scan EXCEPT ![q] = new] /\ UNCHANGED <<row, batch>> /\ q \in Visitors
    BY DEF RequestReads, Visitors
  <1> HIDE DEF new
  <1> QED BY <1>1, <1>2, HoldsKeeps

LEMMA ReadsRetriesKeeps ==
  ASSUME ScanInv, NEW s \in Visitors, ReadsRetries(s)
  PROVE  ScanInv'
  <1> DEFINE c == scan[s].company
             n == row[c].retries
             new == [Idle EXCEPT !.at = "failing", !.company = c, !.read = n]
  <1>1. scan[s].at # "idle"
    BY DEF ReadsRetries, MayFail
  <1>2. c \in Companies /\ n \in 0 .. MaxRetries
    BY <1>1, VisitedRow DEF Agrees, Rows
  <1>3. scan' = [scan EXCEPT ![s] = new] /\ UNCHANGED <<row, batch>>
    BY DEF ReadsRetries
  <1> HIDE DEF n, c
  <1>4. new \in ScanRecords /\ new.company = c
    BY <1>2, HeldSet, HeldOf
  <1> HIDE DEF new
  <1> QED BY <1>2, <1>3, <1>4, HoldsKeeps

\* The stamps and flags that a visit leaves, alone or with a careers_url.
LEMMA TouchedAgrees ==
  ASSUME NEW r, Agrees(r), NEW listed \in BOOLEAN
  PROVE  LET Same(q) == Agrees(q) /\ q.board = r.board
         IN  /\ Same(AfterApi(r, listed))
             /\ Same([r EXCEPT !.fresh = TRUE])
             /\ Same([r EXCEPT !.fresh = FALSE])
             /\ Same([r EXCEPT !.waiting = FALSE])
             /\ Same([r EXCEPT !.crawled = "old"])
             /\ Same([r EXCEPT !.fresh = TRUE, !.url = TRUE])
             /\ Same([r EXCEPT !.crawled = "recent", !.fresh = TRUE])
             /\ Same([r EXCEPT !.crawled = "recent"])
             /\ Same(Demoted(r))
  <1> DEFINE Same(q) == Agrees(q) /\ q.board = r.board
  <1>1. ASSUME NEW q \in Rows, q.status = r.status, q.board = r.board, q.reason = r.reason,
               q.retries = r.retries
        PROVE  Same(q)
    BY <1>1, OtherColumns
  <1>2. r \in Rows
    BY DEF Agrees
  <1>3. Same(AfterApi(r, listed))
    <2> DEFINE n == IF listed THEN 0 ELSE IF r.empty <= DormancyThreshold THEN r.empty + 1 ELSE r.empty
               q == [r EXCEPT !.fresh = TRUE, !.empty = n]
    <2>1. n \in 0 .. DormancyThreshold + 1
      BY <1>2, CompanyAssumption DEF Rows
    <2> HIDE DEF n
    <2>2. q \in Rows
      BY <1>2, <2>1, ColumnSet
    <2>3. q.status = r.status /\ q.board = r.board /\ q.reason = r.reason /\ q.retries = r.retries
      BY <1>2 DEF Rows
    <2>4. AfterApi(r, listed) = q
      BY DEF AfterApi, n
    <2> HIDE DEF q
    <2> QED BY <1>1, <2>2, <2>3, <2>4
  <1>4. /\ Same([r EXCEPT !.fresh = TRUE]) /\ Same([r EXCEPT !.fresh = FALSE])
        /\ Same([r EXCEPT !.waiting = FALSE])
    <2> HIDE DEF Same
    <2>1. ASSUME NEW q \in {[r EXCEPT !.fresh = TRUE], [r EXCEPT !.fresh = FALSE], [r EXCEPT !.waiting = FALSE]}
          PROVE  Same(q)
      <3>1. q \in Rows
        BY <1>2, ColumnSet
      <3>2. q.status = r.status /\ q.board = r.board /\ q.reason = r.reason /\ q.retries = r.retries
        BY <1>2 DEF Rows
      <3> QED BY <1>1, <3>1, <3>2
    <2> QED BY <2>1
  <1>5. /\ Same([r EXCEPT !.crawled = "old"]) /\ Same([r EXCEPT !.crawled = "recent"])
        /\ Same([r EXCEPT !.crawled = "recent", !.fresh = TRUE]) /\ Same([r EXCEPT !.fresh = TRUE, !.url = TRUE])
    <2> HIDE DEF Same
    <2>1. ASSUME NEW q \in {[r EXCEPT !.crawled = "old"], [r EXCEPT !.crawled = "recent"],
                            [r EXCEPT !.crawled = "recent", !.fresh = TRUE], [r EXCEPT !.fresh = TRUE, !.url = TRUE]}
          PROVE  Same(q)
      <3>1. q \in Rows
        BY <1>2, ColumnSet DEF Ages
      <3>2. q.status = r.status /\ q.board = r.board /\ q.reason = r.reason /\ q.retries = r.retries
        BY <1>2 DEF Rows
      <3> QED BY <1>1, <3>1, <3>2
    <2> QED BY <2>1
  <1>6. Same(Demoted(r))
    <2> DEFINE m == Missed(r, "other")
               q == [m EXCEPT !.enabled = FALSE, !.fresh = TRUE]
    <2>1. Agrees(m) /\ m.board = r.board
      BY MissedAgrees
    <2> HIDE DEF m
    <2>2. q \in Rows
      BY <2>1, ColumnSet DEF Agrees
    <2>3. q.status = m.status /\ q.board = m.board /\ q.reason = m.reason /\ q.retries = m.retries
      BY <2>1 DEF Agrees, Rows
    <2>4. Demoted(r) = q
      BY DEF Demoted, m
    <2> HIDE DEF q
    <2> QED BY <2>1, <2>2, <2>3, <2>4, OtherColumns
  <1> QED BY <1>3, <1>4, <1>5, <1>6

LEMMA VisitKeeps ==
  ASSUME ScanInv, NEW s \in Visitors, Visit(s)
  PROVE  ScanInv'
  <1>1. CASE GivesUp(s)
    <2>1. Idle \in ScanRecords /\ Idle.at = "idle"
      BY DEF Idle, ScanRecords, MaxRetries
    <2>2. CompanyTypeOK'
      BY <1>1, <2>1 DEF GivesUp, Stops, ScanInv, CompanyTypeOK
    <2>3. RowsAgree'
      BY <1>1 DEF GivesUp, ScanInv, RowsAgree
    <2> QED BY <2>2, <2>3 DEF ScanInv
  <1>2. ASSUME ~GivesUp(s) PROVE ScanInv'
    <2> DEFINE c == scan[s].company
    <2>1. /\ c \in Companies /\ Agrees(row[c]) /\ scan[s].read \in 0 .. MaxRetries
          /\ scan[s].at # "idle"
      BY <1>2, VisitedRow DEF Visit, ReadsBoard, RendersBoard, ScrapesPage, BoardGone, RecordsFailure
    <2>2. \/ \E listed \in BOOLEAN : Writes(s, AfterApi(row[c], listed))
          \/ Writes(s, [row[c] EXCEPT !.fresh = TRUE])
          \/ Writes(s, [row[c] EXCEPT !.fresh = TRUE, !.url = TRUE])
          \/ Writes(s, Demoted(row[c]))
          \/ Writes(s, Failed(row[c], scan[s].read))
      BY <1>2 DEF Visit, ReadsBoard, RendersBoard, ScrapesPage, BoardGone, RecordsFailure
    <2>3. ASSUME NEW new, Writes(s, new), Agrees(new), new.board = row[c].board PROVE ScanInv'
      BY <2>1, <2>3, WritesKeeps
    <2> HIDE DEF c
    <2>4. ASSUME NEW listed \in BOOLEAN, Writes(s, AfterApi(row[c], listed)) PROVE ScanInv'
      BY <2>1, <2>3, <2>4, TouchedAgrees
    <2>5. CASE Writes(s, Failed(row[c], scan[s].read))
      BY <2>1, <2>3, <2>5, FailedAgrees
    <2> QED BY <2>1, <2>2, <2>3, <2>4, <2>5, TouchedAgrees
  <1> QED BY <1>1, <1>2

LEMMA LivesKeeps ==
  ASSUME ScanInv, NEW c \in Companies, Lives(c)
  PROVE  ScanInv'
  <1>1. Agrees(row[c])
    BY InvByRow
  <1>2. CASE BackoffEnds(c) \/ ScanAges(c) \/ CrawlAges(c)
    <2>1. Alone /\ \/ Stores(c, [row[c] EXCEPT !.waiting = FALSE])
                   \/ Stores(c, [row[c] EXCEPT !.fresh = FALSE])
                   \/ Stores(c, [row[c] EXCEPT !.crawled = "old"])
      BY <1>2 DEF BackoffEnds, ScanAges, CrawlAges, Alone
    <2>2. PICK new : Stores(c, new) /\ Agrees(new) /\ new.board = row[c].board
      BY <1>1, <2>1, TouchedAgrees
    <2> QED BY <2>1, <2>2, SetsAloneKeeps
  <1>3. CASE Crawls(c)
    <2>1. PICK r : /\ r = row[c] \/ (UrlBoard[c] # NoBoard /\ Free(c, UrlBoard[c]) /\ r = Claimed(row[c], UrlBoard[c]))
                   /\ \/ Stores(c, [r EXCEPT !.crawled = "recent", !.fresh = TRUE])
                      \/ Stores(c, [r EXCEPT !.crawled = "recent"])
                      \/ Stores(c, r)
      BY <1>3 DEF Crawls
    <2>2. Agrees(r) /\ (r.board = row[c].board \/ Free(c, r.board))
      BY <1>1, <2>1, ClaimedAgrees, NamedBoards
    <2>3. PICK new : Stores(c, new) /\ Agrees(new) /\ new.board = r.board
      BY <2>1, <2>2, TouchedAgrees
    <2> QED BY <1>3, <2>2, <2>3, SetsAloneKeeps DEF Crawls, Alone
  <1> QED
    BY <1>2, <1>3, AttributionKeeps, SelectsKeeps, RequestReadsKeeps DEF Lives

-----------------------------------------------------------------------------
\* A new company has no board and no history.
LEMMA CompanyInitInv == CompanyInit => ScanInv
  <1> SUFFICES ASSUME CompanyInit PROVE ScanInv
    OBVIOUS
  <1>1. \A c \in Companies : NewRow(c) \in Rows /\ NewRow(c).board = NoBoard /\ NewRow(c).status = "pending"
    BY CompanyAssumption DEF NewRow, Rows, Reasons, MaxRetries, Ages
  <1>2. Idle \in ScanRecords /\ Idle.at = "idle"
    BY IdleHeld
  <1>3. \A c \in Companies : row[c] = NewRow(c)
    BY DEF CompanyInit
  <1>4. CompanyTypeOK
    BY <1>1, <1>2 DEF CompanyInit, CompanyTypeOK
  <1>5. RowsAgree
    BY <1>1, <1>3 DEF RowsAgree
  <1> QED BY <1>4, <1>5 DEF ScanInv

LEMMA CompanyStepInv == ScanInv /\ [CompanyNext]_companyVars => ScanInv'
  <1> SUFFICES ASSUME ScanInv, [CompanyNext]_companyVars PROVE ScanInv'
    OBVIOUS
  <1>1. CASE UNCHANGED companyVars
    BY <1>1 DEF companyVars, ScanInv, CompanyTypeOK, RowsAgree
  <1>2. CASE ProbeBatchStarts
    BY <1>2, BatchStartKeeps
  <1>3. ASSUME NEW c \in Companies, ProbesOne(c) \/ Lives(c) PROVE ScanInv'
    BY <1>3, ProbesOneKeeps, LivesKeeps
  <1>4. ASSUME NEW s \in Visitors, ReadsRetries(s) \/ Visit(s) PROVE ScanInv'
    BY <1>4, ReadsRetriesKeeps, VisitKeeps
  <1>5. ASSUME NEW q \in Requests, Answered(q) PROVE ScanInv'
    BY <1>5, AnsweredKeeps
  <1> QED BY <1>1, <1>2, <1>3, <1>4, <1>5 DEF CompanyNext

(***************************************************************************)
(* A board has one owner, a hit names its board, an error will be retried  *)
(* and unreachable is the third count, however scans, probes, crawls and   *)
(* corrections overlap.                                                    *)
(***************************************************************************)
THEOREM RowsStayConsistent == CompanySpec => []ScanInv
  <1>1. CompanyInit => ScanInv
    BY CompanyInitInv
  <1>2. ScanInv /\ [CompanyNext]_companyVars => ScanInv'
    BY CompanyStepInv
  <1> QED BY <1>1, <1>2, PTL DEF CompanySpec
=============================================================================
