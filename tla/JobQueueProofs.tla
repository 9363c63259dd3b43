--------------------------- MODULE JobQueueProofs ---------------------------
(***************************************************************************)
(* For any set of locks, any concurrency and any number of kills, with     *)
(* reclaims that overlap: a deferral is forgotten only if a late reclaim   *)
(* has put a running row of its lock back, and a job is taken away from a  *)
(* live worker only by a reclaim that another one has run beside.          *)
(***************************************************************************)
EXTENDS JobQueue, TLAPS

LEMMA InitInv == Init => Inv
  <1> SUFFICES ASSUME Init PROVE Inv
    OBVIOUS
  <1>1. TypeOK
    BY KeysAssumption DEF Init, TypeOK, NoRow, Idle, RowRecords, RunRecords
  <1>2. SlotsOwnRows /\ OwedHasRow /\ CandidatesAreOrphans
    BY DEF Init, SlotsOwnRows, OwedHasRow, CandidatesAreOrphans, Idle
  <1> QED BY <1>1, <1>2 DEF Inv

\* What a busy slot executes: a row of its lock, that waits only if it was doubled.
LEMMA RunningRow ==
  ASSUME Inv, NEW t \in Slots, run[t].at # "idle"
  PROVE  /\ run[t].row \in Rows /\ run[t].key = run[t].row.key
         /\ row[run[t].row].status = "todo" /\ run[t].key \in Work => run[t].key \in doubled
         /\ row[run[t].row].status = "doing" => row[run[t].row].worker \in Slots
  BY DEF Inv, SlotsOwnRows

\* And an idle one nothing.
LEMMA IdleSlot ==
  ASSUME Inv, NEW t \in Slots, run[t].at = "idle"
  PROVE  /\ run[t] = Idle /\ run[t].key = None /\ run[t].fresh = FALSE /\ run[t].alone = FALSE
         /\ run[t].row \notin Rows
  <1>1. run[t] = Idle
    BY DEF Inv, SlotsOwnRows
  <1>2. None \notin Rows
    BY KeysAssumption DEF Rows, Keys
  <1> QED BY <1>1, <1>2 DEF Idle

\* A row that waits is executed by nobody, unless it was doubled.
LEMMA WaitsAlone ==
  ASSUME Inv, NEW j \in Rows, WaitingRow(j), j.key \in Work \ doubled
  PROVE  ~Executed(j)
  <1> SUFFICES ASSUME NEW s \in Slots, run[s].row = j PROVE FALSE
    BY DEF Executed
  <1> QED BY RunningRow, IdleSlot DEF WaitingRow

\* An orphan is executed by nobody.
LEMMA OrphanAlone ==
  ASSUME Inv, NEW j \in Rows, row[j].status = "doing", row[j].worker = None
  PROVE  \A s \in Slots : run[s].row # j
  BY RunningRow, IdleSlot, KeysAssumption

\* The caller's effect rs on the slots touches only what an enqueuing loop has left.
SameRuns(rs) ==
    /\ rs \in [Slots -> RunRecords]
    /\ \A s \in Slots : /\ rs[s].row = run[s].row /\ rs[s].key = run[s].key
                        /\ rs[s].at = run[s].at /\ rs[s].fresh = run[s].fresh
                        /\ rs[s].alone = run[s].alone
                        /\ run[s].key = Reclaim => rs[s].left = run[s].left
                        /\ run[s].at = "idle" => rs[s] = Idle

\* A deferral finds a row in the queue, or adds one that nobody refers to.
LEMMA DeferInv ==
  ASSUME Inv, NEW k \in Keys, NEW rs, SameRuns(rs), defer(k, rs), UNCHANGED <<alive, kills, wanted>>
  PROVE  Inv'
  <1> USE DEF Inv
  <1>1. /\ row' \in [Rows -> RowRecords]
        /\ \A i \in Rows : row[i].status \in {"todo", "doing"} \/ Executed(i) => row'[i] = row[i]
        /\ \E i \in Rows : i.key = k /\ row'[i].status = "todo"
        /\ ~Locked(k) => \E i \in Rows : i.key = k /\ row'[i].status = "todo" /\ ~Executed(i)
    <2>1. CASE Locked(k)
      BY <2>1 DEF defer, Locked, Todo, TypeOK
    <2>2. CASE ~Locked(k)
      <3> DEFINE j == CHOOSE i \in Unused(k) : TRUE
                 new == [status |-> "todo", worker |-> None]
      <3>1. j \in Unused(k) /\ row' = [row EXCEPT ![j] = new]
        BY <2>2 DEF defer
      <3>2. j \in Rows /\ row[j].status \notin {"todo", "doing"} /\ j.key = k /\ ~Executed(j)
        BY <3>1 DEF Unused, Executed
      <3>3. new \in RowRecords
        BY DEF RowRecords
      <3> HIDE DEF j, new
      <3>4. row' \in [Rows -> RowRecords] /\ row'[j] = new /\ \A i \in Rows : i # j => row'[i] = row[i]
        BY <3>1, <3>2, <3>3 DEF TypeOK
      <3>5. new.status = "todo"
        BY DEF new
      <3> QED BY <3>2, <3>4, <3>5
    <2> QED BY <2>1, <2>2
  <1>2. ASSUME NEW s \in Slots
        PROVE  /\ run'[s] = IF rs[s].key = k THEN [rs[s] EXCEPT !.fresh = FALSE] ELSE rs[s]
               /\ run'[s] \in RunRecords
               /\ run'[s].row = run[s].row /\ run'[s].key = run[s].key /\ run'[s].at = run[s].at
               /\ run'[s].alone = run[s].alone
               /\ run[s].key = Reclaim => run'[s].left = run[s].left
               /\ run[s].key # k => run'[s].fresh = run[s].fresh
    BY DEF defer, Outdated, SameRuns, RunRecords
  <1>3. TypeOK'
    <2>1. run' \in [Slots -> RunRecords]
      BY <1>2 DEF defer, Outdated
    <2>2. owed' \subseteq Work /\ doubled' \subseteq Work
      BY DEF defer, TypeOK
    <2> QED BY <1>1, <2>1, <2>2 DEF TypeOK
  <1>4. SlotsOwnRows'
    <2> SUFFICES ASSUME NEW s \in Slots
                 PROVE  IF run'[s].at = "idle" THEN run'[s] = Idle
                        ELSE /\ run'[s].row \in Rows /\ run'[s].key = run'[s].row.key
                             /\ row'[run'[s].row].status = "todo" /\ run'[s].key \in Work
                                    => run'[s].key \in doubled'
                             /\ row'[run'[s].row].status = "doing" => row'[run'[s].row].worker \in Slots
      BY DEF SlotsOwnRows, Idle
    <2>1. CASE run[s].at = "idle"
      <3>1. rs[s] = Idle /\ rs[s].key # k
        BY <2>1, KeysAssumption DEF SameRuns, Idle
      <3> QED BY <1>2, <3>1 DEF Idle
    <2>2. CASE run[s].at # "idle"
      <3>1. /\ run[s].row \in Rows /\ run[s].key = run[s].row.key
            /\ row[run[s].row].status = "todo" /\ run[s].key \in Work => run[s].key \in doubled
            /\ row[run[s].row].status = "doing" => row[run[s].row].worker \in Slots
        BY <2>2, RunningRow
      <3>2. row'[run[s].row] = row[run[s].row]
        BY <1>1, <3>1 DEF Executed
      <3>3. row[run[s].row].status = "todo" /\ run[s].key \in doubled => run[s].key \in doubled'
        BY <3>1 DEF defer, Locked, Todo
      <3> QED BY <1>2, <2>2, <3>1, <3>2, <3>3
    <2> QED BY <2>1, <2>2
  <1>5. CandidatesAreOrphans'
    <2> SUFFICES ASSUME NEW s \in Slots, run'[s].alone
                 PROVE  /\ run'[s].key = Reclaim
                        /\ \A t \in Slots : run'[t].key = Reclaim => t = s
                        /\ \A j \in run'[s].left : j \in Rows /\ row'[j].status = "doing" /\ row'[j].worker = None
      BY DEF CandidatesAreOrphans
    <2>1. run[s].alone /\ run[s].key = Reclaim /\ run'[s].left = run[s].left
      BY <1>2 DEF CandidatesAreOrphans
    <2>2. \A j \in run[s].left : j \in Rows /\ row[j].status = "doing" /\ row[j].worker = None
      BY <2>1 DEF CandidatesAreOrphans
    <2>3. \A j \in run[s].left : row'[j] = row[j]
      BY <1>1, <2>2
    <2>4. \A t \in Slots : run'[t].key = Reclaim => t = s
      BY <1>2, <2>1 DEF CandidatesAreOrphans
    <2> QED BY <1>2, <2>1, <2>2, <2>3, <2>4
  <1>6. OwedHasRow'
    <2> SUFFICES ASSUME NEW q \in owed', q \notin doubled'
                 PROVE  \/ \E i \in Rows : i.key = q /\ WaitingRow(i)' /\ ~Executed(i)'
                        \/ \E s \in Slots :
                              /\ run'[s].key = q /\ run'[s].fresh
                              /\ row'[run'[s].row] = [status |-> "doing", worker |-> s]
                              /\ \A t \in Slots \ {s} : run'[t].row # run'[s].row
      BY DEF OwedHasRow
    <2>1. \A i \in Rows : Executed(i)' <=> Executed(i)
      BY <1>2 DEF Executed
    <2>2. CASE q = k
      <3>1. CASE Locked(k)
        <4>1. PICK i \in Rows : i.key = k /\ row[i].status = "todo"
          BY <3>1 DEF Locked, Todo
        <4>2. k \in Work \ doubled
          BY <2>2, <3>1, <1>3 DEF defer, TypeOK
        <4>3. ~Executed(i) /\ row'[i] = row[i]
          BY <1>1, <4>1, <4>2, WaitsAlone DEF WaitingRow
        <4> QED BY <2>1, <2>2, <4>1, <4>3 DEF WaitingRow
      <3>2. CASE ~Locked(k)
        BY <1>1, <2>1, <2>2, <3>2 DEF WaitingRow
      <3> QED BY <3>1, <3>2
    <2>3. CASE q # k
      <3>1. q \in owed \ doubled
        BY <2>3 DEF defer
      <3>2. ASSUME NEW i \in Rows, i.key = q, WaitingRow(i), ~Executed(i)
            PROVE  WaitingRow(i)' /\ ~Executed(i)'
        BY <1>1, <2>1, <3>2 DEF WaitingRow
      <3>3. ASSUME NEW s \in Slots, run[s].key = q, run[s].fresh,
                   row[run[s].row] = [status |-> "doing", worker |-> s],
                   \A t \in Slots \ {s} : run[t].row # run[s].row
            PROVE  /\ run'[s].key = q /\ run'[s].fresh
                   /\ row'[run'[s].row] = [status |-> "doing", worker |-> s]
                   /\ \A t \in Slots \ {s} : run'[t].row # run'[s].row
        <4>1. run[s].row \in Rows
          BY <3>3, RunningRow, IdleSlot
        <4>2. row'[run[s].row] = row[run[s].row]
          BY <1>1, <4>1 DEF Executed
        <4> QED BY <1>2, <2>3, <3>3, <4>2
      <3> QED BY <3>1, <3>2, <3>3 DEF OwedHasRow
    <2> QED BY <2>2, <2>3
  <1> QED BY <1>3, <1>4, <1>5, <1>6

\* What OwedHasRow says of one lock.
HasRow(q) ==
    \/ \E j \in Rows : j.key = q /\ WaitingRow(j) /\ ~Executed(j)
    \/ \E s \in Slots : /\ run[s].key = q /\ run[s].fresh
                         /\ row[run[s].row] = [status |-> "doing", worker |-> s]
                         /\ \A t \in Slots \ {s} : run[t].row # run[s].row

\* A slot that runs for a lock executes a row.
LEMMA BusySlot ==
  ASSUME Inv, NEW s \in Slots, run[s].key # None
  PROVE  run[s].at # "idle" /\ run[s].row \in Rows /\ run[s].key = run[s].row.key
  BY RunningRow, IdleSlot

\* A job that starts: the row that waited is now its own.
LEMMA FetchInv ==
  ASSUME Inv, NEW s \in Slots, NEW j \in Rows, Fetch(s, j)
  PROVE  Inv'
  <1> USE DEF Inv
  <1> DEFINE k == j.key
             r == [status |-> "doing", worker |-> s]
             others == \E t \in Slots : run[t].key = Reclaim
             u == [row |-> j, key |-> k, at |-> "started", left |-> {}, fresh |-> k \in Work,
                   alone |-> k = Reclaim /\ ~others]
  <1>1. /\ row[j].status = "todo" /\ run[s].at = "idle" /\ run[s] = Idle /\ k \in Keys
        /\ row' = [row EXCEPT ![j] = r]
        /\ UNCHANGED <<alive, kills, wanted, owed, doubled>>
    BY DEF Fetch, SlotsOwnRows, Rows
  <1>2. run'[s] = u /\ \A t \in Slots \ {s} : run'[t] = [run[t] EXCEPT !.alone = @ /\ k # Reclaim]
    BY DEF Fetch, Started
  <1>3. r \in RowRecords /\ u \in RunRecords
    BY <1>1 DEF RowRecords, RunRecords
  <1>4. r.status = "doing" /\ r.worker = s
    OBVIOUS
  <1>5. /\ u.row = j /\ u.key = k /\ u.at = "started" /\ u.left = {} /\ u.fresh = (k \in Work)
        /\ u.alone => k = Reclaim /\ ~others
    OBVIOUS
  <1>6. /\ row' \in [Rows -> RowRecords] /\ row'[j] = r /\ \A i \in Rows : i # j => row'[i] = row[i]
    BY <1>1, <1>3 DEF TypeOK
  <1>7. ASSUME NEW t \in Slots, t # s
        PROVE  /\ run'[t] \in RunRecords
               /\ run'[t].row = run[t].row /\ run'[t].key = run[t].key /\ run'[t].at = run[t].at
               /\ run'[t].fresh = run[t].fresh /\ run'[t].left = run[t].left
               /\ run'[t].alone => run[t].alone /\ k # Reclaim
               /\ run[t].at = "idle" => run'[t] = Idle
    <2>1. run[t] \in RunRecords
      BY DEF TypeOK
    <2>2. run'[t] = [run[t] EXCEPT !.alone = run[t].alone /\ k # Reclaim]
      BY <1>2, <1>7
    <2>3. ASSUME run[t].at = "idle" PROVE run'[t] = Idle
      <3>1. run[t] = Idle /\ ~run[t].alone
        BY <2>3, IdleSlot
      <3>2. run'[t] = [Idle EXCEPT !.alone = FALSE]
        BY <2>2, <3>1
      <3> QED BY <3>2 DEF Idle
    <2> QED BY <2>1, <2>2, <2>3 DEF RunRecords
  <1>8. j \in Rows /\ r = [status |-> "doing", worker |-> s]
    OBVIOUS
  <1>9. run' \in [Slots -> RunRecords]
    <2>1. run' = [t \in Slots |-> run'[t]]
      BY DEF Fetch, Started
    <2>2. \A t \in Slots : run'[t] \in RunRecords
      BY <1>2, <1>3, <1>7
    <2> QED BY <2>1, <2>2
  <1> HIDE DEF r, u
  <1>10. TypeOK'
    BY <1>1, <1>6, <1>9 DEF TypeOK
  <1>11. SlotsOwnRows'
    <2> SUFFICES ASSUME NEW t \in Slots
                 PROVE  IF run'[t].at = "idle" THEN run'[t] = Idle
                        ELSE /\ run'[t].row \in Rows /\ run'[t].key = run'[t].row.key
                             /\ row'[run'[t].row].status = "todo" /\ run'[t].key \in Work
                                    => run'[t].key \in doubled'
                             /\ row'[run'[t].row].status = "doing" => row'[run'[t].row].worker \in Slots
      BY DEF SlotsOwnRows, Idle
    <2>1. CASE t = s
      BY <1>2, <1>4, <1>5, <1>6, <2>1
    <2>2. CASE t # s /\ run[t].at = "idle"
      BY <1>7, <2>2 DEF Idle
    <2>3. CASE t # s /\ run[t].at # "idle"
      BY <1>1, <1>4, <1>6, <1>7, <2>3, RunningRow
    <2> QED BY <2>1, <2>2, <2>3
  <1>12. CandidatesAreOrphans'
    <2> SUFFICES ASSUME NEW t \in Slots, run'[t].alone
                 PROVE  /\ run'[t].key = Reclaim
                        /\ \A v \in Slots : run'[v].key = Reclaim => v = t
                        /\ \A i \in run'[t].left : i \in Rows /\ row'[i].status = "doing" /\ row'[i].worker = None
      BY DEF CandidatesAreOrphans
    <2>1. CASE t = s
      BY <1>2, <1>5, <1>7, <2>1
    <2>2. CASE t # s
      <3>1. run[t].alone /\ k # Reclaim /\ run'[t].left = run[t].left /\ run'[t].key = run[t].key
        BY <1>7, <2>2
      <3>2. /\ run[t].key = Reclaim /\ \A v \in Slots : run[v].key = Reclaim => v = t
            /\ \A i \in run[t].left : i \in Rows /\ row[i].status = "doing" /\ row[i].worker = None
        BY <3>1 DEF CandidatesAreOrphans
      <3>3. \A i \in run[t].left : row'[i] = row[i]
        BY <1>1, <1>6, <3>2
      <3>4. \A v \in Slots : run'[v].key = Reclaim => v = t
        BY <1>2, <1>5, <1>7, <3>1, <3>2
      <3> QED BY <3>1, <3>2, <3>3, <3>4
    <2> QED BY <2>1, <2>2
  <1>13. OwedHasRow'
    <2> SUFFICES ASSUME NEW q \in owed, q \notin doubled PROVE HasRow(q)'
      BY <1>1 DEF OwedHasRow, HasRow
    <2>1. \A i \in Rows : i # j /\ ~Executed(i) => ~Executed(i)'
      BY <1>2, <1>5, <1>7 DEF Executed
    <2>2. q \in Work /\ HasRow(q)
      BY DEF OwedHasRow, HasRow, TypeOK
    <2>3. ASSUME NEW i \in Rows, i.key = q, WaitingRow(i), ~Executed(i), i # j PROVE HasRow(q)'
      BY <1>6, <2>1, <2>3 DEF HasRow, WaitingRow
    <2>4. ASSUME k = q, ~Executed(j) PROVE HasRow(q)'
      <3>1. run'[s].key = q /\ run'[s].fresh /\ run'[s].row = j
        BY <1>2, <1>5, <2>2, <2>4
      <3>2. \A t \in Slots \ {s} : run'[t].row # j
        BY <1>7, <2>4 DEF Executed
      <3> QED BY <1>6, <1>8, <3>1, <3>2 DEF HasRow
    <2>5. ASSUME NEW v \in Slots, run[v].key = q, run[v].fresh,
                 row[run[v].row] = [status |-> "doing", worker |-> v],
                 \A t \in Slots \ {v} : run[t].row # run[v].row
          PROVE  HasRow(q)'
      <3>1. run[v].row \in Rows /\ run[v].at # "idle"
        <4>1. run[v].key # None
          BY <2>2, <2>5, KeysAssumption DEF Keys
        <4> QED BY <4>1, BusySlot
      <3>2. v # s /\ run[v].row # j
        BY <1>1, <2>5, <3>1
      <3>3. row'[run[v].row] = row[run[v].row]
        BY <1>6, <3>1, <3>2
      <3>4. run'[v].row = run[v].row /\ run'[v].key = q /\ run'[v].fresh
        BY <1>7, <2>5, <3>2
      <3>5. \A t \in Slots \ {v} : run'[t].row # run[v].row
        BY <1>2, <1>5, <1>7, <2>5, <3>2
      <3> QED BY <2>5, <3>3, <3>4, <3>5 DEF HasRow
    <2> QED BY <2>2, <2>3, <2>4, <2>5 DEF HasRow
  <1> QED BY <1>10, <1>11, <1>12, <1>13

\* A job that ends, as done or as failed.
LEMMA EndsInv ==
  ASSUME Inv, NEW s \in Slots, run[s].at # "idle",
         NEW ended \in RowRecords, ended.status \notin {"todo", "doing"}, Ends(s, ended)
  PROVE  Inv'
  <1> USE DEF Inv
  <1> DEFINE j == run[s].row
  <1>1. /\ j \in Rows
        /\ row' \in [Rows -> RowRecords]
        /\ row'[j] = row[j] \/ row'[j] = ended
        /\ \A i \in Rows : i # j => row'[i] = row[i]
    BY RunningRow DEF Ends, TypeOK
  <1>2. /\ run'[s] = Idle /\ \A t \in Slots \ {s} : run'[t] = run[t]
        /\ run' \in [Slots -> RunRecords]
    BY DEF Ends, TypeOK, Idle, RunRecords
  <1>3. None \notin Rows /\ Reclaim # None
    BY KeysAssumption DEF Keys
  <1>4. TypeOK'
    BY <1>1, <1>2 DEF TypeOK, Ends
  <1>5. SlotsOwnRows'
    <2> SUFFICES ASSUME NEW t \in Slots, t # s, run[t].at # "idle"
                 PROVE  /\ row'[run[t].row].status = "todo" /\ run[t].key \in Work => run[t].key \in doubled
                        /\ row'[run[t].row].status = "doing" => row'[run[t].row].worker \in Slots
      <3>1. run'[s] = Idle /\ Idle.at = "idle" /\ doubled' = doubled
        BY <1>2 DEF Idle, Ends
      <3> QED BY <1>2, <3>1 DEF SlotsOwnRows
    <2> QED BY <1>1, RunningRow
  <1>6. CandidatesAreOrphans'
    <2> SUFFICES ASSUME NEW t \in Slots, t # s, run[t].alone
                 PROVE  /\ \A v \in Slots : run'[v].key = Reclaim => v = t
                        /\ \A i \in run[t].left : row'[i] = row[i]
      BY <1>2 DEF CandidatesAreOrphans, Idle
    <2>1. \A i \in run[t].left : i \in Rows /\ row[i].status = "doing" /\ row[i].worker = None
      BY DEF CandidatesAreOrphans
    <2>2. \A i \in run[t].left : i # j
      BY <2>1, OrphanAlone
    <2> QED BY <1>1, <1>2, <1>3, <2>1, <2>2 DEF CandidatesAreOrphans, Idle
  <1>7. OwedHasRow'
    <2> SUFFICES ASSUME NEW q \in owed', q \notin doubled PROVE HasRow(q)'
      BY DEF OwedHasRow, HasRow, Ends
    <2>1. q \in owed /\ (q = run[s].key => ~run[s].fresh)
      BY DEF Ends
    <2>2. q \in Work /\ HasRow(q)
      BY <2>1 DEF OwedHasRow, HasRow, TypeOK
    <2>3. ASSUME NEW i \in Rows, i.key = q, WaitingRow(i), ~Executed(i) PROVE HasRow(q)'
      <3>1. i # j /\ ~Executed(i)'
        BY <1>2, <1>3, <2>3 DEF Executed, Idle
      <3> QED BY <1>1, <2>3, <3>1 DEF HasRow, WaitingRow
    <2>4. ASSUME NEW v \in Slots, run[v].key = q, run[v].fresh,
                 row[run[v].row] = [status |-> "doing", worker |-> v],
                 \A t \in Slots \ {v} : run[t].row # run[v].row
          PROVE  HasRow(q)'
      <3>1. run[v].row \in Rows
        <4>1. run[v].key # None
          BY <2>2, <2>4, KeysAssumption DEF Keys
        <4> QED BY <4>1, BusySlot
      <3>2. v # s /\ run[v].row # j
        BY <2>1, <2>4
      <3>3. row'[run[v].row] = row[run[v].row] /\ run'[v] = run[v]
        BY <1>1, <1>2, <3>1, <3>2
      <3>4. \A t \in Slots \ {v} : run'[t].row # run[v].row
        BY <1>2, <1>3, <2>4, <3>1 DEF Idle
      <3> QED BY <2>4, <3>3, <3>4 DEF HasRow
    <2> QED BY <2>2, <2>3, <2>4 DEF HasRow
  <1> QED BY <1>4, <1>5, <1>6, <1>7

\* A started job goes on; if it is a reclaim without company, with orphans only.
LEMMA ProgressInv ==
  ASSUME Inv, NEW s \in Slots, run[s].at = "started",
         run' \in [Slots -> RunRecords], \A t \in Slots : t # s => run'[t] = run[t],
         run'[s].row = run[s].row, run'[s].key = run[s].key, run'[s].fresh = run[s].fresh,
         run'[s].alone = run[s].alone, run'[s].at = "looping",
         run[s].key = Reclaim =>
            \A j \in run'[s].left : j \in Rows /\ row[j].status = "doing" /\ row[j].worker = None,
         UNCHANGED <<row, alive, kills, owed, doubled>>, wanted' \subseteq Work
  PROVE  Inv'
  <1> USE DEF Inv
  <1>1. TypeOK'
    BY DEF TypeOK
  <1>2. SlotsOwnRows'
    BY DEF SlotsOwnRows, Idle
  <1>3. ASSUME NEW t \in Slots
        PROVE  /\ run'[t].row = run[t].row /\ run'[t].key = run[t].key
               /\ run'[t].fresh = run[t].fresh /\ run'[t].alone = run[t].alone
    OBVIOUS
  <1>4. CandidatesAreOrphans'
    <2> SUFFICES ASSUME NEW t \in Slots, run[t].alone
                 PROVE  /\ run'[t].key = Reclaim
                        /\ \A v \in Slots : run'[v].key = Reclaim => v = t
                        /\ \A i \in run'[t].left : i \in Rows /\ row[i].status = "doing" /\ row[i].worker = None
      BY <1>3 DEF CandidatesAreOrphans
    <2> QED BY <1>3 DEF CandidatesAreOrphans
  <1>5. OwedHasRow'
    <2> SUFFICES ASSUME NEW q \in owed, q \notin doubled PROVE HasRow(q)'
      BY DEF OwedHasRow, HasRow
    <2>1. HasRow(q)
      BY DEF OwedHasRow, HasRow
    <2>2. \A i \in Rows : (Executed(i)' <=> Executed(i)) /\ (WaitingRow(i)' <=> WaitingRow(i))
      BY <1>3 DEF Executed, WaitingRow
    <2>3. ASSUME NEW v \in Slots, run[v].key = q, run[v].fresh,
                 row[run[v].row] = [status |-> "doing", worker |-> v],
                 \A t \in Slots \ {v} : run[t].row # run[v].row
          PROVE  HasRow(q)'
      <3>1. /\ run'[v].key = q /\ run'[v].fresh
            /\ row'[run'[v].row] = [status |-> "doing", worker |-> v]
            /\ \A t \in Slots \ {v} : run'[t].row # run'[v].row
        BY <1>3, <2>3
      <3> QED BY <3>1 DEF HasRow
    <2> QED BY <2>1, <2>2, <2>3 DEF HasRow
  <1> QED BY <1>1, <1>2, <1>4, <1>5

\* A candidate returns to the queue, which doubles its lock if a slot executes it; or its
\* lock is taken and it stays what it is.
LEMMA RetriesInv ==
  ASSUME Inv, NEW s \in Slots, NEW j \in Rows, ReclaimRetries(s, j)
  PROVE  Inv'
  <1> USE DEF Inv
  <1> DEFINE r == [status |-> "todo", worker |-> None]
  <1>1. /\ run[s].key = Reclaim /\ j \in run[s].left
        /\ \/ row' = row /\ doubled' = doubled
           \/ /\ row' = [row EXCEPT ![j] = r]
              /\ doubled' = IF Executed(j) THEN doubled \cup ({j.key} \cap Work) ELSE doubled
        /\ run' = [run EXCEPT ![s].left = @ \ {j}]
        /\ UNCHANGED <<alive, kills, wanted, owed>>
    BY DEF ReclaimRetries
  <1>2. r \in RowRecords /\ r.status = "todo"
    BY DEF RowRecords
  <1> HIDE DEF r
  <1>3. /\ row' \in [Rows -> RowRecords]
        /\ \/ row'[j] = row[j]
           \/ row'[j].status = "todo" /\ (Executed(j) /\ j.key \in Work => j.key \in doubled')
        /\ \A i \in Rows : i # j => row'[i] = row[i]
        /\ doubled \subseteq doubled' /\ doubled' \subseteq Work
    <2>1. row \in [Rows -> RowRecords] /\ doubled \subseteq Work
      BY DEF TypeOK
    <2>2. CASE row' = row /\ doubled' = doubled
      BY <2>1, <2>2
    <2>3. CASE row' = [row EXCEPT ![j] = r]
      BY <1>1, <1>2, <2>1, <2>3
    <2> QED BY <1>1, <2>2, <2>3
  <1>4. ASSUME NEW t \in Slots
        PROVE  /\ run'[t] \in RunRecords
               /\ run'[t].row = run[t].row /\ run'[t].key = run[t].key /\ run'[t].at = run[t].at
               /\ run'[t].fresh = run[t].fresh /\ run'[t].alone = run[t].alone
               /\ run'[t].left \subseteq run[t].left
               /\ t = s => j \notin run'[t].left
               /\ t # s => run'[t] = run[t]
    BY <1>1 DEF TypeOK, RunRecords
  <1>5. TypeOK'
    <2>1. run' \in [Slots -> RunRecords]
      BY <1>1, <1>4 DEF TypeOK
    <2> QED BY <1>1, <1>3, <2>1 DEF TypeOK
  <1>6. SlotsOwnRows'
    <2> SUFFICES ASSUME NEW t \in Slots
                 PROVE  IF run'[t].at = "idle" THEN run'[t] = Idle
                        ELSE /\ run'[t].row \in Rows /\ run'[t].key = run'[t].row.key
                             /\ row'[run'[t].row].status = "todo" /\ run'[t].key \in Work
                                    => run'[t].key \in doubled'
                             /\ row'[run'[t].row].status = "doing" => row'[run'[t].row].worker \in Slots
      BY DEF SlotsOwnRows, Idle
    <2>1. CASE run[t].at = "idle"
      <3>1. t # s
        BY <1>1, <2>1, IdleSlot, KeysAssumption DEF Keys
      <3> QED BY <1>4, <2>1, <3>1 DEF SlotsOwnRows
    <2>2. CASE run[t].at # "idle"
      <3>1. /\ run[t].row \in Rows /\ run[t].key = run[t].row.key
            /\ row[run[t].row].status = "todo" /\ run[t].key \in Work => run[t].key \in doubled
            /\ row[run[t].row].status = "doing" => row[run[t].row].worker \in Slots
        BY <2>2, RunningRow
      <3>2. CASE run[t].row = j
        BY <1>3, <1>4, <2>2, <3>1, <3>2 DEF Executed
      <3>3. CASE run[t].row # j
        BY <1>3, <1>4, <2>2, <3>1, <3>3
      <3> QED BY <3>2, <3>3
    <2> QED BY <2>1, <2>2
  <1>7. CandidatesAreOrphans'
    <2> SUFFICES ASSUME NEW t \in Slots, run[t].alone
                 PROVE  /\ run'[t].key = Reclaim
                        /\ \A v \in Slots : run'[v].key = Reclaim => v = t
                        /\ \A i \in run'[t].left : i \in Rows /\ row'[i].status = "doing" /\ row'[i].worker = None
      BY <1>4 DEF CandidatesAreOrphans
    <2>1. /\ run[t].key = Reclaim /\ \A v \in Slots : run[v].key = Reclaim => v = t
          /\ \A i \in run[t].left : i \in Rows /\ row[i].status = "doing" /\ row[i].worker = None
      BY DEF CandidatesAreOrphans
    <2>2. t = s
      BY <1>1, <2>1
    <2>3. \A i \in run'[t].left : i \in run[t].left /\ i # j
      BY <1>4, <2>2
    <2> QED BY <1>3, <1>4, <2>1, <2>3
  <1>8. OwedHasRow'
    <2> SUFFICES ASSUME NEW q \in owed, q \notin doubled' PROVE HasRow(q)'
      BY <1>1 DEF OwedHasRow, HasRow
    <2>1. q \in Work /\ HasRow(q)
      BY <1>3 DEF OwedHasRow, HasRow, TypeOK
    <2>2. \A i \in Rows : Executed(i)' <=> Executed(i)
      BY <1>4 DEF Executed
    <2>3. ASSUME NEW i \in Rows, i.key = q, WaitingRow(i), ~Executed(i) PROVE HasRow(q)'
      <3>1. WaitingRow(i)'
        BY <1>3, <2>3 DEF WaitingRow
      <3> QED BY <2>2, <2>3, <3>1 DEF HasRow
    <2>4. ASSUME NEW v \in Slots, run[v].key = q, run[v].fresh,
                 row[run[v].row] = [status |-> "doing", worker |-> v],
                 \A t \in Slots \ {v} : run[t].row # run[v].row
          PROVE  HasRow(q)'
      <3>1. run[v].row \in Rows /\ run[v].key = run[v].row.key
        <4>1. run[v].key # None
          BY <2>1, <2>4, KeysAssumption DEF Keys
        <4> QED BY <4>1, BusySlot
      <3>2. row'[run[v].row] = row[run[v].row]
        BY <1>3, <2>1, <2>4, <3>1 DEF Executed
      <3> QED BY <1>4, <2>4, <3>2 DEF HasRow
    <2> QED BY <2>1, <2>3, <2>4 DEF HasRow
  <1> QED BY <1>5, <1>6, <1>7, <1>8

\* The worker dies: what its slots executed waits to be reclaimed.
LEMMA KilledInv ==
  ASSUME Inv, WorkerKilled
  PROVE  Inv'
  <1> USE DEF Inv
  <1>1. /\ run' = [s \in Slots |-> Idle]
        /\ \A j \in Rows : row'[j] = IF row[j].status = "doing" /\ row[j].worker \in Slots
                                     THEN [row[j] EXCEPT !.worker = Dead] ELSE row[j]
    BY DEF WorkerKilled
  <1>2. TypeOK'
    <2>1. Idle \in RunRecords
      BY DEF Idle, RunRecords
    <2>2. row' \in [Rows -> RowRecords]
      BY DEF WorkerKilled, TypeOK, RowRecords
    <2>3. kills' \in 0 .. MaxKills
      BY KeysAssumption DEF WorkerKilled, TypeOK
    <2>4. run' \in [Slots -> RunRecords]
      BY <1>1, <2>1
    <2>5. alive' \in BOOLEAN /\ UNCHANGED <<wanted, owed, doubled>>
      BY DEF WorkerKilled
    <2> QED BY <2>2, <2>3, <2>4, <2>5 DEF TypeOK
  <1>3. SlotsOwnRows'
    BY <1>1 DEF SlotsOwnRows, Idle
  <1>4. CandidatesAreOrphans'
    BY <1>1 DEF CandidatesAreOrphans, Idle
  <1>5. OwedHasRow'
    <2> SUFFICES ASSUME NEW q \in owed, q \notin doubled PROVE HasRow(q)'
      BY DEF OwedHasRow, HasRow, WorkerKilled
    <2>1. q \in Work /\ HasRow(q)
      BY DEF OwedHasRow, HasRow, TypeOK
    <2>2. \A j \in Rows : ~Executed(j)'
      <3>1. \A s \in Slots : run'[s].row = None
        BY <1>1 DEF Idle
      <3> QED BY <3>1, KeysAssumption DEF Executed
    <2>3. ASSUME NEW j \in Rows, j.key = q, WaitingRow(j) PROVE HasRow(q)'
      BY <1>1, <2>2, <2>3 DEF HasRow, WaitingRow
    <2>4. ASSUME NEW s \in Slots, run[s].key = q, row[run[s].row] = [status |-> "doing", worker |-> s]
          PROVE  HasRow(q)'
      <3> DEFINE j == run[s].row
      <3>1. j \in Rows /\ j.key = q
        <4>1. run[s].key # None
          BY <2>1, <2>4, KeysAssumption DEF Keys
        <4> QED BY <2>4, <4>1, BusySlot
      <3>2. row'[j] = [row[j] EXCEPT !.worker = Dead] /\ row[j] = [status |-> "doing", worker |-> s]
        BY <1>1, <2>4, <3>1
      <3>3. row'[j].status = "doing" /\ row'[j].worker = Dead
        BY <3>2
      <3> QED BY <2>2, <3>1, <3>3, KeysAssumption DEF HasRow, WaitingRow
    <2> QED BY <2>1, <2>3, <2>4 DEF HasRow
  <1> QED BY <1>2, <1>3, <1>4, <1>5

\* Pruning turns the dead worker's jobs into orphans.
LEMMA PruneInv ==
  ASSUME Inv, Prune
  PROVE  Inv'
  <1> USE DEF Inv
  <1>1. /\ UNCHANGED <<run, alive, kills, wanted, owed, doubled>>
        /\ \A j \in Rows : row'[j] = IF row[j].worker = Dead THEN [row[j] EXCEPT !.worker = None] ELSE row[j]
    BY DEF Prune
  <1>2. ASSUME NEW j \in Rows
        PROVE  /\ row'[j].status = row[j].status
               /\ row[j].worker # Dead => row'[j] = row[j]
               /\ row[j].worker = Dead => row'[j].worker = None
    BY <1>1 DEF TypeOK, RowRecords
  <1>3. TypeOK'
    <2>1. row' \in [Rows -> RowRecords]
      BY DEF Prune, TypeOK, RowRecords
    <2> QED BY <1>1, <2>1 DEF TypeOK
  <1>4. SlotsOwnRows'
    <2> SUFFICES ASSUME NEW t \in Slots, run[t].at # "idle"
                 PROVE  /\ row'[run[t].row].status = row[run[t].row].status
                        /\ row[run[t].row].status = "doing" => row'[run[t].row] = row[run[t].row]
      BY <1>1 DEF SlotsOwnRows, Idle
    <2> QED BY <1>2, RunningRow, KeysAssumption
  <1>5. CandidatesAreOrphans'
    <2>1. \A s \in Slots : run[s].alone => \A j \in run[s].left : row'[j] = row[j]
      BY <1>2, KeysAssumption DEF CandidatesAreOrphans
    <2> QED BY <1>1, <2>1 DEF CandidatesAreOrphans
  <1>6. OwedHasRow'
    <2> SUFFICES ASSUME NEW q \in owed, q \notin doubled PROVE HasRow(q)'
      BY <1>1 DEF OwedHasRow, HasRow
    <2>1. q \in Work /\ HasRow(q)
      BY DEF OwedHasRow, HasRow, TypeOK
    <2>2. ASSUME NEW j \in Rows, j.key = q, WaitingRow(j), ~Executed(j) PROVE HasRow(q)'
      BY <1>1, <1>2, <2>2, KeysAssumption DEF HasRow, WaitingRow, Executed
    <2>3. ASSUME NEW s \in Slots, run[s].key = q, run[s].fresh,
                 row[run[s].row] = [status |-> "doing", worker |-> s],
                 \A t \in Slots \ {s} : run[t].row # run[s].row
          PROVE  HasRow(q)'
      <3>1. run[s].row \in Rows
        <4>1. run[s].key # None
          BY <2>1, <2>3, KeysAssumption DEF Keys
        <4> QED BY <4>1, BusySlot
      <3>2. row'[run[s].row] = row[run[s].row]
        BY <1>2, <2>3, <3>1, KeysAssumption
      <3> QED BY <1>1, <2>3, <3>2 DEF HasRow
    <2> QED BY <2>1, <2>2, <2>3 DEF HasRow
  <1> QED BY <1>3, <1>4, <1>5, <1>6

\* Nothing that Inv speaks of changes.
LEMMA SameInv ==
  ASSUME Inv, UNCHANGED <<row, run, kills, owed, doubled>>, alive' \in BOOLEAN, wanted' \subseteq Work
  PROVE  Inv'
  <1>1. TypeOK' /\ SlotsOwnRows' /\ CandidatesAreOrphans'
    BY DEF Inv, TypeOK, SlotsOwnRows, CandidatesAreOrphans
  <1>2. OwedHasRow'
    <2>1. \A j \in Rows : (Executed(j)' <=> Executed(j)) /\ (WaitingRow(j)' <=> WaitingRow(j))
      BY DEF Executed, WaitingRow
    <2> QED BY <2>1 DEF Inv, OwedHasRow
  <1> QED BY <1>1, <1>2 DEF Inv

LEMMA StepInv == Inv /\ [Next]_vars => Inv'
  <1> SUFFICES ASSUME Inv, [Next]_vars PROVE Inv'
    OBVIOUS
  <1> USE DEF Inv
  <1>1. SameRuns(run)
    BY DEF SameRuns, TypeOK, SlotsOwnRows
  <1>2. ASSUME NEW k \in Keys, Cron(k) \/ (k \in Work /\ post_sync_now(k)) PROVE Inv'
    BY <1>1, <1>2, DeferInv DEF Cron, post_sync_now
  <1>3. ASSUME NEW k \in Work, BecomesWanted(k) PROVE Inv'
    BY <1>3, SameInv DEF BecomesWanted, TypeOK
  <1>4. ASSUME NEW k \in Keys, FetchKey(k) PROVE Inv'
    BY <1>4, FetchInv DEF FetchKey
  <1>5. ASSUME NEW s \in Slots, Returns(s) \/ Raises(s) PROVE Inv'
    <2>1. run[s].at # "idle"
      BY <1>5 DEF Returns, Raises
    <2>2. PICK ended \in RowRecords : ended.status \notin {"todo", "doing"} /\ Ends(s, ended)
      <3>1. NoRow \in RowRecords /\ NoRow.status = "none"
        BY DEF NoRow, RowRecords
      <3>2. FailedRow(run[s].row) \in RowRecords /\ FailedRow(run[s].row).status \in {"none", "failed"}
        BY DEF FailedRow, NoRow, RowRecords
      <3> QED BY <1>5, <3>1, <3>2 DEF Returns, Raises
    <2> QED BY <2>1, <2>2, EndsInv
  <1>6. ASSUME NEW s \in Slots, Works(s) PROVE Inv'
    <2>1. run[s] \in RunRecords /\ run[s].key # Reclaim /\ run' = [run EXCEPT ![s].at = "looping"]
      BY <1>6, KeysAssumption DEF Works, TypeOK
    <2>2. /\ run' \in [Slots -> RunRecords] /\ run'[s].at = "looping"
          /\ run'[s].row = run[s].row /\ run'[s].key = run[s].key /\ run'[s].fresh = run[s].fresh
          /\ run'[s].alone = run[s].alone
      BY <2>1 DEF TypeOK, RunRecords
    <2>3. wanted' \subseteq Work /\ UNCHANGED <<row, alive, kills, owed, doubled>> /\ run[s].at = "started"
      BY <1>6 DEF Works, TypeOK
    <2> QED BY <2>1, <2>2, <2>3, ProgressInv
  <1>7. ASSUME NEW s \in Slots, EnqueueSelects(s) PROVE Inv'
    <2>1. /\ run[s] \in RunRecords /\ run[s].key # Reclaim /\ wanted \subseteq Work
          /\ run' = [run EXCEPT ![s].at = "looping", ![s].left = wanted]
      BY <1>7, KeysAssumption DEF EnqueueSelects, TypeOK
    <2>2. /\ run' \in [Slots -> RunRecords] /\ run'[s].at = "looping"
          /\ run'[s].row = run[s].row /\ run'[s].key = run[s].key /\ run'[s].fresh = run[s].fresh
          /\ run'[s].alone = run[s].alone
      BY <2>1 DEF TypeOK, RunRecords
    <2>3. UNCHANGED <<row, alive, kills, wanted, owed, doubled>> /\ run[s].at = "started"
      BY <1>7 DEF EnqueueSelects
    <2> QED BY <2>1, <2>2, <2>3, ProgressInv
  <1>8. ASSUME NEW s \in Slots, NEW k \in Work, EnqueueDefers(s, k) PROVE Inv'
    <2> DEFINE rs == [run EXCEPT ![s].left = @ \ {k}]
    <2>1. SameRuns(rs)
      <3>1. rs \in [Slots -> RunRecords]
        BY DEF TypeOK, RunRecords
      <3>2. run[s].key # Reclaim /\ run[s].at # "idle"
        BY <1>8, IdleSlot, KeysAssumption DEF EnqueueDefers, Keys
      <3>3. ASSUME NEW t \in Slots
            PROVE  /\ rs[t].row = run[t].row /\ rs[t].key = run[t].key
                   /\ rs[t].at = run[t].at /\ rs[t].fresh = run[t].fresh
                   /\ rs[t].alone = run[t].alone
                   /\ t # s => rs[t] = run[t]
        BY DEF TypeOK, RunRecords
      <3>4. \A t \in Slots : run[t].at = "idle" => run[t] = Idle /\ t # s
        BY <3>2 DEF SlotsOwnRows
      <3> HIDE DEF rs
      <3> QED BY <3>1, <3>2, <3>3, <3>4 DEF SameRuns
    <2>2. k \in Keys /\ defer(k, rs) /\ UNCHANGED <<alive, kills, wanted>>
      BY <1>8 DEF EnqueueDefers, Keys
    <2> HIDE DEF rs
    <2> QED BY <2>1, <2>2, DeferInv
  <1>9. ASSUME NEW s \in Slots, ReclaimSelects(s) PROVE Inv'
    <2> DEFINE orphans == {j \in Rows : Orphaned(j)}
    <2>1. /\ run[s] \in RunRecords /\ run[s].key = Reclaim
          /\ run' = [run EXCEPT ![s].at = "looping", ![s].left = orphans]
      BY <1>9 DEF ReclaimSelects, TypeOK
    <2>2. /\ run' \in [Slots -> RunRecords] /\ run'[s].at = "looping" /\ run'[s].left = orphans
          /\ run'[s].row = run[s].row /\ run'[s].key = run[s].key /\ run'[s].fresh = run[s].fresh
          /\ run'[s].alone = run[s].alone
      BY <2>1 DEF TypeOK, RunRecords
    <2>3. /\ UNCHANGED <<row, alive, kills, wanted, owed, doubled>> /\ run[s].at = "started"
          /\ \A t \in Slots : t # s => run'[t] = run[t]
      BY <1>9 DEF ReclaimSelects, TypeOK
    <2>4. \A j \in orphans : j \in Rows /\ row[j].status = "doing" /\ row[j].worker = None
      BY DEF Orphaned
    <2>5. wanted' \subseteq Work
      BY <2>3 DEF TypeOK
    <2> QED BY <2>2, <2>3, <2>4, <2>5, ProgressInv
  <1>10. ASSUME NEW s \in Slots, NEW j \in Rows, ReclaimRetries(s, j) PROVE Inv'
    BY <1>10, RetriesInv
  <1>11. CASE WorkerKilled
    BY <1>11, KilledInv
  <1>12. CASE WorkerStarts
    BY <1>12, SameInv DEF WorkerStarts, TypeOK
  <1>13. CASE Prune
    BY <1>13, PruneInv
  <1>14. CASE UNCHANGED vars
    BY <1>14, SameInv DEF vars, TypeOK
  <1> QED BY <1>2, <1>3, <1>4, <1>5, <1>6, <1>7, <1>8, <1>9, <1>10, <1>11, <1>12, <1>13, <1>14
          DEF Next, Proceeds, ReclaimAborts, Keys

LEMMA InvHolds == Spec => []Inv
  <1>1. Inv /\ [Next]_vars => Inv'
    BY StepInv
  <1> QED BY <1>1, InitInv, PTL DEF Spec

\* defer / AlreadyEnqueued, fetch, failures, SIGKILL, pruning and reclaims, overlapping
\* ones too, together forget no deferral but one whose lock a late reclaim has doubled.
THEOREM NothingForgottenHolds == Spec => []NothingForgotten
  <1>1. Inv => NothingForgotten
    <2> SUFFICES ASSUME Inv, NEW k \in owed \ doubled PROVE Waiting(k) \/ RunsFresh(k)
      BY DEF NothingForgotten
    <2> QED BY DEF Inv, OwedHasRow, Waiting, RunsFresh
  <1> QED BY <1>1, InvHolds, PTL

\* reclaim_orphaned_jobs puts a job that a live worker executes back into the queue only
\* if another reclaim has run beside it.
THEOREM ReclaimsOnlyOrphansHolds == Spec => ReclaimsOnlyOrphans
  <1> DEFINE OnlyOrphans ==
        \A j \in Rows : PutsBack(j) =>
            \/ row[j].worker = None
            \/ \E s \in Slots : run[s].key = Reclaim /\ j \in run[s].left /\ ~run[s].alone
  <1>1. Inv /\ [Next]_vars => [OnlyOrphans]_vars
    <2> SUFFICES ASSUME Inv, Next, NEW j \in Rows, row[j].status = "doing", row'[j].status = "todo"
                 PROVE  \/ row[j].worker = None
                        \/ \E s \in Slots : run[s].key = Reclaim /\ j \in run[s].left /\ ~run[s].alone
      BY DEF vars, PutsBack
    <2> USE DEF Inv
    <2>1. ASSUME NEW k, NEW rs, defer(k, rs) PROVE FALSE
      BY <2>1 DEF defer, Unused, TypeOK
    <2>2. ASSUME NEW s \in Slots, NEW i \in Rows, Fetch(s, i) PROVE FALSE
      BY <2>2 DEF Fetch, TypeOK
    <2>3. ASSUME NEW s \in Slots, Returns(s) \/ Raises(s) PROVE FALSE
      BY <2>3 DEF Returns, Raises, Ends, NoRow, FailedRow, TypeOK
    <2>4. ASSUME NEW s \in Slots, NEW i \in Rows, ReclaimRetries(s, i)
          PROVE  \/ row[j].worker = None
                 \/ run[s].key = Reclaim /\ j \in run[s].left /\ ~run[s].alone
      BY <2>4 DEF ReclaimRetries, CandidatesAreOrphans, TypeOK
    <2>5. CASE WorkerKilled
      BY <2>5 DEF WorkerKilled, TypeOK, RowRecords
    <2>6. CASE Prune
      BY <2>6 DEF Prune, TypeOK, RowRecords
    <2> QED BY <2>1, <2>2, <2>3, <2>4, <2>5, <2>6 DEF Next, Cron, post_sync_now, BecomesWanted, FetchKey,
              Proceeds, Works, EnqueueSelects, EnqueueDefers, ReclaimSelects, ReclaimAborts, WorkerStarts
  <1> QED BY <1>1, InvHolds, PTL DEF Spec, ReclaimsOnlyOrphans
=============================================================================
