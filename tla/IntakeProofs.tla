---------------------------- MODULE IntakeProofs ----------------------------
(***************************************************************************)
(* Postings, for any number of connections, keys and payloads: what        *)
(* upsert_job and the writers of _jd_full.py keep.  The argument is in     *)
(* LookedUp: a connection that waits for its second lock has found no row  *)
(* under its own key, whose lock it holds, and a twin under the key that   *)
(* it waits for, and so it is still when it writes. MailIngest, for any    *)
(* number of folders, runs and messages: if no two folders share a         *)
(* UIDVALIDITY, the watermark never makes a run skip mail that nobody has  *)
(* fetched.                                                                *)
(***************************************************************************)
EXTENDS Postings, MailIngest, TLAPS

LookedUp ==
    \A s \in Slots :
        /\ pc[s] = "relocking" => target[s] # job[s].key
        /\ pc[s] \in {"relocking", "writing"} /\ target[s] # job[s].key =>
              row[job[s].key] = None /\ row[target[s]] # None /\ IsTwin(row[target[s]], job[s])

\* The inductive part; NoCircle and what is claimed of steps follow from it.
IInv == TypeOK /\ LocksAreHeld /\ ReadIsLive /\ LookedUp /\ ReasonsAreOwned

(* Locks of two connections are disjoint, so what one may write no other has read. *)
LEMMA LocksExclude ==
    ASSUME LocksAreHeld, NEW s \in Slots, NEW t \in Slots, NEW k \in locks[s], k \in locks[t]
    PROVE  s = t
BY DEF LocksAreHeld

(* An inserted row says what a row may say. *)
LEMMA InsertedIsRow ==
    ASSUME NEW p \in Payloads, p.company # None
    PROVE  Inserted(p) \in Rows
BY PostingsAssumption DEF Inserted, Rows, Codes

(* So does a merged one, and it keeps what the row said when that is what was read. *)
LEMMA MergedIsRow ==
    ASSUME NEW live \in Rows, NEW read \in Rows, NEW p \in Payloads
    PROVE  Merged(live, read, p) \in Rows
<1>1. /\ Filled(read.source_id, p.source_id) \in {None} \cup {q.source_id : q \in Payloads}
      /\ Filled(read.salary, p.salary) \in {None} \cup {q.salary : q \in Payloads}
  BY DEF Filled, Rows
<1>2. /\ read.sources \cup p.sources \in SUBSET UNION {q.sources : q \in Payloads}
      /\ read.places \cup p.places \in SUBSET UNION {q.places : q \in Payloads}
  BY DEF Rows
<1>3. Larger(read.rank, p.rank) \in Nat /\ Larger(read.length, p.length) \in Nat
  BY PostingsAssumption DEF Larger, Rows
<1>4. Recoded(live, p, Changes(read, p)) \in SUBSET Codes
  BY DEF Recoded, Rows, Codes
<1>5. live.company \in {q.company : q \in Payloads} \ {None}
  BY DEF Rows
<1> QED BY <1>1, <1>2, <1>3, <1>4, <1>5 DEF Merged, Rows

LEMMA SameButForTheCodes ==
    ASSUME NEW live \in Rows, NEW read \in Rows, [live EXCEPT !.codes = {}] = [read EXCEPT !.codes = {}]
    PROVE  /\ live.company = read.company /\ live.source_id = read.source_id
           /\ live.sources = read.sources /\ live.places = read.places
           /\ live.rank = read.rank /\ live.length = read.length /\ live.salary = read.salary
<1> DEFINE a == [live EXCEPT !.codes = {}]
           b == [read EXCEPT !.codes = {}]
<1>1. /\ a.company = live.company /\ a.source_id = live.source_id /\ a.sources = live.sources
      /\ a.places = live.places /\ a.rank = live.rank /\ a.length = live.length /\ a.salary = live.salary
  BY DEF Rows
<1>2. /\ b.company = read.company /\ b.source_id = read.source_id /\ b.sources = read.sources
      /\ b.places = read.places /\ b.rank = read.rank /\ b.length = read.length /\ b.salary = read.salary
  BY DEF Rows
<1> QED BY <1>1, <1>2

(* A merge of what was read keeps what the row says, when that is what was read. *)
LEMMA MergedKeeps ==
    ASSUME NEW live \in Rows, NEW read \in Rows, NEW p \in Payloads,
           live.company = read.company, live.source_id = read.source_id, live.sources = read.sources,
           live.places = read.places, live.rank = read.rank, live.length = read.length, live.salary = read.salary
    PROVE  Keeps(live, Merged(live, read, p))
<1> DEFINE new == Merged(live, read, p)
<1>1. /\ new.company = live.company /\ new.sources = live.sources \cup p.sources
      /\ new.places = live.places \cup p.places
      /\ new.rank = Larger(live.rank, p.rank) /\ new.length = Larger(live.length, p.length)
      /\ new.salary = Filled(live.salary, p.salary) /\ new.source_id = Filled(live.source_id, p.source_id)
  BY DEF Merged
<1>2. live.rank <= Larger(live.rank, p.rank) /\ live.length <= Larger(live.length, p.length)
  BY PostingsAssumption DEF Rows, Larger
<1> HIDE DEF new
<1>3. Keeps(live, new)  BY <1>1, <1>2 DEF Keeps, Filled
<1> QED BY <1>3 DEF new

LEMMA RowKeepsItself == ASSUME NEW r \in Rows PROVE Keeps(r, r)
BY DEF Rows, Keeps

(* What makes a row a twin of a posting is among what is kept. *)
LEMMA TwinStays ==
    ASSUME NEW old, NEW new, NEW p, Keeps(old, new), IsTwin(old, p)
    PROVE  IsTwin(new, p)
BY DEF Keeps, IsTwin

-----------------------------------------------------------------------------

LEMMA InitIInv == Init => IInv
BY PostingsAssumption DEF Init, IInv, TypeOK, LocksAreHeld, ReadIsLive, LookedUp, ReasonsAreOwned

(* One step per action of a connection; those that leave the rows alone first. *)
LEMMA BeginsKeeps == ASSUME IInv, NEW s \in Slots, NEW p \in Payloads, Begins(s, p) PROVE IInv'
<1> USE DEF IInv, Begins
<1>1. TypeOK'  BY PostingsAssumption DEF TypeOK
<1>2. LocksAreHeld'  BY DEF TypeOK, LocksAreHeld
<1>3. ReadIsLive'  BY DEF TypeOK, ReadIsLive
<1>4. LookedUp'  BY DEF TypeOK, LookedUp
<1>5. ReasonsAreOwned'  BY DEF ReasonsAreOwned
<1> QED BY <1>1, <1>2, <1>3, <1>4, <1>5

LEMMA LocksKeeps == ASSUME IInv, NEW s \in Slots, Locks(s) PROVE IInv'
<1> USE DEF IInv
<1> PICK k \in Matches(job[s]) :
          /\ target' = [target EXCEPT ![s] = k]
          /\ pc' = [pc EXCEPT ![s] = IF k = job[s].key THEN "writing" ELSE "relocking"]
          /\ existing' = [existing EXCEPT ![s] = row[k]]
  BY DEF Locks
<1>1. job[s] \in Payloads /\ job[s].key \in Keys
  BY PostingsAssumption DEF TypeOK, Locks
<1>2. k \in Keys /\ (k # job[s].key => row[job[s].key] = None /\ row[k] # None /\ IsTwin(row[k], job[s]))
  BY <1>1 DEF Matches, Twins
<1> USE DEF Locks
<1>3. TypeOK'  BY <1>1, <1>2 DEF TypeOK
<1>4. LocksAreHeld'  BY <1>1, <1>2 DEF TypeOK, LocksAreHeld, Free
<1>5. ReadIsLive'  BY <1>2 DEF TypeOK, ReadIsLive
<1>6. LookedUp'  BY <1>2 DEF TypeOK, LookedUp
<1>7. ReasonsAreOwned'  BY DEF ReasonsAreOwned
<1> QED BY <1>3, <1>4, <1>5, <1>6, <1>7

LEMMA RelocksKeeps == ASSUME IInv, NEW s \in Slots, Relocks(s) PROVE IInv'
<1> USE DEF IInv, Relocks, Reread
<1>1. row[target[s]] # None  BY DEF LookedUp
<1>2. TypeOK'  BY DEF TypeOK
<1>3. LocksAreHeld'  BY DEF TypeOK, LocksAreHeld, Free
<1>4. ReadIsLive'  BY <1>1 DEF TypeOK, ReadIsLive
<1>5. LookedUp'  BY DEF TypeOK, LookedUp
<1>6. ReasonsAreOwned'  BY DEF ReasonsAreOwned
<1> QED BY <1>2, <1>3, <1>4, <1>5, <1>6

(* A connection that stops, with its locks or without them. *)
LEMMA StopsKeeps ==
    ASSUME IInv, NEW s \in Slots, Idle(s), locks' \in {locks, [locks EXCEPT ![s] = {}]},
           UNCHANGED <<row, said, contract>>
    PROVE  IInv'
<1> USE DEF IInv, Idle
<1>1. TypeOK'  BY DEF TypeOK
<1>2. LocksAreHeld'
  <2>1. \A t \in Slots : locks'[t] \subseteq locks[t] /\ (t # s => locks'[t] = locks[t])
    BY DEF TypeOK
  <2> QED BY <2>1 DEF TypeOK, LocksAreHeld
<1>3. ReadIsLive'  BY DEF TypeOK, ReadIsLive
<1>4. LookedUp'  BY DEF TypeOK, LookedUp
<1>5. ReasonsAreOwned'  BY DEF ReasonsAreOwned
<1> QED BY <1>1, <1>2, <1>3, <1>4, <1>5

(* A connection that has written: nobody else has looked at the row, or waits for it. *)
LEMMA WroteKeeps ==
    ASSUME IInv, NEW s \in Slots, pc[s] = "writing", Idle(s), Ended(s),
           NEW new \in Rows, row' = [row EXCEPT ![target[s]] = new],
           said' \in [Keys -> SUBSET JdCodes], contract' \in [Keys -> SUBSET (Codes \ JdCodes)],
           \A k \in Keys \ {target[s]} : said'[k] = said[k] /\ contract'[k] = contract[k],
           new.codes = said'[target[s]] \cup contract'[target[s]],
           row[target[s]] # None => Keeps(row[target[s]], new)
    PROVE  IInv'
<1> USE DEF IInv, Idle, Ended
<1>1. target[s] \in Keys /\ target[s] \in locks[s]  BY DEF TypeOK, LocksAreHeld
<1>2. TypeOK'  BY <1>1 DEF TypeOK
<1>3. LocksAreHeld'  BY DEF TypeOK, LocksAreHeld
<1>4. ASSUME NEW t \in Slots \ {s}, pc[t] \in {"relocking", "writing"}
      PROVE  job[t].key # target[s] /\ (pc[t] = "writing" => target[t] # target[s])
  BY <1>1, <1>4, LocksExclude DEF LocksAreHeld
<1>5. ReadIsLive'
  <2> SUFFICES ASSUME NEW t \in Slots, pc'[t] = "writing"
               PROVE  /\ (existing[t] = None) = (row'[target[t]] = None)
                      /\ existing[t] = None => target[t] = job[t].key
                      /\ existing[t] # None => [row'[target[t]] EXCEPT !.codes = {}] = [existing[t] EXCEPT !.codes = {}]
    <3>1. \A t \in Slots : pc'[t] = "writing" => existing'[t] = existing[t] /\ target'[t] = target[t] /\ job'[t] = job[t]
      BY DEF TypeOK
    <3> QED BY <3>1 DEF ReadIsLive
  <2>1. t # s /\ pc[t] = "writing"  BY DEF TypeOK
  <2>2. row'[target[t]] = row[target[t]]  BY <1>4, <2>1 DEF TypeOK
  <2> QED BY <2>1, <2>2 DEF TypeOK, ReadIsLive
<1>6. LookedUp'
  <2> SUFFICES ASSUME NEW t \in Slots, pc'[t] \in {"relocking", "writing"}
               PROVE  /\ pc'[t] = "relocking" => target'[t] # job'[t].key
                      /\ target'[t] # job'[t].key =>
                            row'[job'[t].key] = None /\ row'[target'[t]] # None /\ IsTwin(row'[target'[t]], job'[t])
    BY DEF LookedUp
  <2>1. /\ t # s /\ pc'[t] = pc[t] /\ job'[t] = job[t] /\ target'[t] = target[t]
        /\ job[t] \in Payloads /\ job[t].key \in Keys /\ target[t] \in Keys
    BY PostingsAssumption DEF TypeOK
  <2>2. row'[job[t].key] = row[job[t].key]  BY <1>4, <2>1 DEF TypeOK
  <2>3. row[target[t]] # None /\ IsTwin(row[target[t]], job[t]) =>
          row'[target[t]] # None /\ IsTwin(row'[target[t]], job[t])
    <3>1. CASE target[t] = target[s]
      <4>1. row'[target[t]] = new /\ new # None  BY <1>1, <3>1, PostingsAssumption DEF TypeOK
      <4> QED BY <3>1, <4>1, TwinStays
    <3>2. CASE target[t] # target[s]
      BY <2>1, <3>2 DEF TypeOK
    <3> QED BY <3>1, <3>2
  <2> QED BY <2>1, <2>2, <2>3 DEF LookedUp
<1>7. ReasonsAreOwned'
  BY <1>1 DEF TypeOK, ReasonsAreOwned
<1> QED BY <1>2, <1>3, <1>5, <1>6, <1>7

LEMMA InsertsKeeps == ASSUME IInv, NEW s \in Slots, Inserts(s) PROVE IInv'
<1>1. job[s] \in Payloads /\ job[s].key \in Keys /\ target[s] = job[s].key /\ row[target[s]] = None
  <2>1. pc[s] = "writing" /\ existing[s] = None  BY DEF Inserts
  <2>2. job[s] \in Payloads  BY <2>1 DEF IInv, TypeOK
  <2>3. target[s] = job[s].key /\ row[target[s]] = None  BY <2>1 DEF IInv, ReadIsLive
  <2> QED BY <2>2, <2>3, PostingsAssumption
<1>2. Inserted(job[s]) \in Rows /\ Inserted(job[s]).codes = job[s].codes
  BY <1>1, InsertedIsRow DEF Inserts, Inserted
<1>3. job[s].jd \subseteq JdCodes /\ job[s].codes \ JdCodes \subseteq Codes \ JdCodes
      /\ job[s].codes = job[s].jd \cup (job[s].codes \ JdCodes)
  BY <1>1, PostingsAssumption DEF Codes
<1>4. /\ said' = [said EXCEPT ![target[s]] = job[s].jd]
      /\ contract' = [contract EXCEPT ![target[s]] = job[s].codes \ JdCodes]
      /\ row' = [row EXCEPT ![target[s]] = Inserted(job[s])]
      /\ pc[s] = "writing" /\ Idle(s) /\ Ended(s)
  BY <1>1 DEF Inserts
<1>5. said \in [Keys -> SUBSET JdCodes] /\ contract \in [Keys -> SUBSET (Codes \ JdCodes)]
  BY DEF IInv, TypeOK
<1>6. /\ said' \in [Keys -> SUBSET JdCodes] /\ contract' \in [Keys -> SUBSET (Codes \ JdCodes)]
      /\ \A k \in Keys \ {target[s]} : said'[k] = said[k] /\ contract'[k] = contract[k]
      /\ Inserted(job[s]).codes = said'[target[s]] \cup contract'[target[s]]
  BY <1>1, <1>2, <1>3, <1>4, <1>5
<1> QED BY <1>1, <1>2, <1>4, <1>6, WroteKeeps

(* What an update has read is what the row still says. *)
LEMMA UpdateReadLive ==
    ASSUME IInv, NEW s \in Slots, Updates(s)
    PROVE  LET live == row[target[s]]  read == existing[s] IN
           /\ target[s] \in Keys /\ job[s] \in Payloads /\ live \in Rows /\ read \in Rows
           /\ live.company = read.company /\ live.source_id = read.source_id
           /\ live.sources = read.sources /\ live.places = read.places
           /\ live.rank = read.rank /\ live.length = read.length /\ live.salary = read.salary
<1>1. target[s] \in Keys /\ job[s] \in Payloads /\ row[target[s]] \in Rows /\ existing[s] \in Rows
  <2>1. pc[s] = "writing" /\ existing[s] # None  BY DEF Updates
  <2>2. target[s] \in Keys /\ job[s] \in Payloads /\ existing[s] \in Rows  BY <2>1 DEF IInv, TypeOK
  <2>3. row[target[s]] # None  BY <2>1 DEF IInv, ReadIsLive
  <2> QED BY <2>2, <2>3 DEF IInv, TypeOK
<1>2. [row[target[s]] EXCEPT !.codes = {}] = [existing[s] EXCEPT !.codes = {}]
  BY DEF Updates, IInv, ReadIsLive
<1> QED BY <1>1, <1>2, SameButForTheCodes

LEMMA UpdatesKeeps == ASSUME IInv, NEW s \in Slots, Updates(s) PROVE IInv'
<1> DEFINE k == target[s]
           new == Merged(row[k], existing[s], job[s])
           changed == Changes(row[k], job[s])
<1>1. k \in Keys /\ job[s] \in Payloads /\ row[k] \in Rows /\ existing[s] \in Rows
      /\ changed = Changes(existing[s], job[s])
  BY UpdateReadLive DEF Changes
<1>2. new \in Rows /\ Keeps(row[k], new)
  BY <1>1, UpdateReadLive, MergedIsRow, MergedKeeps
<1>3. /\ row' = [row EXCEPT ![k] = new] /\ said' = said
      /\ contract' = [contract EXCEPT ![k] = IF changed THEN job[s].codes \ JdCodes ELSE @]
      /\ pc[s] = "writing" /\ Idle(s) /\ Ended(s)
  BY DEF Updates
<1>4. /\ said \in [Keys -> SUBSET JdCodes] /\ contract \in [Keys -> SUBSET (Codes \ JdCodes)]
      /\ row[k].codes = said[k] \cup contract[k]
  BY <1>1, PostingsAssumption DEF IInv, TypeOK, ReasonsAreOwned
<1>5. new.codes = IF changed THEN (row[k].codes \cap JdCodes) \cup (job[s].codes \ JdCodes) ELSE row[k].codes
  BY <1>1 DEF Merged, Recoded
<1>6. job[s].codes \ JdCodes \subseteq Codes \ JdCodes
  BY <1>1 DEF Codes
<1> HIDE DEF new, changed, k
<1>7. /\ contract' \in [Keys -> SUBSET (Codes \ JdCodes)] /\ said' \in [Keys -> SUBSET JdCodes]
      /\ \A j \in Keys \ {k} : said'[j] = said[j] /\ contract'[j] = contract[j]
      /\ contract'[k] = IF changed THEN job[s].codes \ JdCodes ELSE contract[k]
  BY <1>1, <1>3, <1>4, <1>6
<1>8. new.codes = said'[k] \cup contract'[k]
  <2>1. row[k].codes \cap JdCodes = said[k]  BY <1>1, <1>4
  <2> QED BY <1>3, <1>4, <1>5, <1>7, <2>1
<1> QED BY <1>2, <1>3, <1>7, <1>8, WroteKeeps DEF k

(* A row whose codes of the text alone have changed, under whoever has read it. *)
LEMMA RecodedKeeps ==
    ASSUME IInv, NEW k \in Keys, row[k] # None, NEW codes \in SUBSET JdCodes, NEW new \in Rows,
           row' = [row EXCEPT ![k] = new], said' = [said EXCEPT ![k] = codes],
           new.codes = (row[k].codes \ JdCodes) \cup codes,
           [new EXCEPT !.codes = {}] = [row[k] EXCEPT !.codes = {}],
           UNCHANGED <<job, pc, target, existing, locks, contract>>
    PROVE  IInv'
<1> USE DEF IInv
<1>1. TypeOK'  BY DEF TypeOK
<1>2. LocksAreHeld'  BY DEF LocksAreHeld
<1>3. new # None  BY PostingsAssumption
<1>4. ReadIsLive'
  <2> SUFFICES ASSUME NEW s \in Slots, pc[s] = "writing"
               PROVE  /\ (existing[s] = None) = (row'[target[s]] = None)
                      /\ existing[s] = None => target[s] = job[s].key
                      /\ existing[s] # None => [row'[target[s]] EXCEPT !.codes = {}] = [existing[s] EXCEPT !.codes = {}]
    BY DEF ReadIsLive
  <2>1. target[s] \in Keys  BY DEF TypeOK
  <2>2. CASE target[s] = k
    <3>1. row'[target[s]] = new  BY <2>2 DEF TypeOK
    <3> QED BY <1>3, <2>2, <3>1 DEF ReadIsLive
  <2>3. CASE target[s] # k
    <3>1. row'[target[s]] = row[target[s]]  BY <2>1, <2>3 DEF TypeOK
    <3> QED BY <3>1 DEF ReadIsLive
  <2> QED BY <2>2, <2>3
<1>5. LookedUp'
  <2> SUFFICES ASSUME NEW s \in Slots, pc[s] \in {"relocking", "writing"}, target[s] # job[s].key
               PROVE  row'[job[s].key] = None /\ row'[target[s]] # None /\ IsTwin(row'[target[s]], job[s])
    BY DEF LookedUp
  <2>1. target[s] \in Keys /\ job[s] \in Payloads /\ job[s].key \in Keys
    BY PostingsAssumption DEF TypeOK
  <2>2. row[job[s].key] = None /\ row[target[s]] # None /\ IsTwin(row[target[s]], job[s])
    BY DEF LookedUp
  <2>3. new.company = row[k].company /\ new.source_id = row[k].source_id
    <3>1. row[k] \in Rows  BY DEF TypeOK
    <3> QED BY <3>1, SameButForTheCodes
  <2>4. IsTwin(row'[target[s]], job[s])
    BY <2>1, <2>2, <2>3 DEF TypeOK, IsTwin
  <2> QED BY <1>3, <2>1, <2>2, <2>4 DEF TypeOK
<1>6. ReasonsAreOwned'
  <2>1. row[k].codes \ JdCodes = contract[k]  BY DEF TypeOK, ReasonsAreOwned
  <2> QED BY <2>1 DEF TypeOK, ReasonsAreOwned
<1> QED BY <1>1, <1>2, <1>4, <1>5, <1>6

LEMMA JudgesKeeps == ASSUME IInv, NEW k \in Keys, Judges(k) PROVE IInv'
<1>1. PICK codes \in {{}} \cup {said[k] \cup {c} : c \in JdCodes} :
          /\ said' = [said EXCEPT ![k] = codes]
          /\ row' = [row EXCEPT ![k].codes = (@ \ JdCodes) \cup codes]
  BY DEF Judges
<1> DEFINE new == [row[k] EXCEPT !.codes = (@ \ JdCodes) \cup codes]
<1>2. row' = [row EXCEPT ![k] = new] /\ said' = [said EXCEPT ![k] = codes]  BY <1>1
<1>3. row[k] \in Rows /\ row[k] # None /\ codes \in SUBSET JdCodes
  BY DEF Judges, IInv, TypeOK
<1>4. /\ new \in Rows /\ new.codes = (row[k].codes \ JdCodes) \cup codes
      /\ [new EXCEPT !.codes = {}] = [row[k] EXCEPT !.codes = {}]
  BY <1>3 DEF Rows, Codes
<1>5. UNCHANGED <<job, pc, target, existing, locks, contract>>  BY DEF Judges
<1> HIDE DEF new
<1> QED BY <1>2, <1>3, <1>4, <1>5, RecodedKeeps

LEMMA NextIInv == IInv /\ [Next]_vars => IInv'
<1> SUFFICES ASSUME IInv, [Next]_vars PROVE IInv'  OBVIOUS
<1>1. CASE UNCHANGED vars
  BY <1>1 DEF vars, IInv, TypeOK, LocksAreHeld, ReadIsLive, LookedUp, ReasonsAreOwned
<1>2. ASSUME NEW s \in Slots, \/ \E p \in Payloads : Begins(s, p)
                              \/ Locks(s) \/ Relocks(s) \/ Inserts(s) \/ Updates(s)
      PROVE  IInv'
  BY <1>2, BeginsKeeps, LocksKeeps, RelocksKeeps, InsertsKeeps, UpdatesKeeps
<1>3. ASSUME NEW s \in Slots, Rejected(s) \/ Deadlocked(s) \/ Dies(s) PROVE IInv'
  BY <1>3, StopsKeeps DEF Rejected, Deadlocked, Dies, Ended
<1>4. ASSUME NEW s \in Slots, Commits(s) PROVE IInv'
  <2>1. TypeOK'  BY <1>4 DEF IInv, Commits, Ended, TypeOK
  <2>2. LocksAreHeld'
    <3>1. \A t \in Slots : locks'[t] \subseteq locks[t] /\ (t # s => locks'[t] = locks[t])
      BY <1>4 DEF IInv, TypeOK, Commits, Ended
    <3> QED BY <1>4, <3>1 DEF IInv, TypeOK, LocksAreHeld, Commits
  <2>3. ReadIsLive' /\ LookedUp' /\ ReasonsAreOwned'
    BY <1>4 DEF IInv, Commits, ReadIsLive, LookedUp, ReasonsAreOwned
  <2> QED BY <2>1, <2>2, <2>3 DEF IInv
<1>5. ASSUME NEW k \in Keys, Judges(k) PROVE IInv'
  BY <1>5, JudgesKeeps
<1> QED BY <1>1, <1>2, <1>3, <1>4, <1>5 DEF Next, Writes

-----------------------------------------------------------------------------

(***************************************************************************)
(* Whoever waits holds the lock of its own key, if it holds current locks  *)
(* only; in a circle it waits for a match, whose row is there, and the one *)
(* it waits for would have seen that row under its own key.                *)
(***************************************************************************)
LEMMA NoCircleOfCurrentLocks == IInv => NoCircle
<1> SUFFICES ASSUME IInv, NEW group \in SUBSET Slots, Deadlock(group),
                    \A s \in group : locks[s] \subseteq Current(s)
             PROVE  FALSE
  BY DEF NoCircle
<1> USE DEF IInv
<1>1. ASSUME NEW s \in group, NEW t \in group, Waits(s, t)
      PROVE  pc[t] = "relocking" /\ locks[t] = {job[t].key} /\ Wanted(s) \cap {job[t].key} # {}
  <2>1. PICK u \in group : Waits(t, u)  BY DEF Deadlock
  <2>2. pc[t] \in {"locking", "relocking"} /\ Current(t) = {job[t].key}
    <3>1. Wanted(t) # {}  BY <2>1 DEF Waits
    <3> QED BY <3>1 DEF Wanted, Current, TypeOK
  <2>3. locks[t] = {job[t].key} /\ Wanted(s) \cap {job[t].key} # {}
    BY <1>1, <2>2 DEF Waits
  <2>4. pc[t] # "locking"
    <3> SUFFICES ASSUME pc[t] = "locking" PROVE FALSE  OBVIOUS
    <3>1. job[t].key \in locks[u] /\ t # u  BY <2>1 DEF Waits, Wanted
    <3> QED BY <2>3, <3>1, LocksExclude
  <2> QED BY <2>2, <2>3, <2>4
<1>2. PICK s \in group : TRUE  BY DEF Deadlock
<1>3. PICK t \in group : Waits(s, t)  BY DEF Deadlock
<1>4. PICK u \in group : Waits(t, u)  BY DEF Deadlock
<1>5. pc[t] = "relocking" /\ pc[u] = "relocking" /\ Wanted(t) \cap {job[u].key} # {}
  BY <1>1, <1>3, <1>4
<1>6. target[t] = job[u].key  BY <1>5 DEF Wanted
<1> QED BY <1>5, <1>6 DEF LookedUp

LEMMA SpecIInv == Spec => []IInv
BY InitIInv, NextIInv, PTL DEF Spec

(* Who writes holds its locks alone and has read what is there, and no circle of      *)
(* current locks closes: lock_dedup_key_for_upsert and the two lookups of upsert_job. *)
THEOREM InvHolds == Spec => []Inv
<1>1. IInv => Inv  BY NoCircleOfCurrentLocks DEF IInv, Inv
<1> QED BY <1>1, SpecIInv, PTL

(* #235, #245: an upsert and the writers of _jd_full.py leave each other's codes alone. *)
THEOREM ReasonsAreOwnedHolds == Spec => []ReasonsAreOwned
<1>1. IInv => ReasonsAreOwned  BY DEF IInv
<1> QED BY <1>1, SpecIInv, PTL

-----------------------------------------------------------------------------

(* Where a connection begins, writes or stops, Corpus takes a step; else it stutters. *)
LEMMA InitIsAtomic == Init => Atomic!Init
BY DEF Init, Atomic!Init

LEMMA InsertIsAtomic == ASSUME IInv, NEW s \in Slots, Inserts(s) PROVE Atomic!Inserts(s)
<1>1. pc[s] = "writing" /\ existing[s] = None  BY DEF Inserts
<1>2. job[s] # None  BY <1>1 DEF IInv, TypeOK
<1>3. row[job[s].key] = None  BY <1>1 DEF IInv, ReadIsLive
<1> QED BY <1>2, <1>3 DEF Inserts, Idle, Atomic!Inserts, Atomic!Ends

(* The merge of what was read is the merge of what is there, in a row that still matches. *)
LEMMA UpdateIsAtomic == ASSUME IInv, NEW s \in Slots, Updates(s) PROVE Atomic!Merges(s, target[s])
<1> DEFINE live == row[target[s]]
<1>1. pc[s] = "writing" /\ existing[s] # None  BY DEF Updates
<1>2. job[s] # None  BY <1>1 DEF IInv, TypeOK
<1>3. live # None  BY <1>1 DEF IInv, ReadIsLive
<1>4. target[s] = job[s].key \/ (row[job[s].key] = None /\ IsTwin(live, job[s]))
  BY <1>1 DEF IInv, LookedUp
<1>5. Merged(live, existing[s], job[s]) = MergedOnce(live, job[s])
  <2>1. /\ live.company = existing[s].company /\ live.source_id = existing[s].source_id
        /\ live.sources = existing[s].sources /\ live.places = existing[s].places
        /\ live.rank = existing[s].rank /\ live.length = existing[s].length /\ live.salary = existing[s].salary
    BY UpdateReadLive
  <2>2. Changes(live, job[s]) = Changes(existing[s], job[s])  BY <2>1 DEF Changes
  <2> QED BY <2>1, <2>2 DEF Merged, MergedOnce
<1>6. row' = [row EXCEPT ![target[s]] = MergedOnce(live, job[s])]
  BY <1>5 DEF Updates
<1> QED BY <1>2, <1>3, <1>4, <1>6 DEF Updates, Idle, Atomic!Merges, Atomic!Ends

LEMMA JudgementIsAtomic == ASSUME IInv, NEW k \in Keys, Judges(k) PROVE Atomic!Judges(k)
<1>1. PICK codes \in {{}} \cup {said[k] \cup {c} : c \in JdCodes} :
          row' = [row EXCEPT ![k].codes = (@ \ JdCodes) \cup codes]
  BY DEF Judges
<1>2. codes \in SUBSET JdCodes  BY DEF IInv, TypeOK
<1> QED BY <1>1, <1>2 DEF Judges, Atomic!Judges

LEMMA StepIsAtomic == IInv /\ [Next]_vars => [Atomic!Next]_(Atomic!vars)
<1> SUFFICES ASSUME IInv, [Next]_vars PROVE [Atomic!Next]_(Atomic!vars)  OBVIOUS
<1>1. ASSUME NEW s \in Slots, NEW p \in Payloads, Begins(s, p) PROVE Atomic!Takes(s, p)
  <2>1. job[s] = None  BY <1>1 DEF IInv, TypeOK, Begins
  <2> QED BY <1>1, <2>1 DEF Begins, Atomic!Takes
<1>2. ASSUME NEW s \in Slots, Locks(s) \/ Relocks(s) \/ Commits(s) PROVE UNCHANGED Atomic!vars
  BY <1>2 DEF Locks, Relocks, Commits, Atomic!vars
<1>3. ASSUME NEW s \in Slots, Updates(s) PROVE \E k \in Keys : Atomic!Merges(s, k)
  BY <1>3, UpdateIsAtomic, UpdateReadLive
<1>4. ASSUME NEW s \in Slots, Rejected(s) \/ Deadlocked(s) \/ Dies(s) PROVE Atomic!GivesUp(s)
  BY <1>4 DEF Rejected, Deadlocked, Dies, Idle, Atomic!GivesUp, Atomic!Ends
<1>5. CASE UNCHANGED vars
  BY <1>5 DEF vars, Atomic!vars
<1> QED BY <1>1, <1>2, <1>3, <1>4, <1>5, InsertIsAtomic, JudgementIsAtomic DEF Next, Writes, Atomic!Next

(***************************************************************************)
(* upsert_job is atomic: with its two locks and its second read it does    *)
(* what Corpus does in one step, and a rollback leaves nothing of it.      *)
(***************************************************************************)
THEOREM UpsertsAreAtomic == Spec => KeepsCorpus
BY InitIsAtomic, StepIsAtomic, SpecIInv, PTL DEF Spec, KeepsCorpus, Atomic!Spec

LEMMA StepKeepsRows ==
    ASSUME IInv, [Next]_vars, NEW k \in Keys, row[k] # None
    PROVE  row'[k] # None /\ Keeps(row[k], row'[k])
<1>1. row \in [Keys -> Rows \cup {None}] /\ row[k] \in Rows /\ \A s \in Slots : job[s] # None => job[s] \in Payloads
  BY DEF IInv, TypeOK
<1>2. CASE row'[k] = row[k]
  BY <1>1, <1>2, RowKeepsItself
<1>3. ASSUME NEW s \in Slots, Atomic!Inserts(s) PROVE row'[k] = row[k]
  BY <1>1, <1>3, PostingsAssumption DEF Atomic!Inserts
<1>4. ASSUME NEW s \in Slots, NEW j \in Keys, Atomic!Merges(s, j) PROVE row'[k] # None /\ Keeps(row[k], row'[k])
  <2>1. job[s] \in Payloads  BY <1>1, <1>4 DEF Atomic!Merges
  <2>2. MergedOnce(row[k], job[s]) \in Rows /\ Keeps(row[k], MergedOnce(row[k], job[s]))
    BY <1>1, <2>1, MergedIsRow, MergedKeeps DEF MergedOnce
  <2>3. row'[k] \in {row[k], MergedOnce(row[k], job[s])}  BY <1>1, <1>4 DEF Atomic!Merges
  <2> QED BY <1>2, <2>2, <2>3, PostingsAssumption
<1>5. ASSUME NEW j \in Keys, Atomic!Judges(j) PROVE row'[k] # None /\ Keeps(row[k], row'[k])
  <2>1. PICK codes \in SUBSET JdCodes : row' = [row EXCEPT ![j].codes = (@ \ JdCodes) \cup codes]
    BY <1>5 DEF Atomic!Judges
  <2> DEFINE new == [row[k] EXCEPT !.codes = (@ \ JdCodes) \cup codes]
  <2>2. row'[k] \in {row[k], new}  BY <1>1, <2>1
  <2>3. new \in Rows /\ Keeps(row[k], new)  BY <1>1 DEF Rows, Codes, Keeps
  <2> HIDE DEF new
  <2> QED BY <1>2, <2>2, <2>3, PostingsAssumption
<1>6. CASE UNCHANGED row  BY <1>2, <1>6
<1> QED
  BY <1>3, <1>2, <1>4, <1>5, <1>6, StepIsAtomic
     DEF Atomic!Next, Atomic!vars, Atomic!Takes, Atomic!GivesUp

(* Two upserts of one posting lose nothing of each other, however their lookups, *)
(* locks and statements interleave: every step of Corpus keeps what is there.     *)
THEOREM NothingSeenIsLostHolds == Spec => NothingSeenIsLost
<1>1. IInv /\ [Next]_vars => [\A k \in Keys : row[k] # None => row'[k] # None /\ Keeps(row[k], row'[k])]_vars
  BY StepKeepsRows
<1> QED BY <1>1, SpecIInv, PTL DEF Spec, NothingSeenIsLost

-----------------------------------------------------------------------------
(* MailIngest *)

LEMMA MailInitInv == MailInit => MailInv
  <1> SUFFICES ASSUME MailInit PROVE MailInv
    OBVIOUS
  <1>1. 0 \in Highs /\ 0 \in Epochs /\ 0 \in Valids
    BY ValidityAssumption DEF Highs, Epochs, Valids
  <1>2. MailTypeOK
    BY <1>1 DEF MailInit, MailTypeOK, NoRun, RunRecords
  <1>3. cred.high = 0 /\ \A r \in Runs : run[r].high = 0
    BY DEF MailInit, NoRun
  <1>4. \A v : Vouched(0, v)
    BY DEF Vouched
  <1> QED BY <1>2, <1>3, <1>4 DEF MailInv

\* What is vouched for stays so: fetched mail stays fetched.
LEMMA VouchedStays ==
  ASSUME NEW high, NEW valid, Vouched(high, valid), taken \subseteq taken'
  PROVE  Vouched(high, valid)'
  BY DEF Vouched

\* A fetch leaves nothing out between the watermark that it read and the one it found.
LEMMA FetchVouches ==
  ASSUME MailInv, ValidityIdentifies, NEW r \in Runs, Fetches(r)
  PROVE  /\ run'[r] \in RunRecords /\ run'[r].box \in Boxes /\ run'[r].at = "fetched"
         /\ taken \subseteq taken' /\ taken' \subseteq Messages
         /\ Vouched(run[r].high, run[r].valid)'
  <1> DEFINE b == run[r].box
             live == Validity[<<b, epoch[b]>>]
             start == effective_highwater(r, live)
             new == {u \in 1 .. mail[b] : u > start}
             jobs == {b} \X {epoch[b]} \X new
             high == IF new = {} THEN start ELSE mail[b]
  <1>1. /\ b \in Boxes /\ epoch[b] \in Epochs /\ mail[b] \in 0 .. MaxMail
        /\ run[r] \in RunRecords /\ run[r].high \in 0 .. MaxMail
    BY DEF MailInv, MailTypeOK, Fetches, Highs, RunRecords
  <1>2. live \in Valids
    BY <1>1 DEF Valids
  <1>3. start \in 0 .. MaxMail
    BY <1>1, ValidityAssumption DEF effective_highwater
  <1>4. high \in Highs /\ jobs \subseteq Messages
    BY <1>1, <1>3, ValidityAssumption DEF Highs, Messages, Uids
  <1>5. /\ run' = [run EXCEPT ![r] = [at |-> "fetched", box |-> b, jobs |-> jobs, valid |-> live, high |-> high]]
        /\ taken' = taken \cup jobs
    BY DEF Fetches
  <1>6. ASSUME NEW c \in Boxes, NEW e \in Epochs, NEW u \in 1 .. high, Validity[<<c, e>>] = live
        PROVE  <<c, e, u>> \in taken'
    <2>1. c = b /\ e = epoch[b]
      BY <1>1, <1>6 DEF ValidityIdentifies
    <2>2. CASE u <= start
      <3>1. run[r].valid = live /\ start = run[r].high
        BY <1>3, <2>2, <1>4 DEF effective_highwater, Highs
      <3>2. Vouched(run[r].high, live)
        BY <3>1 DEF MailInv
      <3>3. u \in 1 .. run[r].high
        BY <1>1, <2>2, <3>1
      <3>4. <<c, e, u>> \in taken
        BY <1>6, <3>2, <3>3 DEF Vouched
      <3> QED BY <1>5, <3>4
    <2>3. CASE u > start
      <3>1. u \in new
        BY <1>1, <1>3, <2>3
      <3>2. <<b, epoch[b], u>> \in jobs
        BY <3>1
      <3> QED BY <1>5, <2>1, <3>2
    <2>4. u \in Nat /\ start \in Nat
      BY <1>3, <1>4 DEF Highs
    <2> QED BY <2>2, <2>3, <2>4
  <1> HIDE DEF live, start, new, jobs, high
  <1>7. run'[r] = [at |-> "fetched", box |-> b, jobs |-> jobs, valid |-> live, high |-> high]
    BY <1>5 DEF MailInv, MailTypeOK
  <1>8. run'[r].high = high /\ run'[r].valid = live /\ run'[r].box = b /\ run'[r].at = "fetched"
    BY <1>7
  <1>9. run'[r] \in RunRecords
    BY <1>1, <1>2, <1>4, <1>7 DEF RunRecords
  <1>10. Vouched(run[r].high, run[r].valid)'
    BY <1>6, <1>8 DEF Vouched
  <1> QED BY <1>1, <1>4, <1>5, <1>8, <1>9, <1>10 DEF MailInv, MailTypeOK

\* Every other step copies watermarks that are vouched for, or starts from nothing.
LEMMA MailStepInv ==
  ASSUME ValidityIdentifies, MailInv, [MailNext]_mailVars
  PROVE  MailInv'
  <1> USE DEF MailInv
  <1>0. 0 \in Highs /\ 0 \in Epochs /\ 0 \in Valids /\ \A v : Vouched(0, v)'
    BY ValidityAssumption DEF Highs, Epochs, Valids, Vouched
  <1>1. ASSUME UNCHANGED <<cred, run, posted, taken>>, epoch' \in [Boxes -> Epochs], mail' \in [Boxes -> Highs]
        PROVE  MailInv'
    BY <1>1 DEF MailTypeOK, Vouched
  <1>2. ASSUME NEW b \in Boxes, MailArrives(b) PROVE MailInv'
    <2>1. mail[b] + 1 \in Highs
      BY <1>2, ValidityAssumption DEF MailArrives, MailTypeOK, Highs
    <2> QED BY <1>1, <1>2, <2>1 DEF MailArrives, MailTypeOK
  <1>3. ASSUME NEW b \in Boxes, FolderRecreated(b) PROVE MailInv'
    <2>1. epoch[b] + 1 \in Epochs
      BY <1>3, ValidityAssumption DEF FolderRecreated, MailTypeOK, Epochs
    <2> QED BY <1>0, <1>1, <1>3, <2>1 DEF FolderRecreated, MailTypeOK
  <1>4. ASSUME NEW b \in Boxes, set_mailbox_credential(b) PROVE MailInv'
    <2>1. MailTypeOK'
      BY <1>0, <1>4 DEF set_mailbox_credential, world, MailTypeOK
    <2>2. cred'.high = 0 /\ run' = run /\ taken' = taken
      BY <1>4 DEF set_mailbox_credential
    <2> QED BY <1>0, <2>1, <2>2 DEF Vouched
  <1>5. ASSUME deactivate_credential PROVE MailInv'
    <2>1. MailTypeOK'
      BY <1>5 DEF deactivate_credential, world, MailTypeOK
    <2>2. cred'.high = cred.high /\ cred'.valid = cred.valid /\ run' = run /\ taken' = taken
      BY <1>5 DEF deactivate_credential, MailTypeOK
    <2> QED BY <2>1, <2>2 DEF Vouched
  <1>6. ASSUME UNCHANGED <<world, cred, taken>>, posted' \subseteq Messages,
               NEW r \in Runs, NEW rec \in RunRecords, run' = [run EXCEPT ![r] = rec],
               rec.at # "idle" => rec.box \in Boxes, Vouched(rec.high, rec.valid)
        PROVE  MailInv'
    <2>1. MailTypeOK'
      BY <1>6 DEF MailTypeOK, world
    <2>2. \A s \in Runs : run'[s] = IF s = r THEN rec ELSE run[s]
      BY <1>6 DEF MailTypeOK
    <2>3. \A s \in Runs : Vouched(run'[s].high, run'[s].valid)
      BY <1>6, <2>2
    <2> QED BY <1>6, <2>1, <2>3 DEF Vouched
  <1>7. ASSUME NEW r \in Runs, UNCHANGED <<world, cred, taken>>, posted' = posted, run' = [run EXCEPT ![r] = NoRun]
        PROVE  MailInv'
    <2>1. NoRun \in RunRecords /\ NoRun.at = "idle" /\ NoRun.high = 0 /\ Vouched(0, NoRun.valid)
      BY <1>0 DEF NoRun, RunRecords, Vouched
    <2> QED BY <1>6, <1>7, <2>1 DEF MailTypeOK
  <1>8. ASSUME NEW r \in Runs, Resolves(r) PROVE MailInv'
    <2> DEFINE rec == [at |-> "resolved", box |-> cred.box, high |-> 0, valid |-> 0, jobs |-> {}]
    <2>2. rec \in RunRecords /\ rec.box \in Boxes
      BY <1>0 DEF RunRecords, MailTypeOK
    <2>4. rec.high = 0 /\ Vouched(0, rec.valid)
      BY DEF Vouched
    <2>5. Vouched(rec.high, rec.valid)
      BY <2>4
    <2> HIDE DEF rec
    <2>3. run' = [run EXCEPT ![r] = rec] /\ UNCHANGED <<world, cred, posted, taken>>
      BY <1>8 DEF Resolves, rec
    <2> QED BY <1>6, <2>2, <2>3, <2>5 DEF MailTypeOK
  <1>9. ASSUME NEW r \in Runs, ReadsProgress(r) PROVE MailInv'
    <2> DEFINE rec == [run[r] EXCEPT !.at = "fetching", !.high = cred.high, !.valid = cred.valid]
    <2>1. rec \in RunRecords /\ rec.box \in Boxes /\ rec.high = cred.high /\ rec.valid = cred.valid
      BY <1>9 DEF ReadsProgress, RunRecords, MailTypeOK
    <2>2. Vouched(rec.high, rec.valid)
      BY <2>1
    <2>3. \/ run' = [run EXCEPT ![r] = rec]
          \/ run' = [run EXCEPT ![r] = NoRun]
      BY <1>9 DEF ReadsProgress
    <2>4. UNCHANGED <<world, cred, posted, taken>>
      BY <1>9 DEF ReadsProgress
    <2> HIDE DEF rec
    <2> QED BY <1>6, <1>7, <2>1, <2>2, <2>3, <2>4 DEF MailTypeOK
  <1>10. ASSUME NEW r \in Runs, Fetches(r) PROVE MailInv'
    <2>1. /\ run'[r] \in RunRecords /\ run'[r].box \in Boxes
          /\ taken \subseteq taken' /\ taken' \subseteq Messages
          /\ Vouched(run[r].high, run[r].valid)'
      BY <1>10, FetchVouches
    <2>2. UNCHANGED <<world, cred, posted>> /\ run' = [run EXCEPT ![r] = run'[r]]
      BY <1>10 DEF Fetches, MailTypeOK
    <2>3. MailTypeOK'
      BY <2>1, <2>2 DEF MailTypeOK, world
    <2>4. Vouched(cred.high, cred.valid)'
      BY <2>1, <2>2 DEF Vouched
    <2>5. ASSUME NEW s \in Runs PROVE Vouched(run[s].high, run[s].valid)'
      <3>1. CASE s = r
        BY <2>1, <3>1
      <3>2. CASE s # r
        <4>1. run'[s] = run[s]
          BY <2>2, <3>2 DEF MailTypeOK
        <4> QED BY <2>1, <4>1 DEF Vouched
      <3> QED BY <3>1, <3>2
    <2> QED BY <2>3, <2>4, <2>5
  <1>11. ASSUME NEW r \in Runs, Advances(r) PROVE MailInv'
    <2>1. /\ cred' = [cred EXCEPT !.high = run[r].high, !.valid = run[r].valid]
          /\ run' = [run EXCEPT ![r] = [run[r] EXCEPT !.at = "posting"]]
          /\ UNCHANGED <<world, posted, taken>>
      BY <1>11 DEF Advances, advance_uid_highwater
    <2>2. /\ run[r] \in RunRecords
          /\ [run[r] EXCEPT !.at = "posting"] \in RunRecords
          /\ run[r].box \in Boxes
      BY <1>11 DEF Advances, MailTypeOK, RunRecords
    <2>3. MailTypeOK'
      BY <2>1, <2>2 DEF MailTypeOK, world, RunRecords
    <2>4. cred'.high = run[r].high /\ cred'.valid = run[r].valid
      BY <2>1 DEF MailTypeOK
    <2>5. \A s \in Runs : run'[s].high = run[s].high /\ run'[s].valid = run[s].valid
      BY <2>1, <2>2 DEF MailTypeOK, RunRecords
    <2> QED BY <2>1, <2>3, <2>4, <2>5 DEF Vouched
  <1>12. ASSUME NEW r \in Runs, NEW m \in run[r].jobs, Posts(r, m) \/ PostFails(r, m) PROVE MailInv'
    <2> DEFINE rec == [run[r] EXCEPT !.jobs = @ \ {m}]
    <2>1. /\ rec \in RunRecords /\ rec.box \in Boxes /\ rec.high = run[r].high /\ rec.valid = run[r].valid
          /\ m \in Messages
      BY <1>12 DEF Posts, PostFails, RunRecords, MailTypeOK
    <2>2. Vouched(rec.high, rec.valid)
      BY <2>1
    <2>3. run' = [run EXCEPT ![r] = rec] /\ UNCHANGED <<world, cred, taken>> /\ posted' \subseteq Messages
      BY <1>12, <2>1 DEF Posts, PostFails, MailTypeOK
    <2> HIDE DEF rec
    <2> QED BY <1>6, <2>1, <2>2, <2>3
  <1>13. CASE UNCHANGED mailVars
    BY <1>1, <1>13 DEF mailVars, world, MailTypeOK
  <1>14. ASSUME NEW r \in Runs, Ends(r) \/ RunDies(r) PROVE MailInv'
    BY <1>7, <1>14 DEF Ends, RunDies
  <1> QED
    BY <1>2, <1>3, <1>4, <1>5, <1>8, <1>9, <1>10, <1>11, <1>12, <1>13, <1>14 DEF MailNext, Proceeds

(***************************************************************************)
(* However many runs overlap, whatever happens to the folders and to the   *)
(* credential meanwhile: the watermark never skips mail that nobody        *)
(* fetched, if the mail servers never give two folders one UIDVALIDITY.    *)
(***************************************************************************)
THEOREM NothingSkippedHolds ==
  ASSUME ValidityIdentifies
  PROVE  MailSpec => []NothingSkipped
  <1>1. MailInit => MailInv
    BY MailInitInv
  <1>2. MailInv /\ [MailNext]_mailVars => MailInv'
    BY MailStepInv
  <1>3. MailInv => NothingSkipped
    BY DEF MailInv, MailTypeOK, Vouched, NothingSkipped
  <1> QED BY <1>1, <1>2, <1>3, PTL DEF MailSpec
=============================================================================
