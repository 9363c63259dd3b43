------------------------------- MODULE Postings -------------------------------
(***************************************************************************)
(* upsert_job (db/_jobs.py), the writer of the postings that the scans, the*)
(* crawlers and the mail ingestion share: connections merge what they have *)
(* parsed into rows, under advisory locks of their transactions, while     *)
(* _jd_full.py judges the stored texts without them.                       *)
(***************************************************************************)
EXTENDS Integers, FiniteSets

CONSTANTS
    Slots,          \* connections, each at work on a batch
    Keys,           \* dedup_keys; distinct ones have distinct hashtexts here
    Payloads,       \* what a ParsedJob and its company_id may say
    JdCodes,        \* JD_CONTENT_REASON_CODES
    None

\* What a row may say.
Codes == JdCodes \cup UNION {p.codes : p \in Payloads}
Rows ==
    [company : {p.company : p \in Payloads} \ {None}, source_id : {None} \cup {p.source_id : p \in Payloads},
     sources : SUBSET UNION {p.sources : p \in Payloads}, places : SUBSET UNION {p.places : p \in Payloads},
     rank : Nat, length : Nat, salary : {None} \cup {p.salary : p \in Payloads}, codes : SUBSET Codes]

ASSUME PostingsAssumption ==
    /\ \A p \in Payloads :
          /\ p.key \in Keys /\ p.rank \in Nat /\ p.length \in Nat
          /\ p.codes \cap JdCodes = p.jd
    /\ None \notin Payloads \cup Rows

VARIABLES
    row,            \* the postings
    job,            \* what each connection is upserting
    pc,             \* "idle", "locking", "relocking", "writing"
    target,         \* matched_dedup_key
    existing,       \* the row as it was read
    locks,          \* the advisory locks of the connection's transaction
    said,           \* history: the codes that _jd_full.py left on each row
    contract        \* history: the parser's codes of the last canonical change

vars == <<row, job, pc, target, existing, locks, said, contract>>

\* A new row; company and source_id are all that a row is found by, but for its key.
Inserted(p) ==
    [company |-> p.company, source_id |-> p.source_id, sources |-> p.sources, places |-> p.places,
     rank |-> p.rank, length |-> p.length, salary |-> p.salary, codes |-> p.codes]

Filled(old, new) == IF old = None THEN new ELSE old
Larger(old, new) == IF new > old THEN new ELSE old

\* canonical_changed: a new place, a date of higher precision, a longer text, or a
\* value where there was none.
Changes(r, p) ==
    \/ ~(p.places \subseteq r.places)
    \/ p.rank > r.rank \/ p.length > r.length
    \/ r.salary = None /\ p.salary # None
    \/ r.source_id = None /\ p.source_id # None

\* Variant: the parser's list replaces the row's.
Recoded_wholesale(live, p, changed) == IF changed THEN p.codes ELSE live.codes

\* Whatever _jd_full.py says at the time of the statement stays.
Recoded(live, p, changed) ==
    IF changed THEN (live.codes \cap JdCodes) \cup (p.codes \ JdCodes) ELSE live.codes

\* The UPDATE: computed from the row as it was read, but for the codes.
Merged(live, read, p) ==
    [company   |-> live.company,
     source_id |-> Filled(read.source_id, p.source_id),
     sources   |-> read.sources \cup p.sources,
     places    |-> read.places \cup p.places,
     rank      |-> Larger(read.rank, p.rank),
     length    |-> Larger(read.length, p.length),
     salary    |-> Filled(read.salary, p.salary),
     codes     |-> Recoded(live, p, Changes(read, p))]

-----------------------------------------------------------------------------
(* Locks *)

Free(s, k) == \A t \in Slots \ {s} : k \notin locks[t]

\* Variant: pg_advisory_lock, which outlives the transaction.
Ended_with_session_locks(s) == UNCHANGED locks

\* Commit or rollback: the locks are of the transaction.
Ended(s) == locks' = [locks EXCEPT ![s] = {}]

Wanted(s) == CASE pc[s] = "locking" -> {job[s].key} [] pc[s] = "relocking" -> {target[s]} [] OTHER -> {}
Waits(s, t) == s # t /\ Wanted(s) \cap locks[t] # {}
Deadlock(group) == group # {} /\ \A s \in group : \E t \in group : Waits(s, t)

Idle(s) ==
    /\ pc' = [pc EXCEPT ![s] = "idle"]
    /\ job' = [job EXCEPT ![s] = None] /\ target' = [target EXCEPT ![s] = None]
    /\ existing' = [existing EXCEPT ![s] = None]

-----------------------------------------------------------------------------
(* upsert_job *)

Begins(s, p) ==
    /\ pc[s] = "idle"
    /\ pc' = [pc EXCEPT ![s] = "locking"]
    /\ job' = [job EXCEPT ![s] = p]
    /\ UNCHANGED <<row, target, existing, locks, said, contract>>

IsTwin(r, p) ==
    /\ p.company # None /\ p.source_id # None
    /\ r.company = p.company /\ r.source_id = p.source_id

Twins(p) == {k \in Keys : row[k] # None /\ IsTwin(row[k], p)}

\* Variant: the id of the platform is looked up first.
Matches_twins_first(p) == IF Twins(p) # {} THEN Twins(p) ELSE {p.key}

\* The row of its key, else one that has its source_id.
Matches(p) == IF row[p.key] = None /\ Twins(p) # {} THEN Twins(p) ELSE {p.key}

\* The first lock, and the reads under it.
Locks(s) ==
    /\ pc[s] = "locking" /\ Free(s, job[s].key)
    /\ locks' = [locks EXCEPT ![s] = @ \cup {job[s].key}]
    /\ \E k \in Matches(job[s]) :
          /\ target' = [target EXCEPT ![s] = k]
          /\ pc' = [pc EXCEPT ![s] = IF k = job[s].key THEN "writing" ELSE "relocking"]
          /\ existing' = [existing EXCEPT ![s] = row[k]]
    /\ UNCHANGED <<row, job, said, contract>>

\* Variant: the row is not read again.
Reread_skipped(s) == existing[s]

Reread(s) == row[target[s]]

\* The second lock, when the match has another key.
Relocks(s) ==
    /\ pc[s] = "relocking" /\ Free(s, target[s])
    /\ locks' = [locks EXCEPT ![s] = @ \cup {target[s]}]
    /\ existing' = [existing EXCEPT ![s] = Reread(s)]
    /\ pc' = [pc EXCEPT ![s] = "writing"]
    /\ UNCHANGED <<row, job, target, said, contract>>

Inserts(s) ==
    /\ pc[s] = "writing" /\ existing[s] = None /\ job[s].company # None
    /\ LET k == job[s].key IN
          /\ row' = [row EXCEPT ![k] = Inserted(job[s])]
          /\ said' = [said EXCEPT ![k] = job[s].jd]
          /\ contract' = [contract EXCEPT ![k] = job[s].codes \ JdCodes]
    /\ Ended(s) /\ Idle(s)

Updates(s) ==
    /\ pc[s] = "writing" /\ existing[s] # None
    /\ LET k == target[s] IN
          /\ row' = [row EXCEPT ![k] = Merged(row[k], existing[s], job[s])]
          /\ contract' = [contract EXCEPT ![k] = IF Changes(row[k], job[s]) THEN job[s].codes \ JdCodes ELSE @]
    /\ Ended(s) /\ Idle(s)
    /\ UNCHANGED said

\* A constraint of the table: only the savepoint is rolled back, and the connection
\* goes on to its next posting with the locks of this one.
Rejected(s) ==
    /\ pc[s] = "writing"
    /\ Idle(s)
    /\ UNCHANGED <<row, locks, said, contract>>

\* Some other commit of the batch, or the end of the connection.
Commits(s) ==
    /\ pc[s] = "idle" /\ locks[s] # {}
    /\ Ended(s)
    /\ UNCHANGED <<row, job, pc, target, existing, said, contract>>

\* The database aborts one of a group that waits in a circle.
Deadlocked(s) ==
    /\ \E group \in SUBSET Slots : s \in group /\ Deadlock(group)
    /\ Ended(s) /\ Idle(s)
    /\ UNCHANGED <<row, said, contract>>

\* The connection is lost.
Dies(s) ==
    /\ pc[s] # "idle"
    /\ Ended(s) /\ Idle(s)
    /\ UNCHANGED <<row, said, contract>>

-----------------------------------------------------------------------------

\* set_jd_full clears the codes, a rejected text adds one: single statements, on the live row.
Judges(k) ==
    /\ row[k] # None
    /\ \E codes \in {{}} \cup {said[k] \cup {c} : c \in JdCodes} :
          /\ said' = [said EXCEPT ![k] = codes]
          /\ row' = [row EXCEPT ![k].codes = (@ \ JdCodes) \cup codes]
    /\ UNCHANGED <<job, pc, target, existing, locks, contract>>

-----------------------------------------------------------------------------

Init ==
    /\ row = [k \in Keys |-> None]
    /\ job = [s \in Slots |-> None] /\ pc = [s \in Slots |-> "idle"]
    /\ target = [s \in Slots |-> None] /\ existing = [s \in Slots |-> None]
    /\ locks = [s \in Slots |-> {}]
    /\ said = [k \in Keys |-> {}] /\ contract = [k \in Keys |-> {}]

Writes(s) == Inserts(s) \/ Updates(s) \/ Rejected(s)

Next ==
    \/ \E s \in Slots :
          \/ \E p \in Payloads : Begins(s, p)
          \/ Locks(s) \/ Relocks(s) \/ Writes(s) \/ Commits(s) \/ Deadlocked(s) \/ Dies(s)
    \/ \E k \in Keys : Judges(k)

\* Waiters are served in turn; a batch commits or ends; circles are detected.
Fair ==
    /\ WF_vars(\E s \in Slots : Deadlocked(s))
    /\ \A s \in Slots : SF_vars(Locks(s)) /\ SF_vars(Relocks(s)) /\ WF_vars(Writes(s)) /\ SF_vars(Commits(s))

Spec == Init /\ [][Next]_vars /\ Fair

-----------------------------------------------------------------------------

TypeOK ==
    /\ row \in [Keys -> Rows \cup {None}] /\ existing \in [Slots -> Rows \cup {None}]
    /\ said \in [Keys -> SUBSET JdCodes] /\ contract \in [Keys -> SUBSET (Codes \ JdCodes)]
    /\ job \in [Slots -> Payloads \cup {None}] /\ target \in [Slots -> Keys \cup {None}]
    /\ pc \in [Slots -> {"idle", "locking", "relocking", "writing"}]
    /\ \A s \in Slots : /\ (pc[s] = "idle") = (job[s] = None)
                        /\ pc[s] \in {"idle", "locking"} => target[s] = None /\ existing[s] = None
                        /\ pc[s] \in {"relocking", "writing"} => target[s] \in Keys
    /\ locks \in [Slots -> SUBSET Keys]

\* Who writes holds the lock of its key and of its match, and nobody else does.
LocksAreHeld ==
    \A s \in Slots :
        /\ \A t \in Slots \ {s} : locks[s] \cap locks[t] = {}
        /\ pc[s] \in {"relocking", "writing"} => job[s].key \in locks[s]
        /\ pc[s] = "writing" => target[s] \in locks[s]

\* What it has read is the row, but for the codes.
ReadIsLive ==
    \A s \in Slots : pc[s] = "writing" =>
        /\ (existing[s] = None) = (row[target[s]] = None)
        /\ existing[s] = None => target[s] = job[s].key
        /\ existing[s] # None => [row[target[s]] EXCEPT !.codes = {}] = [existing[s] EXCEPT !.codes = {}]

\* Connections that hold no lock of an earlier posting never wait in a circle: who has
\* found a match saw no row of its own key, so nobody has a match there.
Current(s) == IF pc[s] = "idle" THEN {} ELSE {job[s].key} \cup (IF pc[s] = "writing" THEN {target[s]} ELSE {})
NoCircle ==
    \A group \in SUBSET Slots : Deadlock(group) => \E s \in group : ~(locks[s] \subseteq Current(s))

\* #235, #245: on every row stand the codes that _jd_full.py left there, and the codes
\* that the parser gave with the last canonical change of it.
ReasonsAreOwned ==
    \A k \in Keys : row[k] # None => row[k].codes = said[k] \cup contract[k]

Inv == TypeOK /\ LocksAreHeld /\ ReadIsLive /\ NoCircle

(***************************************************************************)
(* Two upserts of one posting, under one key or two, lose nothing of each  *)
(* other: sources and places stay, a date and a text give way only to a    *)
(* better one, and what was filled in stays.                               *)
(***************************************************************************)
Keeps(old, new) ==
    /\ old.company = new.company
    /\ old.sources \subseteq new.sources /\ old.places \subseteq new.places
    /\ old.rank <= new.rank /\ old.length <= new.length
    /\ old.salary \in {None, new.salary} /\ old.source_id \in {None, new.source_id}

NothingSeenIsLost ==
    [][\A k \in Keys : row[k] # None => row'[k] # None /\ Keeps(row[k], row'[k])]_vars

(***************************************************************************)
(* Every upsert is one step: what it merges with, from a lookup and up to  *)
(* two reads under two locks, is the row that it writes over, which is     *)
(* still the one of its key or of its posting.                             *)
(***************************************************************************)
MergedOnce(r, p) == Merged(r, r, p)

Atomic == INSTANCE Corpus WITH New <- Inserted, Merge <- MergedOnce, Same <- IsTwin
KeepsCorpus == Atomic!Spec

(***************************************************************************)
(* Every upsert ends, whatever the others wait for.                        *)
(***************************************************************************)
UpsertsEnd == \A s \in Slots : (pc[s] # "idle") ~> (pc[s] = "idle")
=============================================================================
