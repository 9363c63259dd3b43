-------------------------------- MODULE Corpus --------------------------------
(***************************************************************************)
(* What an upsert promises, without its lookups and locks: between its     *)
(* begin and its end it takes effect in one step, on the rows as they are  *)
(* then.  It merges into the row of its key, else into a row of the same   *)
(* posting, else it inserts; or it is given up and leaves no trace.        *)
(***************************************************************************)
CONSTANTS
    Slots, Keys, Payloads, JdCodes, None,
    New(_),         \* the row of a posting seen for the first time
    Merge(_, _),    \* a row that has seen one posting more
    Same(_, _)      \* a row and a posting with the same id on one platform

VARIABLES
    row,            \* the postings
    job             \* what each connection is upserting

vars == <<row, job>>

Init ==
    /\ row = [k \in Keys |-> None]
    /\ job = [s \in Slots |-> None]

Takes(s, p) ==
    /\ job[s] = None
    /\ job' = [job EXCEPT ![s] = p]
    /\ UNCHANGED row

Ends(s) == job' = [job EXCEPT ![s] = None]

Inserts(s) ==
    /\ job[s] # None /\ row[job[s].key] = None
    /\ row' = [row EXCEPT ![job[s].key] = New(job[s])]
    /\ Ends(s)

Merges(s, k) ==
    /\ job[s] # None /\ row[k] # None
    /\ k = job[s].key \/ (row[job[s].key] = None /\ Same(row[k], job[s]))
    /\ row' = [row EXCEPT ![k] = Merge(row[k], job[s])]
    /\ Ends(s)

GivesUp(s) == Ends(s) /\ UNCHANGED row

\* The codes that belong to the text, and no others.
Judges(k) ==
    /\ row[k] # None
    /\ \E codes \in SUBSET JdCodes : row' = [row EXCEPT ![k].codes = (@ \ JdCodes) \cup codes]
    /\ UNCHANGED job

Next ==
    \/ \E s \in Slots :
          \/ \E p \in Payloads : Takes(s, p)
          \/ \E k \in Keys : Merges(s, k)
          \/ Inserts(s) \/ GivesUp(s)
    \/ \E k \in Keys : Judges(k)

Spec == Init /\ [][Next]_vars
=============================================================================
