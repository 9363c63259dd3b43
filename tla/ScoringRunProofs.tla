-------------------------- MODULE ScoringRunProofs --------------------------
(***************************************************************************)
(* For any batch, any bound of the prefetch of two or more and any pool:   *)
(* the buffer keeps its bound and the serial loop all of its checks, every *)
(* posting is accounted for, a newer verdict stands, and with no more      *)
(* workers than the bound the thread never waits for a turn that is over.  *)
(***************************************************************************)
EXTENDS ScoringRun, FiniteSetTheorems, WellFoundedInduction, TLAPS

Taken == {j \in Jobs : Begun(j)}
Over == {j \in Jobs : at[j] = "over"}

\* Postings are taken in their order, and by the serial loop one after the other.
InOrder ==
    \A i, j \in Jobs : i < j /\ at[j] # "todo" => at[i] # "todo" /\ (Serial => at[i] = "over")

Crew == Cardinality(Taken) <= workers

\* The thread has a posting to go on with, and checks none beyond its lead.
Fetches ==
    /\ fetching # "off" => ahead \in Jobs
    /\ fetching = "checking" => Within(ahead)

\* An overtaken verdict is of a posting that the TTL spares the liveness gate.
Yields == \A j \in overtaken : row[j] = "fresh" /\ at[j] # "gate"

Queue == CountIsOfCompleted /\ InOrder /\ Crew

IInv == TypeOK /\ Queue /\ Fetches /\ LeadIsBounded /\ Accounted /\ NoneIsSkipped /\ Yields

Places == {"todo", "taken", "gate", "judged", "scoring", "scored", "returned", "failed", "over"}

\* The postings that a run has been through, those with a score on their way as well, and
\* those of them that it has to account for; what it says of them, and all that it counts.
Through == {j \in Jobs : at[j] \in {"returned", "failed", "over"}}
Reached == Through \cup {j \in Jobs : at[j] = "scored"}
Counted == {j \in Reached : row[j] # "absent"}
Told == summary["scored"] + summary["skipped"]
Sum == Told + summary["errors"]

-----------------------------------------------------------------------------
(* Counting postings *)

\* The batch is finite, and so is every set of its postings.
LEMMA JobsAreFinite ==
  /\ Last \in Nat /\ Bound \in Nat /\ Bound > 1 /\ Pools \subseteq Nat \ {0}
  /\ Jobs \subseteq Nat /\ Cardinality(Jobs) = Last + 1
  /\ \A s \in SUBSET Jobs : IsFiniteSet(s) /\ Cardinality(s) \in Nat /\ Cardinality(s) <= Last + 1
  <1>1. Last \in Nat /\ Bound \in Nat /\ Bound > 1 /\ Pools \subseteq Nat \ {0}
    BY ScoringAssumption
  <1>2. IsFiniteSet(Jobs) /\ Cardinality(Jobs) = Last + 1
    BY <1>1, FS_Interval DEF Jobs
  <1>3. \A s \in SUBSET Jobs : IsFiniteSet(s) /\ Cardinality(s) <= Last + 1
    BY <1>2, FS_Subset
  <1> QED BY <1>1, <1>2, <1>3, FS_CardinalityType DEF Jobs

\* A set of postings that gains one at most counts one more at most.
LEMMA OneMore ==
  ASSUME NEW s \in SUBSET Jobs, NEW t \in SUBSET Jobs, NEW j \in Jobs, t \subseteq s \cup {j}
  PROVE  Cardinality(t) <= Cardinality(s) + 1
  <1>1. IsFiniteSet(s) /\ Cardinality(s) \in Nat /\ Cardinality(t) \in Nat
    BY JobsAreFinite
  <1>2. IsFiniteSet(s \cup {j}) /\ Cardinality(s \cup {j}) <= Cardinality(s) + 1
    <2>1. IsFiniteSet(s \cup {j})
      BY <1>1, FS_AddElement
    <2>2. Cardinality(s \cup {j}) = IF j \in s THEN Cardinality(s) ELSE Cardinality(s) + 1
      BY <1>1, FS_AddElement
    <2> QED BY <1>1, <2>1, <2>2
  <1>3. Cardinality(t) <= Cardinality(s \cup {j}) /\ Cardinality(s \cup {j}) \in Nat
    BY <1>2, FS_Subset, FS_CardinalityType
  <1> QED BY <1>1, <1>2, <1>3

\* A set of postings that gains a new one counts one more.
LEMMA OneNew ==
  ASSUME NEW s \in SUBSET Jobs, NEW j \in Jobs, j \notin s
  PROVE  Cardinality(s \cup {j}) = Cardinality(s) + 1
  BY JobsAreFinite, FS_AddElement

\* The sets and the sums of Accounted.
LEMMA AccountedParts ==
  ASSUME TypeOK
  PROVE  /\ Accounted <=> /\ Sum >= Cardinality(Counted)
                          /\ Told <= Cardinality(Reached)
                          /\ run = "aborted" => Serial
                          /\ run = "returned" => Through = Jobs
         /\ Reached \in SUBSET Jobs /\ Counted \in SUBSET Jobs
         /\ Cardinality(Reached) \in Nat /\ Cardinality(Counted) \in Nat
         /\ Told \in Nat /\ Sum \in Nat
  <1>1. Reached \in SUBSET Jobs /\ Counted \in SUBSET Jobs
    BY DEF Through, Reached, Counted
  <1>2. Cardinality(Reached) \in Nat /\ Cardinality(Counted) \in Nat
    BY <1>1, JobsAreFinite
  <1>3. summary["scored"] \in Nat /\ summary["skipped"] \in Nat /\ summary["errors"] \in Nat
    BY DEF TypeOK, Counters
  <1>4. Accounted <=> /\ Sum >= Cardinality(Counted)
                      /\ Told <= Cardinality(Reached)
                      /\ run = "aborted" => Serial
                      /\ run = "returned" => Through = Jobs
    BY DEF Accounted, Through, Reached, Counted, Told, Sum
  <1>5. Told \in Nat /\ Sum \in Nat
    BY <1>3 DEF Told, Sum
  <1> QED BY <1>1, <1>2, <1>4, <1>5

\* A posting that has been taken is within Bound of what the consumers have counted, in a pool no wider.
LEMMA LeadOfTaken ==
  ASSUME TypeOK, Queue, workers <= Bound, NEW j \in Jobs, at[j] # "todo"
  PROVE  Within(j)
  <1>1. /\ Bound \in Nat /\ Bound > 1 /\ workers \in 1 .. Bound /\ j \in Nat /\ consumed \in Nat
        /\ Last \in Nat /\ Taken \in SUBSET Jobs /\ Over \in SUBSET Jobs
    BY JobsAreFinite DEF TypeOK, Jobs, Taken, Over
  <1>2. /\ IsFiniteSet(Taken) /\ Cardinality(Taken) \in Nat
        /\ IsFiniteSet(Over) /\ Cardinality(Over) \in Nat
    BY <1>1, JobsAreFinite
  <1>3. CASE Serial
    <2>1. \A i \in Jobs : i < j => at[i] = "over"
      BY <1>3 DEF Queue, InOrder
    <2>2. 0 .. j - 1 \in SUBSET Over
      BY <1>1, <2>1 DEF Over, Jobs
    <2>3. j <= Cardinality(Over)
      <3>1. Cardinality(0 .. j - 1) = j
        BY <1>1, FS_Interval
      <3>2. Cardinality(0 .. j - 1) <= Cardinality(Over)
        BY <1>2, <2>2, FS_Subset
      <3> QED BY <3>1, <3>2
    <2>4. consumed = IF Cardinality(Over) = 0 THEN 0 ELSE Cardinality(Over) - 1
      BY <1>3 DEF Queue, CountIsOfCompleted, Over
    <2> QED BY <1>1, <1>2, <2>3, <2>4 DEF Within
  <1>4. CASE ~Serial
    <2>1. \A i \in Jobs : i <= j => at[i] # "todo"
      BY <1>1 DEF Queue, InOrder, Jobs
    <2>2. 0 .. j \in SUBSET (Taken \cup Over)
      BY <1>1, <2>1 DEF Taken, Over, Begun, Jobs
    <2>3. IsFiniteSet(Taken \cup Over) /\ Taken \cap Over = {}
      BY <1>2, FS_Union DEF Taken, Over, Begun
    <2>4. Cardinality(Taken \cup Over) = Cardinality(Taken) + Cardinality(Over)
      <3>1. Cardinality(Taken \cap Over) = 0
        BY <2>3, FS_EmptySet
      <3>2. Cardinality(Taken \cup Over) = Cardinality(Taken) + Cardinality(Over) - Cardinality(Taken \cap Over)
        BY <1>2, FS_Union
      <3> QED BY <1>2, <3>1, <3>2
    <2>5. j + 1 <= Cardinality(Taken \cup Over)
      <3>1. Cardinality(0 .. j) = j + 1
        BY <1>1, FS_Interval
      <3>2. Cardinality(0 .. j) <= Cardinality(Taken \cup Over)
        BY <2>2, <2>3, FS_Subset
      <3> QED BY <3>1, <3>2
    <2>6. Cardinality(Taken) <= workers /\ consumed = Cardinality(Over)
      BY <1>4 DEF Queue, Crew, CountIsOfCompleted, Over
    <2> QED BY <1>1, <1>2, <2>4, <2>5, <2>6 DEF Within
  <1> QED BY <1>3, <1>4

\* What the serial loop is past is over: its count is that of the last one that is.
LEMMA PassedIsOver ==
  ASSUME TypeOK, Queue, Serial, NEW j \in Jobs, j < consumed
  PROVE  at[j] = "over"
  <1>1. consumed \in Nat /\ j \in Nat /\ Over \in SUBSET Jobs
    BY JobsAreFinite DEF TypeOK, Jobs, Over
  <1>2. IsFiniteSet(Over) /\ Cardinality(Over) \in Nat
    BY <1>1, JobsAreFinite
  <1>3. consumed = IF Cardinality(Over) = 0 THEN 0 ELSE Cardinality(Over) - 1
    BY DEF Queue, CountIsOfCompleted, Over
  <1>4. SUFFICES ASSUME at[j] # "over" PROVE FALSE
    OBVIOUS
  <1>5. \A i \in Over : i < j
    <2> SUFFICES ASSUME NEW i \in Over, ~(i < j) PROVE FALSE
      OBVIOUS
    <2>1. i \in Jobs /\ i \in Nat /\ at[i] = "over" /\ j < i
      BY <1>1, <1>4, JobsAreFinite DEF Over
    <2> QED BY <1>4, <2>1 DEF Queue, InOrder
  <1>6. Over \in SUBSET (0 .. j - 1)
    BY <1>1, <1>5, JobsAreFinite
  <1>7. Cardinality(Over) <= j
    <2>1. IsFiniteSet(0 .. j - 1) /\ Cardinality(0 .. j - 1) = j
      BY <1>1, FS_Interval
    <2>2. Cardinality(Over) <= Cardinality(0 .. j - 1)
      BY <1>6, <2>1, FS_Subset
    <2> QED BY <2>1, <2>2
  <1> QED BY <1>1, <1>2, <1>3, <1>7

-----------------------------------------------------------------------------
(* Steps, by what they do to the queue *)

\* The invariant holds initially.
LEMMA InitScoring == Init => IInv
  <1> SUFFICES ASSUME Init PROVE IInv
    OBVIOUS
  <1>1. /\ Last \in Nat /\ Bound \in Nat /\ Bound > 1 /\ Pools \subseteq Nat \ {0}
        /\ Kinds \subseteq [Jobs -> {"absent", "gated", "deferred", "due", "fresh"}]
    BY ScoringAssumption
  <1>2. TypeOK
    BY <1>1 DEF Init, TypeOK, Jobs, Counters
  <1>3. Over = {} /\ Taken = {} /\ {j \in Jobs : at[j] = "over"} = {}
    BY DEF Init, Over, Taken, Begun
  <1>4. Cardinality({}) = 0
    BY FS_EmptySet
  <1>5. Queue
    <2>1. CountIsOfCompleted
      BY <1>3, <1>4 DEF Init, CountIsOfCompleted
    <2>2. Crew /\ workers \in Nat
      BY <1>1, <1>3, <1>4 DEF Init, Crew
    <2> QED BY <2>1, <2>2 DEF Init, Queue, InOrder
  <1>6. Fetches
    BY <1>1 DEF Init, Fetches, Jobs
  <1>7. LeadIsBounded
    BY <1>1, <1>4 DEF Init, LeadIsBounded
  <1>8. Accounted
    <2>1. Reached = {} /\ Counted = {} /\ Through = {}
      BY DEF Init, Reached, Counted, Through
    <2>2. Sum = 0 /\ Told = 0
      BY DEF Init, Sum, Told, Counters
    <2> QED BY <1>2, <1>4, <2>1, <2>2, AccountedParts DEF Init
  <1>9. NoneIsSkipped /\ Yields
    BY <1>1 DEF Init, NoneIsSkipped, Yields, Jobs
  <1> QED BY <1>2, <1>5, <1>6, <1>7, <1>8, <1>9 DEF IInv

\* A step that takes and ends no posting leaves the queue as it is.
LEMMA SameQueue ==
  ASSUME Queue, UNCHANGED <<workers, consumed>>,
         \A i \in Jobs : /\ at'[i] = "todo" <=> at[i] = "todo"
                         /\ at'[i] = "over" <=> at[i] = "over"
  PROVE  Queue'
  <1>1. Taken' = Taken /\ {j \in Jobs : at[j] = "over"}' = {j \in Jobs : at[j] = "over"}
    BY DEF Taken, Begun
  <1>2. CountIsOfCompleted'
    BY <1>1 DEF Queue, CountIsOfCompleted, Serial
  <1>3. InOrder'
    BY DEF Queue, InOrder, Serial
  <1>4. Crew'
    BY <1>1 DEF Queue, Crew
  <1> QED BY <1>2, <1>3, <1>4 DEF Queue

\* Taking the next posting keeps the order and the size of the crew.
LEMMA TakesKeepsQueue ==
  ASSUME TypeOK, Queue, NEW j \in Jobs, Takes(j)
  PROVE  Queue'
  <1>1. /\ at' = [at EXCEPT ![j] = "taken"] /\ at[j] = "todo" /\ UNCHANGED <<workers, consumed>>
        /\ \A i \in Jobs : i < j => at[i] # "todo"
        /\ Cardinality(Taken) < workers /\ at \in [Jobs -> {"todo", "taken", "gate", "judged", "scoring", "scored", "returned", "failed", "over"}]
    BY DEF Takes, Goes, TypeOK, Taken
  <1>2. workers \in Nat /\ Taken \in SUBSET Jobs /\ Taken' \in SUBSET Jobs
    BY JobsAreFinite DEF TypeOK, Taken
  <1>3. Cardinality(Taken) \in Nat /\ Cardinality(Taken') \in Nat
    BY <1>2, JobsAreFinite
  <1>4. Crew'
    <2>1. Taken' \subseteq Taken \cup {j}
      BY <1>1 DEF Taken, Begun
    <2>2. Cardinality(Taken') <= Cardinality(Taken) + 1
      BY <1>2, <2>1, OneMore
    <2> QED BY <1>1, <1>2, <1>3, <2>2 DEF Crew
  <1>5. CountIsOfCompleted'
    <2>1. {i \in Jobs : at[i] = "over"}' = {i \in Jobs : at[i] = "over"}
      BY <1>1
    <2> QED BY <1>1, <2>1 DEF Queue, CountIsOfCompleted, Serial
  <1>6. InOrder'
    <2> SUFFICES ASSUME NEW i \in Jobs, NEW k \in Jobs, i < k, at'[k] # "todo"
                 PROVE  at'[i] # "todo" /\ (Serial' => at'[i] = "over")
      BY DEF InOrder
    <2>1. i \in Nat /\ j \in Nat /\ k \in Nat /\ i # k
      BY JobsAreFinite
    <2>2. CASE k = j
      <3>1. at[i] # "todo" /\ i # j
        BY <1>1, <2>1, <2>2
      <3>2. Serial => Taken = {}
        <4> SUFFICES ASSUME Serial PROVE Taken = {}
          OBVIOUS
        <4>1. Cardinality(Taken) = 0
          BY <1>1, <1>3 DEF Serial
        <4>2. IsFiniteSet(Taken)
          BY <1>2, JobsAreFinite
        <4> QED BY <4>1, <4>2, FS_EmptySet
      <3> QED BY <1>1, <3>1, <3>2 DEF Taken, Begun, Serial
    <2>3. CASE k # j
      <3>1. at[k] # "todo"
        BY <1>1, <2>3
      <3> QED BY <1>1, <2>1, <3>1 DEF Queue, InOrder, Serial
    <2> QED BY <2>2, <2>3
  <1> QED BY <1>4, <1>5, <1>6 DEF Queue

\* The end of a posting is counted, and the count never falls.
LEMMA AdvancesKeepsQueue ==
  ASSUME TypeOK, Queue, NEW j \in Jobs, Advances(j)
  PROVE  Queue' /\ consumed' \in 0 .. Last + 1 /\ consumed <= consumed'
  <1>1. /\ at' = [at EXCEPT ![j] = "over"] /\ at[j] \in {"returned", "failed"} /\ UNCHANGED workers
        /\ consumed' = (IF Serial THEN j ELSE consumed + 1) /\ consumed \in Nat
        /\ at \in [Jobs -> {"todo", "taken", "gate", "judged", "scoring", "scored", "returned", "failed", "over"}]
    BY JobsAreFinite DEF Advances, Goes, TypeOK
  <1>2. /\ Over \in SUBSET Jobs /\ Over' = Over \cup {j} /\ j \notin Over
        /\ Taken \in SUBSET Jobs /\ Taken' \in SUBSET Taken /\ workers \in Nat /\ Last \in Nat /\ j \in 0 .. Last
    BY <1>1, JobsAreFinite DEF Over, Taken, Begun, TypeOK, Jobs
  <1>3. /\ Cardinality(Over') = Cardinality(Over) + 1 /\ Cardinality(Over) \in Nat
        /\ Cardinality(Over') <= Last + 1
    BY <1>2, OneNew, JobsAreFinite
  <1>4. Crew'
    <2>1. Cardinality(Taken') <= Cardinality(Taken) /\ Cardinality(Taken) \in Nat /\ Cardinality(Taken') \in Nat
      BY <1>2, JobsAreFinite, FS_Subset
    <2> QED BY <1>1, <1>2, <2>1 DEF Queue, Crew
  <1>5. InOrder'
    BY <1>1 DEF Queue, InOrder, Serial
  <1>6. Serial => Over = 0 .. j - 1
    <2> SUFFICES ASSUME Serial PROVE Over = 0 .. j - 1
      OBVIOUS
    <2>1. \A i \in Jobs : i < j => at[i] = "over"
      BY <1>1 DEF Queue, InOrder
    <2>2. \A i \in Jobs : at[i] = "over" => i < j
      <3> SUFFICES ASSUME NEW i \in Jobs, at[i] = "over", ~(i < j) PROVE FALSE
        OBVIOUS
      <3>1. j < i
        BY <1>1, JobsAreFinite
      <3> QED BY <1>1, <3>1 DEF Queue, InOrder
    <2> QED BY <1>2, <2>1, <2>2 DEF Over, Jobs
  <1>7. Serial => Cardinality(Over) = j
    BY <1>2, <1>6, FS_Interval
  <1>8. CountIsOfCompleted' /\ consumed <= consumed'
    <2>1. /\ CountIsOfCompleted <=> IF Serial THEN consumed = (IF Cardinality(Over) = 0 THEN 0 ELSE Cardinality(Over) - 1)
                                            ELSE consumed = Cardinality(Over)
          /\ CountIsOfCompleted' <=> IF Serial' THEN consumed' = (IF Cardinality(Over') = 0 THEN 0 ELSE Cardinality(Over') - 1)
                                              ELSE consumed' = Cardinality(Over')
      BY DEF CountIsOfCompleted, Over
    <2>2. CASE Serial
      <3>1. Serial' /\ consumed' = j /\ Cardinality(Over) = j /\ Cardinality(Over') = j + 1 /\ j \in Nat
        BY <1>1, <1>2, <1>3, <1>7, <2>2 DEF Serial
      <3>2. consumed = (IF j = 0 THEN 0 ELSE j - 1)
        BY <2>1, <2>2, <3>1 DEF Queue
      <3>3. CountIsOfCompleted'
        BY <2>1, <3>1
      <3> QED BY <3>1, <3>2, <3>3
    <2>3. CASE ~Serial
      BY <1>1, <1>2, <1>3, <2>1, <2>3 DEF Queue, Serial
    <2> QED BY <2>2, <2>3
  <1>9. consumed' \in 0 .. Last + 1
    <2>1. ~Serial => consumed' = Cardinality(Over) + 1
      BY <1>1 DEF Queue, CountIsOfCompleted, Over
    <2> QED BY <1>1, <1>2, <1>3, <2>1
  <1> QED BY <1>4, <1>5, <1>8, <1>9 DEF Queue

-----------------------------------------------------------------------------
(* The counters *)

\* One counter more is one more in their sum.
LEMMA CountsOne ==
  ASSUME TypeOK, NEW c \in Counters, Counts(c)
  PROVE  /\ Sum' = Sum + 1
         /\ Told' = IF c = "errors" THEN Told ELSE Told + 1
         /\ summary' \in [Counters -> Nat]
  <1>1. summary' = [summary EXCEPT ![c] = summary[c] + 1] /\ summary \in [Counters -> Nat]
    BY DEF Counts, TypeOK
  <1>2. c = "scored" \/ c = "skipped" \/ c = "errors"
    BY DEF Counters
  <1> QED BY <1>1, <1>2 DEF Sum, Told, Counters

\* The parts of Accounted after a step.
LEMMA AccountedNext ==
  /\ Sum' >= Cardinality(Counted')
  /\ Told' <= Cardinality(Reached')
  /\ run' = "aborted" => Serial'
  /\ run' = "returned" => Through' = Jobs
  => Accounted'
  BY DEF Accounted, Through, Reached, Counted, Told, Sum, Jobs

\* A step that returns no posting and counts none.
LEMMA SameAccount ==
  ASSUME TypeOK, TypeOK', Accounted, UNCHANGED <<workers, run, summary>>,
         \A i \in Jobs : /\ at'[i] \in {"returned", "failed", "over"} <=> at[i] \in {"returned", "failed", "over"}
                         /\ at'[i] = "scored" <=> at[i] = "scored"
                         /\ i \in Reached => (row'[i] = "absent" <=> row[i] = "absent")
  PROVE  Accounted'
  <1>1. Through' = Through /\ Reached' = Reached
    BY DEF Through, Reached
  <1>2. Counted' = Counted
    <2>1. \A i \in Reached : i \in Jobs /\ (row'[i] = "absent" <=> row[i] = "absent")
      BY DEF Through, Reached
    <2> QED BY <1>1, <2>1 DEF Counted
  <1>3. Sum' = Sum /\ Told' = Told
    BY DEF Sum, Told
  <1> QED BY <1>1, <1>2, <1>3, AccountedParts, AccountedNext DEF Serial

\* A posting that returns has been counted, is not found, or failed after its score;
\* one that fails on its way out is an error besides.
LEMMA ReturnsAccounted ==
  ASSUME TypeOK, TypeOK', Accounted, NEW j \in Jobs, run = "running", UNCHANGED <<workers, run>>,
         NEW place \in {"returned", "failed"}, Goes(j, place), \A i \in Jobs \ {j} : row'[i] = row[i],
         \/ Counts("skipped") /\ j \notin Reached
         \/ Counts("errors")
         \/ UNCHANGED summary /\ (row'[j] = "absent" \/ (at[j] = "scored" /\ row' = row))
  PROVE  Accounted'
  <1>1. at' = [at EXCEPT ![j] = place] /\ at \in [Jobs -> Places]
    BY DEF Goes, TypeOK, Places
  <1>2. Reached' = Reached \cup {j} /\ Counted' \subseteq Counted \cup {j}
    <2>1. \A i \in Jobs \ {j} : at'[i] = at[i]
      BY <1>1
    <2>2. at'[j] = place
      BY <1>1
    <2>3. \A i \in Jobs \ {j} : i \in Reached' <=> i \in Reached
      BY <2>1 DEF Through, Reached
    <2>4. j \in Reached' /\ Reached \subseteq Jobs /\ Reached' \subseteq Jobs
      BY <2>2 DEF Through, Reached
    <2>5. Reached' = Reached \cup {j}
      BY <2>3, <2>4
    <2>6. \A i \in Counted' : i = j \/ i \in Counted
      BY <2>5, <2>4 DEF Counted
    <2> QED BY <2>5, <2>6
  <1>3. /\ Reached \in SUBSET Jobs /\ Counted \in SUBSET Jobs
        /\ Reached' \in SUBSET Jobs /\ Counted' \in SUBSET Jobs
        /\ Cardinality(Reached) \in Nat /\ Cardinality(Counted) \in Nat
        /\ Told \in Nat /\ Sum \in Nat
        /\ Sum >= Cardinality(Counted) /\ Told <= Cardinality(Reached)
    BY <1>2, AccountedParts
  <1>4. /\ Cardinality(Reached) <= Cardinality(Reached') /\ Cardinality(Reached') \in Nat
        /\ j \notin Reached => Cardinality(Reached') = Cardinality(Reached) + 1
        /\ Cardinality(Counted') <= Cardinality(Counted) + 1 /\ Cardinality(Counted') \in Nat
    <2>1. Cardinality(Counted') <= Cardinality(Counted) + 1
      BY <1>2, <1>3, OneMore
    <2>2. j \notin Reached => Cardinality(Reached') = Cardinality(Reached) + 1
      BY <1>2, <1>3, OneNew
    <2>3. IsFiniteSet(Reached') /\ Cardinality(Reached') \in Nat /\ Cardinality(Counted') \in Nat
      BY <1>3, JobsAreFinite
    <2>4. Cardinality(Reached) <= Cardinality(Reached')
      BY <1>2, <2>3, FS_Subset
    <2> QED BY <2>1, <2>2, <2>3, <2>4
  <1>5. Sum' >= Cardinality(Counted') /\ Told' <= Cardinality(Reached')
    <2>1. CASE Counts("skipped") /\ j \notin Reached
      <3>1. Sum' = Sum + 1 /\ Told' = Told + 1
        BY <2>1, CountsOne DEF Counters
      <3> QED BY <1>3, <1>4, <2>1, <3>1
    <2>2. CASE Counts("errors")
      <3>1. Sum' = Sum + 1 /\ Told' = Told
        BY <2>2, CountsOne DEF Counters
      <3> QED BY <1>3, <1>4, <3>1
    <2>3. CASE UNCHANGED summary /\ (row'[j] = "absent" \/ (at[j] = "scored" /\ row' = row))
      <3>1. Sum' = Sum /\ Told' = Told
        BY <2>3 DEF Sum, Told
      <3>2. Counted' \subseteq Counted
        BY <1>2, <2>3 DEF Reached, Counted
      <3>3. Cardinality(Counted') <= Cardinality(Counted)
        BY <1>3, <3>2, FS_Subset, JobsAreFinite
      <3> QED BY <1>3, <1>4, <3>1, <3>3
    <2> QED BY <2>1, <2>2, <2>3
  <1> QED BY <1>5, AccountedNext

\* A persisted score is counted before its posting returns.
LEMMA ScoredAccounted ==
  ASSUME TypeOK, TypeOK', Accounted, NEW j \in Jobs, run = "running", UNCHANGED <<workers, run, row>>,
         Goes(j, "scored"), at[j] = "scoring", Counts("scored")
  PROVE  Accounted'
  <1>1. at' = [at EXCEPT ![j] = "scored"] /\ at \in [Jobs -> Places]
    BY DEF Goes, TypeOK, Places
  <1>2. Reached' = Reached \cup {j} /\ j \notin Reached
    BY <1>1 DEF Through, Reached
  <1>3. Counted' \subseteq Counted \cup {j}
    BY <1>2 DEF Counted
  <1>4. /\ Reached \in SUBSET Jobs /\ Counted \in SUBSET Jobs /\ Counted' \in SUBSET Jobs
        /\ Cardinality(Reached) \in Nat /\ Cardinality(Counted) \in Nat
        /\ Told \in Nat /\ Sum \in Nat
        /\ Sum >= Cardinality(Counted) /\ Told <= Cardinality(Reached)
    BY <1>3, AccountedParts
  <1>5. /\ Cardinality(Counted') <= Cardinality(Counted) + 1 /\ Cardinality(Counted') \in Nat
        /\ Cardinality(Reached') = Cardinality(Reached) + 1
    BY <1>2, <1>3, <1>4, OneMore, OneNew, JobsAreFinite
  <1>6. Sum' = Sum + 1 /\ Told' = Told + 1
    BY CountsOne DEF Counters
  <1>7. Sum' >= Cardinality(Counted') /\ Told' <= Cardinality(Reached')
    BY <1>4, <1>5, <1>6
  <1> QED BY <1>7, AccountedNext

-----------------------------------------------------------------------------
(* Each step keeps each part *)

\* A posting goes to another place, or a counter up, within their types.
LEMMA GoesAndCounts ==
  ASSUME TypeOK
  PROVE  /\ \A j \in Jobs, p \in Places : Goes(j, p) => at' \in [Jobs -> Places]
         /\ \A c \in Counters : Counts(c) => summary' \in [Counters -> Nat]
  <1>1. at \in [Jobs -> Places]
    BY DEF TypeOK, Places
  <1> QED BY <1>1, CountsOne DEF Goes

\* Type correctness of a consumer's step.
LEMMA ProcessesTypes ==
  ASSUME TypeOK, Queue, NEW j \in Jobs, Processes(j)
  PROVE  TypeOK'
  <1>1. /\ at \in [Jobs -> Places] /\ run = "running" /\ summary \in [Counters -> Nat]
        /\ TypeOK' <=> /\ workers' \in Pools /\ row' \in [Jobs -> {"absent", "gated", "deferred", "due", "fresh"}]
                       /\ run' \in {"running", "returned", "aborted"}
                       /\ at' \in [Jobs -> Places] /\ summary' \in [Counters -> Nat]
                       /\ consumed' \in 0 .. Last + 1 /\ buffer' \subseteq Jobs
                       /\ ahead' \in Nat /\ fetching' \in {"next", "checking", "off"} /\ overtaken' \subseteq Jobs
    BY DEF TypeOK, Places, Processes, Jobs
  <1>2. /\ {"scored", "skipped", "errors"} = Counters
        /\ {"taken", "gate", "judged", "scoring", "scored", "returned", "failed", "over"} \subseteq Places
    BY DEF Counters, Places
  <1>3. CASE NoConnection(j)
    BY <1>1, <1>2, <1>3, GoesAndCounts DEF NoConnection, TypeOK
  <1>4. CASE Gates(j)
    <2>1. row[j] \in {"absent", "gated", "deferred", "due", "fresh"}
      BY DEF TypeOK
    <2>2. \/ (Goes(j, "returned") \/ Goes(j, "scoring") \/ Goes(j, "gate")) /\ UNCHANGED summary
          \/ Goes(j, "returned") /\ Counts("skipped")
      BY <1>4, <2>1 DEF Gates
    <2> QED BY <1>1, <1>2, <1>4, <2>2, GoesAndCounts DEF Gates, TypeOK
  <1>5. CASE Learns(j)
    BY <1>1, <1>2, <1>5, GoesAndCounts DEF Learns, TypeOK
  <1>6. CASE Persists(j)
    <2>1. row' \in [Jobs -> {"absent", "gated", "deferred", "due", "fresh"}]
      BY <1>6 DEF Persists, TypeOK
    <2> QED BY <1>1, <1>2, <1>6, <2>1, GoesAndCounts DEF Persists, TypeOK
  <1>7. CASE Scores(j)
    BY <1>1, <1>2, <1>7, GoesAndCounts DEF Scores, TypeOK
  <1>8. CASE Rereads(j)
    BY <1>1, <1>2, <1>8, GoesAndCounts DEF Rereads, TypeOK
  <1>9. CASE Raises(j)
    BY <1>1, <1>2, <1>9, GoesAndCounts DEF Raises, TypeOK
  <1>10. CASE Advances(j)
    BY <1>1, <1>2, <1>10, GoesAndCounts, AdvancesKeepsQueue DEF Advances, TypeOK
  <1> QED BY <1>3, <1>4, <1>5, <1>6, <1>7, <1>8, <1>9, <1>10 DEF Processes

\* Trimming takes no entry in.
LEMMA TrimmedEntries == \A s : Trimmed(s) \subseteq s
  BY DEF Trimmed

\* Type correctness of a step.
LEMMA StepTypes ==
  ASSUME TypeOK, Queue, Fetches, [Next]_vars
  PROVE  TypeOK'
  <1>1. CASE \E j \in Jobs : Takes(j)
    <2>1. at' \in [Jobs -> Places]
      BY <1>1, GoesAndCounts DEF Takes, Places
    <2> QED BY <1>1, <2>1 DEF Takes, TypeOK, Places, Jobs
  <1>2. CASE \E j \in Jobs : Processes(j)
    BY <1>2, ProcessesTypes
  <1>3. CASE \E j \in Jobs : OtherVerifies(j)
    BY <1>3 DEF OtherVerifies, TypeOK, Jobs
  <1>4. CASE Looks
    BY <1>4 DEF Looks, Moves, TypeOK, Jobs
  <1>5. CASE Stores
    <2>1. buffer' \subseteq Jobs
      BY <1>5, TrimmedEntries DEF Stores, Fetches, TypeOK
    <2>2. UNCHANGED <<workers, row, run, at, summary, consumed, overtaken>>
      BY <1>5 DEF Stores
    <2>3. ahead' \in Nat /\ fetching' \in {"next", "checking", "off"}
      BY <1>5 DEF Stores, Moves, TypeOK
    <2> QED BY <2>1, <2>2, <2>3 DEF TypeOK, Jobs
  <1>6. CASE Quits
    BY <1>6 DEF Quits, TypeOK, Jobs
  <1>7. CASE Returns
    BY <1>7 DEF Returns, TypeOK, Jobs
  <1>8. CASE UNCHANGED vars
    BY <1>8 DEF vars, TypeOK, Jobs
  <1> QED BY <1>1, <1>2, <1>3, <1>4, <1>5, <1>6, <1>7, <1>8 DEF Next

\* The queue stays in order, and the count of the consumers never falls.
LEMMA StepQueue ==
  ASSUME TypeOK, Queue, [Next]_vars
  PROVE  Queue' /\ consumed <= consumed'
  <1>1. consumed \in Nat /\ at \in [Jobs -> Places]
    BY JobsAreFinite DEF TypeOK, Places
  <1>2. CASE \E j \in Jobs : Takes(j)
    BY <1>1, <1>2, TakesKeepsQueue DEF Takes
  <1>3. ASSUME NEW j \in Jobs, Processes(j) PROVE Queue' /\ consumed <= consumed'
    <2>1. CASE Advances(j)
      BY <2>1, AdvancesKeepsQueue
    <2>2. CASE ~Advances(j)
      <3>1. /\ UNCHANGED <<workers, consumed>>
            /\ \/ UNCHANGED at
               \/ /\ at[j] \in {"taken", "gate", "judged", "scoring", "scored", "returned"}
                  /\ \E p \in {"gate", "judged", "scoring", "scored", "returned", "failed"} : Goes(j, p)
        <4>1. CASE NoConnection(j)
          BY <4>1 DEF NoConnection
        <4>2. CASE Gates(j)
          <5>1. row[j] \in {"absent", "gated", "deferred", "due", "fresh"}
            BY DEF TypeOK
          <5>2. Goes(j, "returned") \/ Goes(j, "scoring") \/ Goes(j, "gate")
            BY <4>2, <5>1 DEF Gates
          <5> QED BY <4>2, <5>2 DEF Gates
        <4>3. CASE Learns(j)
          BY <4>3 DEF Learns
        <4>4. CASE Persists(j)
          BY <4>4 DEF Persists
        <4>5. CASE Scores(j)
          BY <4>5 DEF Scores
        <4>6. CASE Rereads(j)
          BY <4>6 DEF Rereads
        <4>7. CASE Raises(j)
          BY <4>7 DEF Raises
        <4> QED BY <1>3, <2>2, <4>1, <4>2, <4>3, <4>4, <4>5, <4>6, <4>7 DEF Processes
      <3>2. \A i \in Jobs : (at'[i] = "todo" <=> at[i] = "todo") /\ (at'[i] = "over" <=> at[i] = "over")
        BY <1>1, <3>1 DEF Goes
      <3> QED BY <1>1, <3>1, <3>2, SameQueue
    <2> QED BY <2>1, <2>2
  <1>4. CASE (\E j \in Jobs : OtherVerifies(j)) \/ Looks \/ Stores \/ Quits \/ Returns \/ UNCHANGED vars
    <2>1. UNCHANGED <<workers, consumed, at>>
      BY <1>4 DEF OtherVerifies, Looks, Stores, Quits, Returns, vars
    <2> QED BY <1>1, <2>1, SameQueue
  <1> QED BY <1>2, <1>3, <1>4 DEF Next

\* A consumer's step keeps the counters in agreement with the postings.
LEMMA ProcessesAccounted ==
  ASSUME TypeOK, TypeOK', Accounted, NEW j \in Jobs, Processes(j)
  PROVE  Accounted'
  <1>1. run = "running" /\ at \in [Jobs -> Places] /\ UNCHANGED workers
    BY DEF Processes, TypeOK, Places, NoConnection, Gates, Learns, Persists, Scores, Rereads, Raises, Advances
  <1>2. CASE NoConnection(j)
    <2>1. CASE Serial
      <3>1. run' = "aborted" /\ Serial' /\ UNCHANGED <<at, row, summary>>
        BY <1>2, <2>1 DEF NoConnection, Serial
      <3> QED BY <3>1 DEF Accounted
    <2>2. CASE ~Serial
      <3>1. Goes(j, "failed") /\ Counts("errors") /\ UNCHANGED <<run, row>>
        BY <1>2, <2>2 DEF NoConnection
      <3> QED BY <1>1, <3>1, ReturnsAccounted
    <2> QED BY <2>1, <2>2
  <1>3. CASE Gates(j)
    <2>1. row[j] \in {"absent", "gated", "deferred", "due", "fresh"} /\ UNCHANGED <<run, row>> /\ at[j] = "taken"
      BY <1>3 DEF TypeOK, Gates
    <2>2. CASE row[j] = "absent"
      <3>1. Goes(j, "returned") /\ UNCHANGED summary
        BY <1>3, <2>2 DEF Gates
      <3> QED BY <1>1, <2>1, <2>2, <3>1, ReturnsAccounted
    <2>3. CASE row[j] \in {"gated", "deferred"}
      <3>1. Goes(j, "returned") /\ Counts("skipped") /\ j \notin Reached
        BY <1>3, <2>3 DEF Gates, Through, Reached
      <3> QED BY <1>1, <2>1, <3>1, ReturnsAccounted
    <2>4. CASE row[j] \in {"fresh", "due"}
      <3>1. (Goes(j, "scoring") \/ Goes(j, "gate")) /\ UNCHANGED summary
        BY <1>3, <2>4 DEF Gates
      <3> QED BY <1>1, <2>1, <3>1, SameAccount DEF Goes
    <2> QED BY <2>1, <2>2, <2>3, <2>4
  <1>4. CASE Learns(j)
    BY <1>1, <1>4, SameAccount DEF Learns, Goes
  <1>5. CASE Persists(j)
    <2>1. /\ \A i \in Jobs \ {j} : row'[i] = row[i]
          /\ UNCHANGED run /\ at[j] = "judged"
      BY <1>5 DEF Persists, TypeOK
    <2>2. CASE Goes(j, "returned") /\ Counts("skipped")
      <3>1. j \notin Reached
        BY <2>1 DEF Through, Reached
      <3> QED BY <1>1, <2>1, <2>2, <3>1, ReturnsAccounted
    <2>3. CASE Goes(j, "scoring") /\ UNCHANGED summary
      <3>1. \A i \in Jobs : /\ at'[i] \in {"returned", "failed", "over"} <=> at[i] \in {"returned", "failed", "over"}
                            /\ at'[i] = "scored" <=> at[i] = "scored"
        BY <1>1, <2>1, <2>3 DEF Goes
      <3>2. j \notin Reached
        BY <2>1 DEF Through, Reached
      <3>3. \A i \in Jobs : i \in Reached => row'[i] = row[i]
        BY <2>1, <3>2
      <3> QED BY <1>1, <2>1, <2>3, <3>1, <3>3, SameAccount
    <2> QED BY <1>5, <2>2, <2>3 DEF Persists
  <1>6. CASE Scores(j)
    <2>1. UNCHANGED <<run, row>> /\ at[j] = "scoring"
      BY <1>6 DEF Scores
    <2>2. CASE Goes(j, "scored") /\ Counts("scored")
      BY <1>1, <2>1, <2>2, ScoredAccounted
    <2>3. CASE Goes(j, "returned") /\ \E c \in {"skipped", "errors"} : Counts(c)
      <3>1. j \notin Reached
        BY <2>1 DEF Through, Reached
      <3> QED BY <1>1, <2>1, <2>3, <3>1, ReturnsAccounted
    <2> QED BY <1>6, <2>2, <2>3 DEF Scores
  <1>7. CASE Rereads(j)
    <2>1. UNCHANGED <<run, row, summary>> /\ at[j] = "scored" /\ Goes(j, "returned")
      BY <1>7 DEF Rereads
    <2> QED BY <1>1, <2>1, ReturnsAccounted
  <1>8. CASE Raises(j)
    <2>1. UNCHANGED <<run, row>> /\ Goes(j, "returned") /\ Counts("errors")
      BY <1>8 DEF Raises
    <2> QED BY <1>1, <2>1, ReturnsAccounted
  <1>9. CASE Advances(j)
    BY <1>1, <1>9, SameAccount DEF Advances, Goes
  <1> QED BY <1>2, <1>3, <1>4, <1>5, <1>6, <1>7, <1>8, <1>9 DEF Processes

\* So does any step.
LEMMA StepAccounted ==
  ASSUME TypeOK, TypeOK', Accounted, [Next]_vars
  PROVE  Accounted'
  <1>1. at \in [Jobs -> Places] /\ row \in [Jobs -> {"absent", "gated", "deferred", "due", "fresh"}]
    BY DEF TypeOK, Places
  <1>2. CASE \E j \in Jobs : Takes(j)
    BY <1>1, <1>2, SameAccount DEF Takes, Goes
  <1>3. CASE \E j \in Jobs : Processes(j)
    BY <1>3, ProcessesAccounted
  <1>4. CASE \E j \in Jobs : OtherVerifies(j)
    BY <1>1, <1>4, SameAccount DEF OtherVerifies
  <1>5. CASE Looks \/ Stores \/ Quits \/ UNCHANGED vars
    <2>1. UNCHANGED <<workers, run, summary, at, row>>
      BY <1>5 DEF Looks, Stores, Quits, vars
    <2> QED BY <2>1, SameAccount
  <1>6. CASE Returns
    <2>1. /\ UNCHANGED <<workers, summary, at, row>> /\ run' = "returned"
          /\ {j \in Jobs : at[j] \in {"returned", "failed", "over"}} = Jobs
      BY <1>6 DEF Returns
    <2> QED BY <2>1 DEF Accounted, Jobs
  <1> QED BY <1>2, <1>3, <1>4, <1>5, <1>6 DEF Next

\* A verdict that was overtaken stays one that no consumer asks for.
LEMMA StepYields ==
  ASSUME TypeOK, Yields, [Next]_vars
  PROVE  Yields'
  <1>1. /\ at \in [Jobs -> Places] /\ row \in [Jobs -> {"absent", "gated", "deferred", "due", "fresh"}]
        /\ overtaken \subseteq Jobs
    BY DEF TypeOK, Places
  <1>2. CASE \E j \in Jobs : Takes(j)
    BY <1>1, <1>2 DEF Takes, Goes, Yields
  <1>3. ASSUME NEW j \in Jobs, Processes(j) PROVE Yields'
    <2> SUFFICES ASSUME NEW i \in overtaken PROVE row'[i] = "fresh" /\ at'[i] # "gate"
      BY <1>3 DEF Yields, Processes, NoConnection, Gates, Learns, Persists, Scores, Rereads, Raises, Advances
    <2>1. i \in Jobs /\ row[i] = "fresh" /\ at[i] # "gate"
      BY <1>1 DEF Yields
    <2>2. CASE NoConnection(j)
      BY <1>1, <2>1, <2>2 DEF NoConnection, Goes
    <2>3. CASE Gates(j)
      <3>1. row'[i] = "fresh" /\ (j = i => at' = [at EXCEPT ![j] = "scoring"])
        BY <2>1, <2>3 DEF Gates, Goes
      <3>2. j # i => at'[i] = at[i]
        BY <1>1, <2>1, <2>3 DEF Gates, Goes
      <3> QED BY <1>1, <2>1, <3>1, <3>2
    <2>4. CASE Learns(j)
      BY <1>1, <2>1, <2>4 DEF Learns, Goes
    <2>5. CASE Persists(j)
      BY <1>1, <2>1, <2>5 DEF Persists, Goes
    <2>6. CASE Scores(j)
      BY <1>1, <2>1, <2>6 DEF Scores, Goes
    <2>7. CASE Rereads(j)
      BY <1>1, <2>1, <2>7 DEF Rereads, Goes
    <2>8. CASE Raises(j)
      BY <1>1, <2>1, <2>8 DEF Raises, Goes
    <2>9. CASE Advances(j)
      BY <1>1, <2>1, <2>9 DEF Advances, Goes
    <2> QED BY <1>3, <2>2, <2>3, <2>4, <2>5, <2>6, <2>7, <2>8, <2>9 DEF Processes
  <1>4. CASE \E j \in Jobs : OtherVerifies(j)
    BY <1>1, <1>4 DEF OtherVerifies, Yields
  <1>5. CASE Looks \/ Stores \/ Quits \/ Returns \/ UNCHANGED vars
    <2>1. UNCHANGED <<at, row>> /\ overtaken' \subseteq overtaken
      BY <1>5 DEF Looks, Stores, Quits, Returns, vars
    <2> QED BY <2>1 DEF Yields
  <1> QED BY <1>2, <1>3, <1>4, <1>5 DEF Next

-----------------------------------------------------------------------------
(* The window of the prefetch *)

\* A full buffer with one entry more is back at its bound.
LEMMA TrimmedIsBounded ==
  ASSUME NEW s \in SUBSET Jobs, Cardinality(s) <= Bound + 1
  PROVE  Cardinality(Trimmed(s)) <= Bound
  <1>1. Bound \in Nat /\ IsFiniteSet(s) /\ Cardinality(s) \in Nat /\ s \subseteq Nat
    BY JobsAreFinite
  <1>2. CASE Cardinality(s) > Bound
    <2>1. s # {}
      BY <1>1, <1>2, FS_EmptySet
    <2>2. IsWellFoundedOn(OpToRel(<, Nat), Nat)
      BY NatLessThanWellFounded
    <2>3. PICK m \in s : \A k \in s : ~(<<k, m>> \in OpToRel(<, Nat))
      BY <1>1, <2>1, <2>2, WFMin
    <2>4. \A k \in s : ~(k < m)
      BY <1>1, <2>3 DEF OpToRel
    <2>5. Trimmed(s) \in SUBSET (s \ {m})
      BY <1>2, <2>4 DEF Trimmed
    <2>6. IsFiniteSet(s \ {m}) /\ Cardinality(s \ {m}) = Cardinality(s) - 1
      BY <1>1, <2>3, FS_RemoveElement
    <2>7. Cardinality(Trimmed(s)) <= Cardinality(s \ {m}) /\ Cardinality(Trimmed(s)) \in Nat
      BY <2>5, <2>6, FS_Subset, FS_CardinalityType
    <2> QED BY <1>1, <2>6, <2>7
  <1>3. CASE ~(Cardinality(s) > Bound)
    BY <1>1, <1>3 DEF Trimmed
  <1> QED BY <1>2, <1>3

\* The safety net drops what the consumers have passed.
LEMMA DroppedIsPassed ==
  ASSUME NEW s \in SUBSET Jobs, NEW c \in Nat, \A k \in s : k - c < Bound,
         NEW m \in s, m \notin Trimmed(s)
  PROVE  m < c
  <1>1. Bound \in Nat /\ IsFiniteSet(s) /\ Cardinality(s) \in Nat /\ s \subseteq Nat /\ m \in Nat
    BY JobsAreFinite
  <1>2. Cardinality(s) > Bound /\ \A k \in s : ~(k < m)
    BY DEF Trimmed
  <1>3. SUFFICES ASSUME c <= m PROVE FALSE
    BY <1>1
  <1>4. s \in SUBSET (c .. c + Bound - 1)
    BY <1>1, <1>2, <1>3
  <1>5. IsFiniteSet(c .. c + Bound - 1) /\ Cardinality(c .. c + Bound - 1) = Bound
    <2> DEFINE d == c + Bound - 1
    <2>1. c \in Int /\ d \in Int /\ ~(c > d) /\ d - c + 1 = Bound
      BY <1>1, JobsAreFinite
    <2> HIDE DEF d
    <2>2. IsFiniteSet(c .. d) /\ Cardinality(c .. d) = Bound
      BY <2>1, FS_Interval
    <2> QED BY <2>2 DEF d
  <1>6. Cardinality(s) <= Cardinality(c .. c + Bound - 1)
    BY <1>4, <1>5, FS_Subset
  <1> QED BY <1>1, <1>2, <1>5, <1>6

\* No step brings a posting back before its liveness gate, or from beyond the gates before it.
LEMMA AwaitedBefore ==
  ASSUME TypeOK, [Next]_vars, NEW j \in Jobs, Awaited(j)'
  PROVE  Awaited(j) /\ ~Learns(j)
  <1>1. /\ at \in [Jobs -> Places] /\ row \in [Jobs -> {"absent", "gated", "deferred", "due", "fresh"}]
        /\ at'[j] \in {"todo", "taken", "gate"} /\ row'[j] \notin {"absent", "gated", "deferred"}
    BY DEF TypeOK, Places, Awaited
  <1>2. CASE \E i \in Jobs : Takes(i)
    BY <1>1, <1>2 DEF Takes, Goes, Awaited, Learns
  <1>3. ASSUME NEW i \in Jobs, Processes(i) PROVE Awaited(j) /\ ~Learns(j)
    <2>1. CASE i # j
      <3>1. at'[j] = at[j] /\ row'[j] = row[j]
        <4>1. CASE NoConnection(i)
          BY <1>1, <2>1, <4>1 DEF NoConnection, Goes
        <4>2. CASE Gates(i)
          BY <1>1, <2>1, <4>2 DEF Gates, Goes
        <4>3. CASE Learns(i)
          BY <1>1, <2>1, <4>3 DEF Learns, Goes
        <4>4. CASE Persists(i)
          BY <1>1, <2>1, <4>4 DEF Persists, Goes
        <4>5. CASE Scores(i) \/ Rereads(i) \/ Raises(i) \/ Advances(i)
          BY <1>1, <2>1, <4>5 DEF Scores, Rereads, Raises, Advances, Goes
        <4> QED BY <1>3, <4>1, <4>2, <4>3, <4>4, <4>5 DEF Processes
      <3>2. ~Learns(j)
        BY <1>1, <3>1 DEF Learns, Goes
      <3> QED BY <1>1, <3>1, <3>2 DEF Awaited
    <2>2. CASE i = j
      <3>1. CASE NoConnection(j)
        BY <1>1, <3>1 DEF NoConnection, Goes, Awaited, Learns
      <3>2. CASE Gates(j)
        BY <1>1, <3>2 DEF Gates, Goes, Awaited, Learns
      <3>3. CASE Learns(j) \/ Persists(j) \/ Scores(j) \/ Rereads(j) \/ Raises(j) \/ Advances(j)
        BY <1>1, <3>3 DEF Learns, Persists, Scores, Rereads, Raises, Advances, Goes
      <3> QED BY <1>3, <2>2, <3>1, <3>2, <3>3 DEF Processes
    <2> QED BY <2>1, <2>2
  <1>4. CASE \E i \in Jobs : OtherVerifies(i)
    BY <1>1, <1>4 DEF OtherVerifies, Awaited, Learns, Goes
  <1>5. CASE Looks \/ Stores \/ Quits \/ Returns \/ UNCHANGED vars
    <2>1. UNCHANGED <<at, row>>
      BY <1>5 DEF Looks, Stores, Quits, Returns, vars
    <2> QED BY <1>1, <2>1 DEF Awaited, Learns, Goes
  <1> QED BY <1>2, <1>3, <1>4, <1>5 DEF Next

\* A consumer takes no entry but its own from the buffer, and the thread stays where it is.
LEMMA ConsumerLeavesWindow ==
  ASSUME [Next]_vars, ~Looks, ~Stores, ~Quits
  PROVE  /\ UNCHANGED <<ahead, fetching, workers>>
         /\ UNCHANGED buffer \/ \E j \in Jobs : Learns(j) /\ buffer' = buffer \ {j}
  <1>1. CASE \E j \in Jobs : Takes(j) \/ OtherVerifies(j)
    BY <1>1 DEF Takes, OtherVerifies
  <1>2. ASSUME NEW j \in Jobs, Processes(j)
        PROVE  /\ UNCHANGED <<ahead, fetching, workers>>
               /\ UNCHANGED buffer \/ (Learns(j) /\ buffer' = buffer \ {j})
    <2>1. CASE NoConnection(j)
      BY <2>1 DEF NoConnection
    <2>2. CASE Gates(j)
      BY <2>2 DEF Gates
    <2>3. CASE Learns(j)
      BY <2>3 DEF Learns
    <2>4. CASE Persists(j) \/ Scores(j) \/ Rereads(j) \/ Raises(j) \/ Advances(j)
      BY <2>4 DEF Persists, Scores, Rereads, Raises, Advances
    <2> QED BY <1>2, <2>1, <2>2, <2>3, <2>4 DEF Processes
  <1>3. CASE Returns \/ UNCHANGED vars
    BY <1>3 DEF Returns, vars
  <1> QED BY <1>1, <1>2, <1>3 DEF Next

\* The lead of an index falls as the count rises.
LEMMA LeadFalls ==
  ASSUME NEW i \in Nat, NEW c \in Nat, NEW d \in Nat, c <= d, i - c < Bound
  PROVE  i - d < Bound
  <1>1. Bound \in Nat
    BY JobsAreFinite
  <1> QED BY <1>1

\* The lead, the bound and what the thread is past survive every step.
LEMMA StepWindow ==
  ASSUME TypeOK, TypeOK', Queue, Fetches, LeadIsBounded, NoneIsSkipped, [Next]_vars
  PROVE  Fetches' /\ LeadIsBounded' /\ NoneIsSkipped'
  <1>1. /\ consumed \in Nat /\ consumed' \in Nat /\ consumed <= consumed'
        /\ ahead \in Nat /\ ahead' \in Nat /\ Bound \in Nat /\ Bound > 1 /\ Last \in Nat
        /\ buffer \in SUBSET Jobs /\ buffer' \in SUBSET Jobs /\ Jobs \subseteq Nat
        /\ IsFiniteSet(buffer) /\ Cardinality(buffer) \in Nat /\ Cardinality(buffer) <= Bound
    BY StepQueue, JobsAreFinite DEF TypeOK, LeadIsBounded
  <1>2. CASE ~Looks /\ ~Stores /\ ~Quits
    <2>1. /\ UNCHANGED <<ahead, fetching, workers>> /\ buffer' \in SUBSET buffer
          /\ \A j \in buffer \ buffer' : Learns(j)
      BY <1>2, ConsumerLeavesWindow
    <2>2. Fetches'
      <3>1. fetching # "off" => ahead \in Jobs
        BY DEF Fetches
      <3>2. fetching = "checking" => ahead - consumed' < Bound
        BY <1>1, LeadFalls DEF Fetches, Within
      <3> QED BY <2>1, <3>1, <3>2 DEF Fetches, Within, Jobs
    <2>3. LeadIsBounded'
      <3>1. Cardinality(buffer') <= Cardinality(buffer) /\ Cardinality(buffer') \in Nat
        BY <1>1, <2>1, FS_Subset, FS_CardinalityType
      <3>2. \A k \in buffer' : k - consumed' < Bound
        <4>1. \A k \in buffer : k \in Nat /\ k - consumed < Bound
          BY <1>1 DEF LeadIsBounded
        <4>2. \A k \in buffer : k - consumed' < Bound
          BY <1>1, <4>1, LeadFalls
        <4> QED BY <2>1, <4>2
      <3>3. Cardinality(buffer') <= Bound
        BY <1>1, <3>1
      <3> QED BY <3>2, <3>3 DEF LeadIsBounded
    <2>4. NoneIsSkipped'
      BY <2>1, AwaitedBefore DEF NoneIsSkipped, Serial, Jobs
    <2> QED BY <2>2, <2>3, <2>4
  <1>3. CASE Looks
    <2>1. UNCHANGED <<buffer, consumed, workers, at, row>> /\ fetching = "next" /\ ahead \in Jobs /\ Within(ahead)
      BY <1>3 DEF Looks, Fetches
    <2>2. \/ (ahead \in buffer \/ row[ahead] = "absent") /\ Moves
          \/ fetching' = "checking" /\ UNCHANGED ahead
      BY <1>3 DEF Looks
    <2>3. Fetches'
      <3>1. CASE Moves
        <4>1. fetching' # "checking" /\ (fetching' # "off" => ahead + 1 \in Jobs)
          BY <1>1, <2>1, <3>1 DEF Moves, Jobs
        <4> QED BY <3>1, <4>1 DEF Fetches, Moves, Jobs
      <3>2. CASE fetching' = "checking" /\ UNCHANGED ahead
        BY <2>1, <3>2 DEF Fetches, Within, Jobs
      <3> QED BY <2>2, <3>1, <3>2
    <2>4. LeadIsBounded'
      BY <2>1 DEF LeadIsBounded
    <2>5. NoneIsSkipped'
      BY <1>1, <2>1, <2>2, JobsAreFinite DEF NoneIsSkipped, Awaited, Serial, Moves, Jobs
    <2> QED BY <2>3, <2>4, <2>5
  <1>4. CASE Stores
    <2> DEFINE filled == buffer \cup {ahead}
    <2>1. /\ UNCHANGED <<consumed, workers, at, row>> /\ fetching = "checking" /\ ahead \in Jobs /\ Within(ahead)
          /\ buffer' = Trimmed(filled) /\ Moves
      BY <1>4 DEF Stores, Fetches
    <2>2. filled \in SUBSET Jobs /\ \A k \in filled : k - consumed < Bound
      BY <1>1, <2>1 DEF LeadIsBounded, Within
    <2>3. Cardinality(filled) <= Bound + 1
      <3>1. Cardinality(filled) <= Cardinality(buffer) + 1 /\ Cardinality(filled) \in Nat
        BY <1>1, <2>1, <2>2, OneMore, JobsAreFinite
      <3> QED BY <1>1, <3>1
    <2> HIDE DEF filled
    <2>4. Fetches'
      BY <1>1, <2>1 DEF Fetches, Moves, Jobs
    <2>5. LeadIsBounded'
      <3>1. Cardinality(buffer') <= Bound
        BY <2>1, <2>2, <2>3, TrimmedIsBounded
      <3>2. \A k \in buffer' : k - consumed' < Bound
        BY <2>1, <2>2, TrimmedEntries
      <3> QED BY <3>1, <3>2 DEF LeadIsBounded
    <2>6. NoneIsSkipped'
      <3> SUFFICES ASSUME Serial, NEW j \in Jobs, Bound <= j, j < ahead', Awaited(j), j \notin Trimmed(filled)
                   PROVE  FALSE
        BY <2>1 DEF NoneIsSkipped, Awaited, Serial, Jobs
      <3>1. j \in filled
        <4>1. ahead' = ahead + 1 /\ j \in Nat
          BY <1>1, <2>1 DEF Moves
        <4>2. j < ahead \/ j = ahead
          BY <1>1, <4>1
        <4> QED BY <4>2 DEF NoneIsSkipped, filled
      <3>2. j < consumed
        BY <1>1, <2>2, <3>1, DroppedIsPassed
      <3>3. at[j] = "over"
        BY <3>2, PassedIsOver
      <3> QED BY <3>3 DEF Awaited
    <2> QED BY <2>4, <2>5, <2>6
  <1>5. CASE Quits
    <2>1. UNCHANGED <<buffer, consumed, workers, at, row, ahead>> /\ fetching' = "off"
      BY <1>5 DEF Quits
    <2>2. Fetches'
      BY <2>1 DEF Fetches
    <2>3. LeadIsBounded'
      BY <2>1 DEF LeadIsBounded
    <2>4. NoneIsSkipped'
      BY <2>1 DEF NoneIsSkipped, Awaited, Serial, Jobs
    <2> QED BY <2>2, <2>3, <2>4
  <1> QED BY <1>2, <1>3, <1>4, <1>5

\* The invariant survives every step.
LEMMA StepScoring ==
  ASSUME IInv, [Next]_vars
  PROVE  IInv'
  <1>1. TypeOK'
    BY StepTypes DEF IInv
  <1>2. Queue'
    BY StepQueue DEF IInv
  <1>3. Fetches' /\ LeadIsBounded' /\ NoneIsSkipped'
    BY <1>1, StepWindow DEF IInv
  <1>4. Accounted' /\ Yields'
    BY <1>1, StepAccounted, StepYields DEF IInv
  <1> QED BY <1>1, <1>2, <1>3, <1>4 DEF IInv

\* A thread that waits has not been passed by, since what is taken is within its lead.
LEMMA WaitsForItsTurn ==
  ASSUME IInv
  PROVE  WaitsAheadOfConsumers
  BY LeadOfTaken DEF IInv, Fetches, WaitsAheadOfConsumers

(***************************************************************************)
(* The prefetch thread never waits for a turn that is over (if the pool is *)
(* no wider than its lead), the buffer and the lead of what it holds are   *)
(* bounded, and the counters of a run account for each posting that has    *)
(* been through, in the serial loop and the pool.                          *)
(***************************************************************************)
THEOREM ScoringStaysConsistent == Spec => []Inv
  <1>1. IInv => Inv
    BY WaitsForItsTurn DEF IInv, Inv, Queue
  <1> QED BY <1>1, InitScoring, StepScoring, PTL DEF Spec

(***************************************************************************)
(* Of what the thread is past, the serial loop finds every verdict that it *)
(* may yet ask for: what the safety net drops has been passed.             *)
(***************************************************************************)
THEOREM SerialSkipsNone == Spec => []NoneIsSkipped
  <1>1. IInv => NoneIsSkipped
    BY DEF IInv
  <1> QED BY <1>1, InitScoring, StepScoring, PTL DEF Spec

(***************************************************************************)
(* A verdict that another writer's has overtaken is never persisted: the   *)
(* row that the consumer reads after it keeps the posting off the gate.    *)
(***************************************************************************)
THEOREM NewerStands == Spec => NewerVerdictStands
  <1>1. IInv => ~(\E j \in overtaken : at[j] = "gate" /\ at'[j] = "judged")
    BY DEF IInv, Yields
  <1>2. IInv /\ [Next]_vars => [\A j \in overtaken : ~(at[j] = "gate" /\ at'[j] = "judged")]_vars
    BY <1>1
  <1> QED BY <1>2, InitScoring, StepScoring, PTL DEF Spec, NewerVerdictStands

=============================================================================
