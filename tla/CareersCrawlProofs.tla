------------------------- MODULE CareersCrawlProofs -------------------------
(***************************************************************************)
(* For any companies, sites, workers and limits: the crawl never has a     *)
(* company twice, and never imports or promotes by a cohort on which the   *)
(* legitimacy gate has not spoken.                                         *)
(***************************************************************************)
EXTENDS CareersCrawl, FiniteSetTheorems, TLAPS

(* The selection *)

\* How many elements of s are up to c.
Rank(s, c) == Cardinality({d \in s : d <= c})

\* Ranks are those of a sequence, and differ.
LEMMA RanksDiffer ==
  ASSUME NEW s \in SUBSET Nat, IsFiniteSet(s)
  PROVE  /\ \A c \in s : Rank(s, c) \in 1 .. Cardinality(s)
         /\ \A c, d \in s : c < d => Rank(s, c) < Rank(s, d)
  <1> DEFINE UpTo(c) == {d \in s : d <= c}
  <1>1. \A c \in s : IsFiniteSet(UpTo(c)) /\ Cardinality(UpTo(c)) <= Cardinality(s)
    <2>1. \A c \in s : UpTo(c) \in SUBSET s
      OBVIOUS
    <2> QED BY <2>1, FS_Subset
  <1>2. Cardinality(s) \in Nat /\ \A c \in s : Cardinality(UpTo(c)) \in Nat
    BY <1>1, FS_CardinalityType
  <1>3. \A c \in s : IsFiniteSet(UpTo(c) \ {c}) /\ Cardinality(UpTo(c) \ {c}) = Cardinality(UpTo(c)) - 1
    <2>1. \A c \in s : c \in UpTo(c)
      OBVIOUS
    <2> QED BY <1>1, <2>1, FS_RemoveElement
  <1>4. \A c \in s : Cardinality(UpTo(c) \ {c}) \in Nat
    BY <1>3, FS_CardinalityType
  <1>5. \A c \in s : Cardinality(UpTo(c)) \in 1 .. Cardinality(s)
    <2> TAKE c \in s
    <2> DEFINE m == Cardinality(UpTo(c))
    <2>1. m \in Nat /\ m - 1 \in Nat /\ m <= Cardinality(s)
      BY <1>1, <1>2, <1>3, <1>4
    <2> HIDE DEF m
    <2>2. m \in 1 .. Cardinality(s)
      BY <1>2, <2>1
    <2> QED BY <2>2 DEF m
  <1>6. ASSUME NEW c \in s, NEW d \in s, c < d PROVE Cardinality(UpTo(c)) < Cardinality(UpTo(d))
    <2>1. UpTo(c) \in SUBSET (UpTo(d) \ {d})
      <3>1. \A e \in s : e \in Nat /\ (e <= c => e <= d /\ e # d)
        BY <1>6
      <3> QED BY <3>1
    <2> HIDE DEF UpTo
    <2>2. Cardinality(UpTo(c)) <= Cardinality(UpTo(d) \ {d})
      BY <1>3, <2>1, FS_Subset
    <2> QED BY <1>2, <1>3, <2>2
  <1> QED BY <1>5, <1>6 DEF Rank

\* ORDER BY id lists every id of a finite set once.
LEMMA IdsLists ==
  ASSUME NEW s \in SUBSET Nat, IsFiniteSet(s)
  PROVE  Ids(s) \in Seq(s) /\ IsInjective(Ids(s))
  <1> DEFINE n == Cardinality(s)
             rank == [c \in s |-> Rank(s, c)]
  <1>1. n \in Nat /\ IsFiniteSet(1 .. n) /\ Cardinality(1 .. n) = n
    BY FS_CardinalityType, FS_Interval
  <1>2. rank \in Injection(s, 1 .. n)
    <2>1. rank \in [s -> 1 .. n]
      BY RanksDiffer
    <2>2. \A c, d \in s : rank[c] = rank[d] => c = d
      <3> TAKE c, d \in s
      <3>1. c \in Nat /\ d \in Nat /\ rank[c] \in Nat /\ rank[d] \in Nat
        BY <1>1, <2>1
      <3>2. (c < d => rank[c] < rank[d]) /\ (d < c => rank[d] < rank[c])
        BY RanksDiffer
      <3> QED BY <3>1, <3>2
    <2> HIDE DEF rank
    <2> QED BY <2>1, <2>2 DEF Injection, IsInjective
  <1>3. rank \in Surjection(s, 1 .. n)
    <2> HIDE DEF rank
    <2> QED BY <1>1, <1>2, FS_Injection
  <1>4. \A k \in 1 .. n : \E c \in s : Rank(s, c) = k
    BY <1>3 DEF Surjection
  <1>5. \A k \in 1 .. n : Ids(s)[k] \in s /\ Rank(s, Ids(s)[k]) = k
    BY <1>4 DEF Ids, Rank
  <1>6. Ids(s) \in [1 .. n -> s]
    <2> DEFINE At(k) == CHOOSE c \in s : Cardinality({d \in s : d <= c}) = k
    <2>1. Ids(s) = [k \in 1 .. n |-> At(k)]
      BY DEF Ids
    <2> HIDE DEF At
    <2> QED BY <1>5, <2>1
  <1> HIDE DEF n
  <1> QED BY <1>1, <1>5, <1>6 DEF IsInjective

\* A prefix, and the concatenation of two listings of different companies, repeat nothing.
LEMMA FirstLists ==
  ASSUME NEW S, NEW s \in Seq(S), IsInjective(s), NEW n \in Nat
  PROVE  First(n, s) \in Seq(S) /\ IsInjective(First(n, s))
  <1> DEFINE m == IF Len(s) < n THEN Len(s) ELSE n
  <1>1. m \in 0 .. Len(s)
    OBVIOUS
  <1>2. First(n, s) = SubSeq(s, 1, m)
    BY DEF First
  <1> HIDE DEF m
  <1>3. First(n, s) \in Seq(S) /\ Len(First(n, s)) = m /\ \A i \in 1 .. m : First(n, s)[i] = s[i]
    BY <1>1, <1>2
  <1> QED BY <1>1, <1>3 DEF IsInjective

LEMMA ConcatenationLists ==
  ASSUME NEW S, NEW s \in Seq(S), NEW t \in Seq(S), IsInjective(s), IsInjective(t),
         \A i \in DOMAIN s, k \in DOMAIN t : s[i] # t[k]
  PROVE  s \o t \in Seq(S) /\ IsInjective(s \o t)
  <1> DEFINE u == s \o t
  <1>1. /\ u \in Seq(S) /\ Len(u) = Len(s) + Len(t) /\ Len(s) \in Nat /\ Len(t) \in Nat
        /\ \A i \in 1 .. Len(u) : u[i] = IF i <= Len(s) THEN s[i] ELSE t[i - Len(s)]
    OBVIOUS
  <1> HIDE DEF u
  <1>2. ASSUME NEW i \in 1 .. Len(u), NEW k \in 1 .. Len(u), u[i] = u[k] PROVE i = k
    <2>1. CASE i <= Len(s) /\ k <= Len(s)
      BY <1>1, <1>2, <2>1 DEF IsInjective
    <2>2. CASE i > Len(s) /\ k > Len(s)
      <3>1. i - Len(s) \in DOMAIN t /\ k - Len(s) \in DOMAIN t
        BY <1>1, <2>2
      <3> QED BY <1>1, <1>2, <2>2, <3>1 DEF IsInjective
    <2>3. CASE (i <= Len(s) /\ k > Len(s)) \/ (i > Len(s) /\ k <= Len(s))
      <3>1. /\ i > Len(s) => i - Len(s) \in DOMAIN t
            /\ k > Len(s) => k - Len(s) \in DOMAIN t
        BY <1>1
      <3> QED BY <1>1, <1>2, <2>3, <3>1
    <2> QED BY <1>1, <2>1, <2>2, <2>3
  <1>3. IsInjective(u)
    BY <1>1, <1>2 DEF IsInjective
  <1> QED BY <1>1, <1>3 DEF u

-----------------------------------------------------------------------------
(* The round robin *)

\* The places of a share are places of the batch.
LEMMA PlaceInBatch ==
  ASSUME NEW n \in Nat \ {0}, NEW L \in Nat, NEW w \in 0 .. n - 1, NEW k \in Nat \ {0},
         k <= (L + n - 1 - w) \div n
  PROVE  (k - 1) * n + w + 1 \in 1 .. L
  <1> DEFINE a == L + n - 1 - w
             q == a \div n
  <1>1. a \in Nat /\ q \in Nat /\ q * n <= a
    OBVIOUS
  <1> HIDE DEF q
  <1>2. k * n <= q * n
    BY <1>1 DEF q
  <1>3. (k - 1) * n = k * n - n
    OBVIOUS
  <1>4. (k - 1) * n \in Nat
    OBVIOUS
  <1> QED BY <1>1, <1>2, <1>3, <1>4

\* Two shares have no place in common.
LEMMA PlacesDiffer ==
  ASSUME NEW n \in Nat \ {0}, NEW v \in 0 .. n - 1, NEW w \in 0 .. n - 1,
         NEW k \in Nat \ {0}, NEW l \in Nat \ {0}, (k - 1) * n + v + 1 = (l - 1) * n + w + 1
  PROVE  v = w
  <1>1. (k - l) * n = w - v
    <2>1. (k - 1) * n - (l - 1) * n = (k - l) * n
      OBVIOUS
    <2>2. (k - 1) * n \in Int /\ (l - 1) * n \in Int
      OBVIOUS
    <2> QED BY <2>1, <2>2
  <1>2. CASE k - l >= 1
    <2>1. (k - l) * n >= n
      BY <1>2
    <2> QED BY <1>1, <2>1
  <1>3. CASE l - k >= 1
    <2>1. (l - k) * n >= n /\ (l - k) * n = v - w
      BY <1>1, <1>3
    <2> QED BY <2>1
  <1>4. CASE k = l
    BY <1>4
  <1> QED BY <1>2, <1>3, <1>4

\* Workers are numbered from 0.
LEMMA WorkersNumbered ==
  /\ Cardinality(Workers) \in Nat \ {0}
  /\ Workers = 0 .. Cardinality(Workers) - 1
  <1>1. Cardinality(Workers) \in Nat
    BY CrawlAssumption, FS_CardinalityType
  <1> QED BY <1>1, CrawlAssumption

\* companies[i::n]: the shares are sequences of the batch's companies, and have none in common.
LEMMA SharesDisjoint ==
  ASSUME NEW companies \in Seq(Companies), IsInjective(companies)
  PROVE  /\ \A w \in Workers : Share(companies, w) \in Seq(Companies)
         /\ \A v, w \in Workers : v # w => ToSet(Share(companies, v)) \cap ToSet(Share(companies, w)) = {}
  <1> DEFINE n == Cardinality(Workers)
             L == Len(companies)
             Length(w) == (L + n - 1 - w) \div n
             Place(w, k) == (k - 1) * n + w + 1
  <1>1. n \in Nat \ {0} /\ L \in Nat /\ \A w \in Workers : w \in 0 .. n - 1 /\ w \in Nat
    BY WorkersNumbered
  <1>2. \A w \in Workers : Length(w) \in Nat
    BY <1>1
  <1>3. \A w \in Workers : Share(companies, w) = [k \in 1 .. Length(w) |-> companies[Place(w, k)]]
    BY DEF Share
  <1> HIDE DEF n, L
  <1>4. ASSUME NEW w \in Workers, NEW k \in 1 .. Length(w) PROVE Place(w, k) \in 1 .. L
    <2>1. k \in Nat \ {0} /\ k <= Length(w)
      BY <1>2
    <2> QED BY <1>1, <2>1, PlaceInBatch
  <1>5. ASSUME NEW v \in Workers, NEW w \in Workers, NEW k \in 1 .. Length(v), NEW l \in 1 .. Length(w),
               Place(v, k) = Place(w, l)
        PROVE  v = w
    <2>1. k \in Nat \ {0} /\ l \in Nat \ {0}
      BY <1>2
    <2> HIDE DEF Length
    <2> QED BY <1>1, <1>5, <2>1, PlacesDiffer
  <1> HIDE DEF Length, Place
  <1>6. L = Len(companies)
    BY DEF L
  <1>7. ASSUME NEW w \in Workers PROVE Share(companies, w) \in Seq(Companies)
    BY <1>2, <1>3, <1>4, <1>6
  <1>8. ASSUME NEW v \in Workers, NEW w \in Workers, v # w
        PROVE  ToSet(Share(companies, v)) \cap ToSet(Share(companies, w)) = {}
    <2> SUFFICES ASSUME NEW c, c \in ToSet(Share(companies, v)), c \in ToSet(Share(companies, w)) PROVE FALSE
      OBVIOUS
    <2>1. PICK k \in 1 .. Length(v) : c = companies[Place(v, k)]
      BY <1>3 DEF ToSet
    <2>2. PICK l \in 1 .. Length(w) : c = companies[Place(w, l)]
      BY <1>3 DEF ToSet
    <2>3. Place(v, k) \in DOMAIN companies /\ Place(w, l) \in DOMAIN companies
      BY <1>4, <1>6
    <2>4. Place(v, k) = Place(w, l)
      BY <2>1, <2>2, <2>3 DEF IsInjective
    <2> QED BY <1>5, <1>8, <2>4
  <1> QED BY <1>7, <1>8

\* Whoever is selected is selected once.
LEMMA SelectionLists ==
  ASSUME TypeOK
  PROVE  Selection \in Seq(Companies) /\ IsInjective(Selection)
  <1> DEFINE A == {c \in Rediscovered : row[c].crawled = "never"}
             B == {c \in Rediscovered : row[c].crawled # "never"}
             C == Originated
             o == First(Limit, Ids(C))
  <1>1. /\ A \in SUBSET Companies /\ B \in SUBSET Companies /\ C \in SUBSET Companies
        /\ A \cap B = {} /\ A \cap C = {} /\ B \cap C = {}
    BY DEF Rediscovered, Originated
  <1> HIDE DEF A, B, C
  <1>2. \A s \in {A, B, C} : s \in SUBSET Nat /\ IsFiniteSet(s)
    BY <1>1, CrawlAssumption, FS_Subset
  <1>3. \A s \in {A, B, C} : Ids(s) \in Seq(s) /\ IsInjective(Ids(s))
    BY <1>2, IdsLists
  <1>4. o \in Seq(C) /\ IsInjective(o)
    BY <1>3, CrawlAssumption, FirstLists
  <1> HIDE DEF o
  <1>5. Ids(A) \o Ids(B) \in Seq(A \cup B) /\ IsInjective(Ids(A) \o Ids(B))
    <2>1. Ids(A) \in Seq(A \cup B) /\ Ids(B) \in Seq(A \cup B)
      BY <1>3
    <2>2. \A i \in DOMAIN Ids(A), k \in DOMAIN Ids(B) : Ids(A)[i] # Ids(B)[k]
      BY <1>1, <1>3
    <2> QED BY <1>3, <2>1, <2>2, ConcatenationLists
  <1> DEFINE r == Ids(A) \o Ids(B)
  <1> HIDE DEF r
  <1>6. r \in Seq(A \cup B) /\ IsInjective(r)
    BY <1>5 DEF r
  <1>7. r \o o \in Seq(Companies) /\ IsInjective(r \o o)
    <2>1. r \in Seq(Companies) /\ o \in Seq(Companies)
      BY <1>1, <1>4, <1>6
    <2>2. \A i \in DOMAIN r, k \in DOMAIN o : r[i] # o[k]
      BY <1>1, <1>4, <1>6
    <2> QED BY <1>4, <1>6, <2>1, <2>2, ConcatenationLists
  <1> QED BY <1>7 DEF Selection, r, o, A, B, C

-----------------------------------------------------------------------------
(* The invariant *)

\* The tiers that have found nothing yet.
Searching == {"cached", "api", "sitemap", "static", "playwright"}

\* A worker's progress: what it holds at each place of the chain.
Sound(k) ==
    /\ k.at = "idle" => k.company = 0
    /\ k.at # "idle" => k.company \in Companies
    /\ k.at \in Searching => k.jobs = "none"
    /\ k.at \in Searching \cup {"link"} => ~k.flagged
    /\ k.at = "link" => k.jobs # "vetted"
    /\ k.at \in {"opportunity", "upsert", "stamp"} => k.jobs # "unvetted"
    /\ k.flagged => k.jobs = "none"

(***************************************************************************)
(* OnlyVettedIsUsed is about the end of the chain; it is inductive with    *)
(* what is known before: no tier hands its postings on unless it ends the  *)
(* search, and a flag is set where the postings are dropped.               *)
(***************************************************************************)
IInv == TypeOK /\ NobodyTwice /\ \A w \in Workers : Sound(work[w])

LEMMA IInvImplies == IInv => Inv
  BY DEF IInv, Inv, OnlyVettedIsUsed, Sound, TypeOK, Crawling

\* A worker's record with one field set is a record.
LEMMA FieldSet ==
  ASSUME NEW k \in Crawling
  PROVE  /\ \A v \in Places : [k EXCEPT !.at = v] \in Crawling
         /\ \A v \in {"none", "unvetted", "vetted"} : [k EXCEPT !.jobs = v] \in Crawling
         /\ \A v \in Tiers : [k EXCEPT !.tier = v] \in Crawling
         /\ \A v \in BOOLEAN : /\ [k EXCEPT !.endpoint = v] \in Crawling
                               /\ [k EXCEPT !.rendered = v] \in Crawling
                               /\ [k EXCEPT !.flagged = v] \in Crawling
  BY DEF Crawling

\* So is a row of the table.
LEMMA ColumnSet ==
  ASSUME NEW r \in Rows
  PROVE  /\ \A v \in {"never", "today", "earlier"} : [r EXCEPT !.crawled = v] \in Rows
         /\ \A v \in BOOLEAN : /\ [r EXCEPT !.held = v] \in Rows
                               /\ [r EXCEPT !.flagged = v] \in Rows
                               /\ [r EXCEPT !.liked = v] \in Rows
                               /\ [r EXCEPT !.endpoint = v] \in Rows
                               /\ [r EXCEPT !.matched = v] \in Rows
                               /\ [r EXCEPT !.link = v] \in Rows
         /\ \A v \in Tiers : [r EXCEPT !.tier = v] \in Rows
         /\ \A v \in SUBSET (0 .. Window - 1) : [r EXCEPT !.strikes = v] \in Rows
  BY DEF Rows

\* An UPDATE of the company's row.
LEMMA WritesRow ==
  ASSUME IInv, NEW w \in Workers, work[w].at # "idle", NEW new \in Rows, Writes(w, new)
  PROVE  row' \in [Companies -> Rows]
  BY DEF IInv, TypeOK, Sound, Writes

\* A worker goes on with its company, or is done with it.
LEMMA GoesKeeps ==
  ASSUME IInv, NEW w \in Workers, work[w].at # "idle", NEW new \in Crawling, Sound(new),
         new.company \in {work[w].company, 0}, Goes(w, new), row' \in [Companies -> Rows]
  PROVE  IInv'
  <1>1. /\ batch' = batch /\ started' = started /\ kills' = kills
        /\ work' = [work EXCEPT ![w] = new]
    BY DEF Goes
  <1>2. work' \in [Workers -> Crawling] /\ work'[w] = new /\ \A v \in Workers \ {w} : work'[v] = work[v]
    BY <1>1 DEF IInv, TypeOK
  <1>3. TypeOK'
    BY <1>1, <1>2 DEF IInv, TypeOK
  <1>4. \A v \in Workers : Sound(work'[v])
    BY <1>2 DEF IInv
  <1>5. 0 \notin Companies /\ work[w].company \in Companies
    BY CrawlAssumption DEF IInv, Sound
  <1>6. \A v, u \in Workers : v # u /\ work'[v].at # "idle" =>
          work'[v].company \notin ToSet(batch[u]) \cup {work'[u].company}
    <2> SUFFICES ASSUME NEW v \in Workers, NEW u \in Workers, v # u, work'[v].at # "idle"
                 PROVE  work'[v].company \notin ToSet(batch[u]) \cup {work'[u].company}
      OBVIOUS
    <2>1. work'[v].company \in Companies
      BY <1>4 DEF Sound
    <2>2. work'[v].company = work[v].company /\ work[v].at # "idle"
      BY <1>2, <1>5, <2>1
    <2>3. work'[u].company \in {work[u].company, 0}
      BY <1>2
    <2> QED BY <1>5, <2>1, <2>2, <2>3 DEF IInv, NobodyTwice
  <1>7. NobodyTwice'
    BY <1>1, <1>6 DEF IInv, NobodyTwice
  <1> QED BY <1>3, <1>4, <1>7 DEF IInv

-----------------------------------------------------------------------------
(* Batches *)

LEMMA IdleIsSound == Idle \in Crawling /\ Sound(Idle) /\ Idle.at = "idle" /\ Idle.company = 0
  BY DEF Idle, Crawling, Places, Tiers, Sound, Searching

\* A batch is dealt out while nobody is at work.
LEMMA SelectsBatchKeeps ==
  ASSUME IInv, SelectsBatch
  PROVE  IInv'
  <1>1. /\ \A w \in Workers : Share(Selection, w) \in Seq(Companies)
        /\ \A v, w \in Workers : v # w => ToSet(Share(Selection, v)) \cap ToSet(Share(Selection, w)) = {}
    BY SelectionLists, SharesDisjoint DEF IInv
  <1>2. /\ batch' = [w \in Workers |-> Share(Selection, w)] /\ started' = {}
        /\ row' = row /\ work' = work /\ kills' = kills
        /\ \A w \in Workers : work[w].at = "idle"
    BY DEF SelectsBatch, Quiet
  <1>3. \A w \in Workers : batch'[w] = Share(Selection, w)
    BY <1>2
  <1>4. TypeOK'
    <2>1. batch' \in [Workers -> Seq(Companies)]
      BY <1>1, <1>2
    <2> QED BY <1>2, <2>1 DEF IInv, TypeOK
  <1>5. NobodyTwice'
    BY <1>1, <1>2, <1>3 DEF NobodyTwice
  <1> QED BY <1>2, <1>4, <1>5 DEF IInv

\* A batch that only loses companies, from workers that go on as they were or give up.
LEMMA DropsKeeps ==
  ASSUME IInv, UNCHANGED row, started' \subseteq Workers, kills' \in 0 .. MaxKills,
         batch' \in [Workers -> Seq(Companies)], work' \in [Workers -> Crawling],
         \A w \in Workers : ToSet(batch'[w]) \subseteq ToSet(batch[w]),
         \A w \in Workers : work'[w] \in {work[w], Idle}
  PROVE  IInv'
  <1>1. TypeOK'
    BY DEF IInv, TypeOK
  <1>2. \A w \in Workers : Sound(work'[w])
    BY IdleIsSound DEF IInv
  <1>3. NobodyTwice'
    <2> SUFFICES ASSUME NEW v \in Workers, NEW w \in Workers, v # w
                 PROVE  /\ ToSet(batch'[v]) \cap ToSet(batch'[w]) = {}
                        /\ work'[v].at # "idle" => work'[v].company \notin ToSet(batch'[w]) \cup {work'[w].company}
      BY DEF NobodyTwice
    <2>1. ToSet(batch'[v]) \cap ToSet(batch'[w]) = {}
      BY DEF IInv, NobodyTwice
    <2>2. ASSUME work'[v].at # "idle" PROVE work'[v].company \notin ToSet(batch'[w]) \cup {work'[w].company}
      <3>1. work'[v] = work[v] /\ work[v].company \in Companies /\ work[v].at # "idle"
        BY <1>2, <2>2, IdleIsSound DEF Sound
      <3>2. work[v].company \notin ToSet(batch[w]) \cup {work[w].company}
        BY <3>1 DEF IInv, NobodyTwice
      <3>3. 0 \notin Companies
        BY CrawlAssumption
      <3> QED BY <3>1, <3>2, <3>3, IdleIsSound
    <2> QED BY <2>1, <2>2
  <1> QED BY <1>1, <1>2, <1>3 DEF IInv

LEMMA EmptyShare == <<>> \in Seq(Companies) /\ ToSet(<<>>) = {}
  BY DEF ToSet

LEMMA LaunchKeeps ==
  ASSUME IInv, NEW w \in Workers, BrowserStarts(w) \/ LaunchFails(w)
  PROVE  IInv'
  <1>1. CASE BrowserStarts(w)
    <2>1. batch' = batch /\ work' = work /\ row' = row /\ kills' = kills /\ started' = started \cup {w}
      BY <1>1 DEF BrowserStarts
    <2> QED BY <2>1, DropsKeeps DEF IInv, TypeOK
  <1>2. CASE LaunchFails(w)
    <2>1. batch' = [batch EXCEPT ![w] = <<>>] /\ work' = work /\ row' = row /\ kills' = kills /\ started' = started
      BY <1>2 DEF LaunchFails
    <2>2. batch' \in [Workers -> Seq(Companies)] /\ \A v \in Workers : ToSet(batch'[v]) \subseteq ToSet(batch[v])
      BY <2>1, EmptyShare DEF IInv, TypeOK
    <2> QED BY <2>1, <2>2, DropsKeeps DEF IInv, TypeOK
  <1> QED BY <1>1, <1>2

LEMMA KilledKeeps ==
  ASSUME IInv, Killed
  PROVE  IInv'
  <1>1. /\ batch' = [w \in Workers |-> <<>>] /\ work' = [w \in Workers |-> Idle] /\ row' = row
        /\ started' = started /\ kills' = kills + 1 /\ kills < MaxKills
    BY DEF Killed
  <1>2. /\ batch' \in [Workers -> Seq(Companies)] /\ work' \in [Workers -> Crawling]
        /\ \A w \in Workers : ToSet(batch'[w]) \subseteq ToSet(batch[w]) /\ work'[w] = Idle
    BY <1>1, EmptyShare, IdleIsSound
  <1>3. kills' \in 0 .. MaxKills /\ started' \subseteq Workers
    BY <1>1, CrawlAssumption DEF IInv, TypeOK
  <1> QED BY <1>1, <1>2, <1>3, DropsKeeps

\* A worker takes the first company of its share, or passes it over.
LEMMA TakesKeeps ==
  ASSUME IInv, NEW w \in Workers, Takes(w)
  PROVE  IInv'
  <1> DEFINE c == Head(batch[w])
  <1>1. /\ batch[w] \in Seq(Companies) /\ batch[w] # <<>> /\ work[w].at = "idle"
        /\ batch' = [batch EXCEPT ![w] = Tail(batch[w])]
        /\ row' = row /\ started' = started /\ kills' = kills
    BY DEF Takes, IInv, TypeOK
  <1>2. /\ Tail(batch[w]) \in Seq(Companies) /\ c \in Companies /\ c \in ToSet(batch[w])
        /\ ToSet(Tail(batch[w])) \subseteq ToSet(batch[w])
    <2>1. /\ DOMAIN batch[w] = 1 .. Len(batch[w]) /\ Len(batch[w]) \in Nat \ {0} /\ c = batch[w][1]
          /\ DOMAIN Tail(batch[w]) = 1 .. Len(batch[w]) - 1
          /\ \A i \in 1 .. Len(batch[w]) - 1 : Tail(batch[w])[i] = batch[w][i + 1]
      BY <1>1
    <2> QED BY <1>1, <2>1 DEF ToSet
  <1>3. /\ batch' \in [Workers -> Seq(Companies)]
        /\ \A v \in Workers : ToSet(batch'[v]) \subseteq ToSet(batch[v])
    BY <1>1, <1>2 DEF IInv, TypeOK
  <1>4. CASE c \in Blocked
    <2>1. work' = work
      BY <1>4 DEF Takes
    <2> QED BY <1>1, <1>3, <2>1, DropsKeeps DEF IInv, TypeOK
  <1>5. CASE c \notin Blocked
    <2> DEFINE new == [Idle EXCEPT !.at = "cached", !.company = c, !.tier = "static", !.endpoint = row[c].endpoint]
    <2>1. row[c].endpoint \in BOOLEAN
      BY <1>2 DEF IInv, TypeOK, Rows
    <2>2. new \in Crawling /\ Sound(new) /\ new.company = c
      BY <1>2, <2>1 DEF Idle, Crawling, Places, Tiers, Sound, Searching
    <2>3. work' = [work EXCEPT ![w] = new]
      BY <1>5 DEF Takes
    <2> HIDE DEF new, c
    <2>4. work' \in [Workers -> Crawling] /\ work'[w] = new /\ \A v \in Workers \ {w} : work'[v] = work[v]
      BY <2>2, <2>3 DEF IInv, TypeOK
    <2>5. TypeOK'
      BY <1>1, <1>3, <2>4 DEF IInv, TypeOK
    <2>6. \A v \in Workers : Sound(work'[v])
      BY <2>2, <2>4 DEF IInv
    <2>7. NobodyTwice'
      <3> SUFFICES ASSUME NEW v \in Workers, NEW u \in Workers, v # u
                   PROVE  /\ ToSet(batch'[v]) \cap ToSet(batch'[u]) = {}
                          /\ work'[v].at # "idle" => work'[v].company \notin ToSet(batch'[u]) \cup {work'[u].company}
        BY DEF NobodyTwice
      <3>1. ToSet(batch[v]) \cap ToSet(batch[u]) = {}
        BY DEF IInv, NobodyTwice
      <3>2. ASSUME NEW x \in Workers, x # w PROVE work[x].company # c
        <4>1. work[x].at # "idle" => work[x].company \notin ToSet(batch[w])
          BY <3>2 DEF IInv, NobodyTwice
        <4>2. work[x].at = "idle" => work[x].company \notin Companies
          BY CrawlAssumption DEF IInv, Sound
        <4> QED BY <1>2, <4>1, <4>2
      <3>3. CASE v = w
        BY <1>2, <1>3, <2>2, <2>4, <3>1, <3>2, <3>3
      <3>4. CASE u = w
        BY <1>2, <1>3, <2>2, <2>4, <3>1, <3>2, <3>4 DEF IInv, NobodyTwice
      <3>5. CASE v # w /\ u # w
        BY <1>3, <2>4, <3>1, <3>5 DEF IInv, NobodyTwice
      <3> QED BY <3>3, <3>4, <3>5
    <2> QED BY <2>5, <2>6, <2>7 DEF IInv
  <1> QED BY <1>4, <1>5

-----------------------------------------------------------------------------
(* The chain *)

\* What is known of a worker that has a company, and of that company's row.
LEMMA AtWork ==
  ASSUME IInv, NEW w \in Workers, work[w].at # "idle"
  PROVE  /\ work[w] \in Crawling /\ Sound(work[w]) /\ On(w) \in Rows
         /\ row \in [Companies -> Rows] /\ work[w].company \in Companies
  BY DEF IInv, TypeOK, Sound, On

\* The same company at another place, holding what may be held there.
LEMMA MovesKeeps ==
  ASSUME IInv, NEW w \in Workers, work[w].at # "idle", NEW new \in Crawling, new.at # "idle",
         new.company = work[w].company, Goes(w, new), row' \in [Companies -> Rows],
         new.at \in Searching => new.jobs = "none",
         new.at \in Searching \cup {"link"} => ~new.flagged,
         new.at = "link" => new.jobs # "vetted",
         new.at \in {"opportunity", "upsert", "stamp"} => new.jobs # "unvetted",
         new.flagged => new.jobs = "none"
  PROVE  IInv'
  <1>1. Sound(new)
    BY AtWork DEF Sound
  <1> QED BY <1>1, GoesKeeps

LEMMA PassesKeeps ==
  ASSUME IInv, NEW w \in Workers, work[w].at # "idle", NEW next \in Places \ {"idle"}, PassesTo(w, next),
         next \in Searching => work[w].at \in Searching,
         next = "link" => work[w].at \in Searching,
         next \in {"opportunity", "upsert", "stamp"} => work[w].jobs # "unvetted"
  PROVE  IInv'
  <1> DEFINE new == [work[w] EXCEPT !.at = next]
  <1>1. Goes(w, new) /\ row' = row
    BY DEF PassesTo
  <1>2. new \in Crawling
    BY AtWork, FieldSet
  <1>3. /\ new.at = next /\ new.company = work[w].company /\ new.jobs = work[w].jobs
        /\ new.flagged = work[w].flagged
    BY AtWork DEF Crawling
  <1> HIDE DEF new
  <1> QED BY <1>1, <1>2, <1>3, AtWork, MovesKeeps DEF Sound

\* A tier that finds postings ends the search, and hands them to the gate.
LEMMA FindsKeeps ==
  ASSUME IInv, NEW w \in Workers, work[w].at \in Searching, NEW tier \in Tiers, FindsAt(w, tier),
         row' \in [Companies -> Rows]
  PROVE  IInv'
  <1> DEFINE new == [work[w] EXCEPT !.at = "gate", !.jobs = "unvetted", !.tier = tier, !.endpoint = FALSE]
  <1>1. work[w].at # "idle"
    BY DEF Searching
  <1>2. new \in Crawling
    <2>1. [work[w] EXCEPT !.at = "gate", !.jobs = "unvetted"] \in Crawling
      BY <1>1, AtWork, FieldSet DEF Places
    <2>2. [work[w] EXCEPT !.at = "gate", !.jobs = "unvetted", !.tier = tier] \in Crawling
      BY <2>1, FieldSet
    <2> QED BY <2>2, FieldSet
  <1>3. /\ new.at = "gate" /\ new.company = work[w].company /\ new.jobs = "unvetted"
        /\ new.flagged = work[w].flagged
    BY <1>1, AtWork DEF Crawling
  <1>4. Goes(w, new)
    BY DEF FindsAt
  <1>5. ~new.flagged
    BY <1>1, <1>3, AtWork DEF Sound
  <1> HIDE DEF new
  <1> QED BY <1>1, <1>2, <1>3, <1>4, <1>5, MovesKeeps DEF Searching

LEMMA CachedTierKeeps ==
  ASSUME IInv, NEW w \in Workers, CachedTier(w)
  PROVE  IInv'
  <1>1. work[w].at = "cached" /\ work[w].at \in Searching /\ work[w].at # "idle"
    BY DEF CachedTier, Searching
  <1>2. {"api_cached", "url_param", "playwright"} \subseteq Tiers /\ "api" \in Places \ {"idle"}
    BY DEF Tiers, Places
  <1>3. ASSUME NEW tier \in {"api_cached", "url_param"}, FindsAt(w, tier), UNCHANGED row PROVE IInv'
    BY <1>1, <1>2, <1>3, AtWork, FindsKeeps
  <1>4. ASSUME NEW discovered \in BOOLEAN, FindsAt(w, "playwright"),
               Writes(w, [On(w) EXCEPT !.endpoint = @ \/ discovered])
        PROVE  IInv'
    <2>1. On(w) \in Rows /\ On(w).endpoint \in BOOLEAN
      BY <1>1, AtWork DEF Rows
    <2>2. [On(w) EXCEPT !.endpoint = On(w).endpoint \/ discovered] \in Rows
      BY <2>1, ColumnSet
    <2>3. row' \in [Companies -> Rows]
      BY <1>1, <1>4, <2>2, WritesRow
    <2> QED BY <1>1, <1>2, <1>4, <2>3, FindsKeeps
  <1>5. CASE PassesTo(w, "api")
    BY <1>1, <1>2, <1>5, PassesKeeps
  <1>6. ("api" \in Site(w)) \in BOOLEAN
    OBVIOUS
  <1> QED BY <1>3, <1>4, <1>5, <1>6 DEF CachedTier

LEMMA CachedApiKeeps ==
  ASSUME IInv, NEW w \in Workers, CachedApi(w)
  PROVE  IInv'
  <1>1. work[w].at = "api" /\ work[w].at \in Searching /\ work[w].at # "idle"
    BY DEF CachedApi, Searching
  <1>2. {"api_cached"} \subseteq Tiers /\ {"sitemap", "gate"} \subseteq Places \ {"idle"}
    BY DEF Tiers, Places
  <1>3. work[w] \in Crawling /\ Sound(work[w]) /\ On(w) \in Rows /\ row \in [Companies -> Rows]
    BY <1>1, AtWork
  <1>4. CASE PassesTo(w, "sitemap")
    BY <1>1, <1>2, <1>4, PassesKeeps
  <1>5. CASE FindsAt(w, "api_cached") /\ UNCHANGED row
    BY <1>1, <1>2, <1>3, <1>5, FindsKeeps
  <1>6. ASSUME NEW new, new = [work[w] EXCEPT !.at = "gate", !.tier = "api_cached", !.endpoint = FALSE],
               Goes(w, new), UNCHANGED row
        PROVE  IInv'
    <2>1. new \in Crawling
      BY <1>2, <1>3, <1>6, FieldSet
    <2>2. /\ new.at = "gate" /\ new.company = work[w].company /\ new.jobs = work[w].jobs
          /\ new.flagged = work[w].flagged
      BY <1>3, <1>6 DEF Crawling
    <2> QED BY <1>1, <1>3, <1>6, <2>1, <2>2, MovesKeeps DEF Searching, Sound
  <1>7. ASSUME NEW new, new = [work[w] EXCEPT !.at = "sitemap", !.endpoint = FALSE],
               Goes(w, new), Writes(w, [On(w) EXCEPT !.endpoint = FALSE])
        PROVE  IInv'
    <2>1. new \in Crawling
      BY <1>2, <1>3, <1>7, FieldSet
    <2>2. /\ new.at = "sitemap" /\ new.company = work[w].company /\ new.jobs = work[w].jobs
          /\ new.flagged = work[w].flagged
      BY <1>3, <1>7 DEF Crawling
    <2>3. row' \in [Companies -> Rows]
      BY <1>1, <1>3, <1>7, ColumnSet, WritesRow
    <2> QED BY <1>1, <1>3, <1>7, <2>1, <2>2, <2>3, MovesKeeps DEF Searching, Sound
  <1> QED BY <1>4, <1>5, <1>6, <1>7 DEF CachedApi

LEMMA SitemapKeeps ==
  ASSUME IInv, NEW w \in Workers, Sitemap(w)
  PROVE  IInv'
  <1>1. work[w].at = "sitemap" /\ work[w].at \in Searching /\ work[w].at # "idle"
    BY DEF Sitemap, Searching
  <1>2. {"sitemap"} \subseteq Tiers /\ {"static", "gate"} \subseteq Places \ {"idle"}
    BY DEF Tiers, Places
  <1>3. work[w] \in Crawling /\ Sound(work[w]) /\ On(w) \in Rows /\ row \in [Companies -> Rows]
    BY <1>1, AtWork
  <1>4. CASE PassesTo(w, "static")
    BY <1>1, <1>2, <1>4, PassesKeeps DEF Searching
  <1>5. ASSUME NEW new, new = [work[w] EXCEPT !.at = "gate", !.jobs = "vetted", !.tier = "sitemap"],
               Goes(w, new), UNCHANGED row
        PROVE  IInv'
    <2>1. new \in Crawling
      BY <1>2, <1>3, <1>5, FieldSet
    <2>2. /\ new.at = "gate" /\ new.company = work[w].company /\ new.jobs = "vetted"
          /\ new.flagged = work[w].flagged
      BY <1>3, <1>5 DEF Crawling
    <2> QED BY <1>1, <1>3, <1>5, <2>1, <2>2, MovesKeeps DEF Searching, Sound
  <1>6. ASSUME NEW new, new = [work[w] EXCEPT !.at = "gate", !.flagged = TRUE],
               Goes(w, new), Writes(w, [On(w) EXCEPT !.flagged = TRUE])
        PROVE  IInv'
    <2>1. new \in Crawling
      BY <1>2, <1>3, <1>6, FieldSet
    <2>2. new.at = "gate" /\ new.company = work[w].company /\ new.jobs = work[w].jobs
      BY <1>3, <1>6 DEF Crawling
    <2>3. row' \in [Companies -> Rows]
      BY <1>1, <1>3, <1>6, ColumnSet, WritesRow
    <2> QED BY <1>1, <1>3, <1>6, <2>1, <2>2, <2>3, MovesKeeps DEF Searching, Sound
  <1> QED BY <1>4, <1>5, <1>6 DEF Sitemap

LEMMA PlainTiersKeeps ==
  ASSUME IInv, NEW w \in Workers, PlainTiers(w)
  PROVE  IInv'
  <1>1. work[w].at = "static" /\ work[w].at \in Searching /\ work[w].at # "idle"
    BY DEF PlainTiers, Searching
  <1>2. {"static", "url_param", "embedded_json"} \subseteq Tiers /\ "playwright" \in Places \ {"idle"}
    BY DEF Tiers, Places
  <1>3. row \in [Companies -> Rows]
    BY <1>1, AtWork
  <1>4. CASE PassesTo(w, "playwright")
    BY <1>1, <1>2, <1>4, PassesKeeps
  <1>5. ASSUME NEW tier \in {"static", "url_param", "embedded_json"}, FindsAt(w, tier), UNCHANGED row
        PROVE  IInv'
    BY <1>1, <1>2, <1>3, <1>5, FindsKeeps
  <1> QED BY <1>4, <1>5 DEF PlainTiers

LEMMA PlaywrightKeeps ==
  ASSUME IInv, NEW w \in Workers, Playwright(w)
  PROVE  IInv'
  <1>1. work[w].at = "playwright" /\ work[w].at \in Searching /\ work[w].at # "idle"
    BY DEF Playwright, Searching
  <1>2. {"playwright"} \subseteq Tiers /\ {"link"} \subseteq Places \ {"idle"}
    BY DEF Tiers, Places
  <1>3. work[w] \in Crawling /\ Sound(work[w]) /\ On(w) \in Rows /\ On(w).endpoint \in BOOLEAN
    BY <1>1, AtWork DEF Rows
  <1>4. PICK found \in BOOLEAN, rendered \in BOOLEAN, discovered \in BOOLEAN :
          /\ Goes(w, [work[w] EXCEPT !.at = "link", !.jobs = IF found THEN "unvetted" ELSE @,
                                     !.tier = "playwright", !.rendered = rendered])
          /\ Writes(w, [On(w) EXCEPT !.endpoint = @ \/ discovered])
    BY DEF Playwright
  <1> DEFINE jobs == IF found THEN "unvetted" ELSE work[w].jobs
             new == [work[w] EXCEPT !.at = "link", !.jobs = jobs, !.tier = "playwright", !.rendered = rendered]
  <1>5. jobs \in {"none", "unvetted"}
    BY <1>1, <1>3 DEF Sound
  <1>6. Goes(w, new)
    BY <1>4
  <1> HIDE DEF jobs
  <1>7. new \in Crawling
    <2>1. [work[w] EXCEPT !.at = "link", !.jobs = jobs] \in Crawling
      BY <1>2, <1>3, <1>5, FieldSet
    <2>2. [work[w] EXCEPT !.at = "link", !.jobs = jobs, !.tier = "playwright"] \in Crawling
      BY <1>2, <2>1, FieldSet
    <2> QED BY <2>2, FieldSet
  <1>8. /\ new.at = "link" /\ new.company = work[w].company /\ new.jobs = jobs
        /\ new.flagged = work[w].flagged
    BY <1>3 DEF Crawling
  <1>9. row' \in [Companies -> Rows]
    <2>1. [On(w) EXCEPT !.endpoint = On(w).endpoint \/ discovered] \in Rows
      BY <1>3, ColumnSet
    <2> QED BY <1>1, <1>4, <2>1, WritesRow
  <1> HIDE DEF new
  <1> QED BY <1>1, <1>3, <1>5, <1>6, <1>7, <1>8, <1>9, MovesKeeps DEF Searching, Sound

\* A promotion, or none, leaves a row.
LEMMA PromotionIsRow ==
  ASSUME NEW w, NEW r \in Rows
  PROVE  Promotion(w, r) \subseteq Rows
  BY ColumnSet DEF Promotion

LEMMA LinkInChainKeeps ==
  ASSUME IInv, NEW w \in Workers, LinkInChain(w)
  PROVE  IInv'
  <1>1. work[w].at = "link" /\ work[w].at # "idle"
    BY DEF LinkInChain
  <1>2. "gate" \in Places \ {"idle"}
    BY DEF Places
  <1>3. work[w] \in Crawling /\ Sound(work[w]) /\ On(w) \in Rows
    BY <1>1, AtWork
  <1>4. CASE PassesTo(w, "gate")
    BY <1>1, <1>2, <1>4, PassesKeeps DEF Searching
  <1>5. ASSUME Goes(w, [work[w] EXCEPT !.at = "gate"]), NEW r \in Promotion(w, On(w)), Writes(w, r)
        PROVE  IInv'
    <2> DEFINE new == [work[w] EXCEPT !.at = "gate"]
    <2>1. new \in Crawling
      BY <1>2, <1>3, FieldSet
    <2>2. /\ new.at = "gate" /\ new.company = work[w].company /\ new.jobs = work[w].jobs
          /\ new.flagged = work[w].flagged
      BY <1>3 DEF Crawling
    <2>3. row' \in [Companies -> Rows]
      BY <1>1, <1>3, <1>5, PromotionIsRow, WritesRow
    <2> HIDE DEF new
    <2> QED BY <1>1, <1>3, <1>5, <2>1, <2>2, <2>3, MovesKeeps DEF Searching, Sound, new
  <1> QED BY <1>4, <1>5 DEF LinkInChain

\* The gate: the postings are vetted, or dropped with the flag.
LEMMA GateKeeps ==
  ASSUME IInv, NEW w \in Workers, Gate(w)
  PROVE  IInv'
  <1>1. work[w].at = "gate" /\ work[w].at # "idle"
    BY DEF Gate
  <1>2. "opportunity" \in Places \ {"idle"}
    BY DEF Places
  <1>3. work[w] \in Crawling /\ Sound(work[w]) /\ On(w) \in Rows /\ row \in [Companies -> Rows]
    BY <1>1, AtWork
  <1>4. CASE work[w].jobs # "unvetted" /\ PassesTo(w, "opportunity")
    BY <1>1, <1>2, <1>4, PassesKeeps DEF Searching
  <1>5. ASSUME NEW new, new = [work[w] EXCEPT !.at = "opportunity", !.jobs = "vetted"],
               work[w].jobs = "unvetted", Goes(w, new), UNCHANGED row
        PROVE  IInv'
    <2>1. new \in Crawling
      BY <1>2, <1>3, <1>5, FieldSet
    <2>2. /\ new.at = "opportunity" /\ new.company = work[w].company /\ new.jobs = "vetted"
          /\ new.flagged = work[w].flagged
      BY <1>3, <1>5 DEF Crawling
    <2> QED BY <1>1, <1>3, <1>5, <2>1, <2>2, MovesKeeps DEF Searching, Sound
  <1>6. ASSUME NEW new, new = [work[w] EXCEPT !.at = "opportunity", !.jobs = "none", !.flagged = TRUE],
               Goes(w, new), Writes(w, [On(w) EXCEPT !.flagged = TRUE])
        PROVE  IInv'
    <2>1. [work[w] EXCEPT !.at = "opportunity", !.jobs = "none"] \in Crawling
      BY <1>2, <1>3, FieldSet
    <2>2. new \in Crawling
      BY <1>6, <2>1, FieldSet
    <2>3. new.at = "opportunity" /\ new.company = work[w].company /\ new.jobs = "none"
      BY <1>3, <1>6 DEF Crawling
    <2>4. row' \in [Companies -> Rows]
      BY <1>1, <1>3, <1>6, ColumnSet, WritesRow
    <2> QED BY <1>1, <1>6, <2>2, <2>3, <2>4, MovesKeeps DEF Searching
  <1> QED BY <1>4, <1>5, <1>6 DEF Gate

LEMMA LinkAfterwardsKeeps ==
  ASSUME IInv, NEW w \in Workers, LinkAfterwards(w)
  PROVE  IInv'
  <1>1. work[w].at = "opportunity" /\ work[w].at # "idle"
    BY DEF LinkAfterwards
  <1>2. {"upsert"} \subseteq Places
    BY DEF Places
  <1>3. work[w] \in Crawling /\ Sound(work[w]) /\ On(w) \in Rows /\ row \in [Companies -> Rows]
    BY <1>1, AtWork
  <1>4. ASSUME NEW new \in {[work[w] EXCEPT !.at = "upsert"], [work[w] EXCEPT !.at = "upsert", !.rendered = FALSE]},
               Goes(w, new), row' \in [Companies -> Rows]
        PROVE  IInv'
    <2>1. new \in Crawling
      <3>1. [work[w] EXCEPT !.at = "upsert"] \in Crawling
        BY <1>2, <1>3, FieldSet
      <3>2. [work[w] EXCEPT !.at = "upsert", !.rendered = FALSE] \in Crawling
        BY <3>1, FieldSet
      <3> QED BY <1>4, <3>1, <3>2
    <2>2. /\ new.at = "upsert" /\ new.company = work[w].company /\ new.jobs = work[w].jobs
          /\ new.flagged = work[w].flagged
      BY <1>3 DEF Crawling
    <2> QED BY <1>1, <1>3, <1>4, <2>1, <2>2, MovesKeeps DEF Searching, Sound
  <1>5. ASSUME NEW r \in Promotion(w, On(w)), Writes(w, r) PROVE row' \in [Companies -> Rows]
    BY <1>1, <1>3, <1>5, PromotionIsRow, WritesRow
  <1> QED BY <1>3, <1>4, <1>5 DEF LinkAfterwards

LEMMA UpsertsKeeps ==
  ASSUME IInv, NEW w \in Workers, Upserts(w)
  PROVE  IInv'
  <1>1. work[w].at = "upsert" /\ work[w].at # "idle"
    BY DEF Upserts
  <1>2. work[w] \in Crawling /\ Sound(work[w]) /\ On(w) \in Rows /\ On(w).liked \in BOOLEAN
    BY <1>1, AtWork DEF Rows
  <1> DEFINE new == [work[w] EXCEPT !.at = "stamp"]
  <1>3. new \in Crawling
    BY <1>2, FieldSet DEF Places
  <1>4. /\ new.at = "stamp" /\ new.company = work[w].company /\ new.jobs = work[w].jobs
        /\ new.flagged = work[w].flagged
    BY <1>2 DEF Crawling
  <1>5. PICK liked \in BOOLEAN : Writes(w, [On(w) EXCEPT !.liked = @ \/ liked])
    BY DEF Upserts
  <1>6. row' \in [Companies -> Rows]
    <2>1. [On(w) EXCEPT !.liked = On(w).liked \/ liked] \in Rows
      BY <1>2, ColumnSet
    <2> QED BY <1>1, <1>5, <2>1, WritesRow
  <1>7. Goes(w, new)
    BY DEF Upserts
  <1> HIDE DEF new
  <1> QED BY <1>1, <1>2, <1>3, <1>4, <1>6, <1>7, MovesKeeps DEF Searching, Sound

\* A crawl that ends, stamped by its outcome or by its error.
LEMMA EndsKeeps ==
  ASSUME IInv, NEW w \in Workers, Stamps(w) \/ Fails(w)
  PROVE  IInv'
  <1>1. work[w].at # "idle" /\ Goes(w, Idle)
    BY DEF Stamps, Fails
  <1>2. work[w] \in Crawling /\ On(w) \in Rows
    BY <1>1, AtWork
  <1>3. work[w].tier \in Tiers /\ On(w).matched \in BOOLEAN /\ On(w).strikes \in SUBSET (0 .. Window - 1)
    BY <1>2 DEF Crawling, Rows
  <1>4. CASE Fails(w)
    <2>1. row' \in [Companies -> Rows]
      BY <1>1, <1>2, <1>4, ColumnSet, WritesRow DEF Fails
    <2> QED BY <1>1, <2>1, IdleIsSound, GoesKeeps
  <1>5. CASE Stamps(w)
    <2> DEFINE matched == On(w).matched \/ work[w].jobs # "none"
               strikes == IF work[w].jobs = "none" /\ ~On(w).matched THEN On(w).strikes \cup {0} ELSE On(w).strikes
               new == [On(w) EXCEPT !.crawled = "today", !.tier = work[w].tier, !.matched = matched, !.strikes = strikes]
    <2>1. matched \in BOOLEAN /\ strikes \in SUBSET (0 .. Window - 1)
      <3>1. 0 \in 0 .. Window - 1
        BY CrawlAssumption
      <3> QED BY <1>3, <3>1
    <2>2. Writes(w, new)
      BY <1>5 DEF Stamps
    <2> HIDE DEF matched, strikes
    <2>3. new \in Rows
      <3>1. [On(w) EXCEPT !.crawled = "today", !.tier = work[w].tier] \in Rows
        BY <1>2, <1>3, ColumnSet
      <3>2. [On(w) EXCEPT !.crawled = "today", !.tier = work[w].tier, !.matched = matched] \in Rows
        BY <2>1, <3>1, ColumnSet
      <3> QED BY <2>1, <3>2, ColumnSet
    <2> HIDE DEF new
    <2>4. row' \in [Companies -> Rows]
      BY <1>1, <2>2, <2>3, WritesRow
    <2> QED BY <1>1, <2>4, IdleIsSound, GoesKeeps
  <1> QED BY <1>4, <1>5

-----------------------------------------------------------------------------
(* Around it *)

\* Only the table changes.
LEMMA TableChangeKeeps ==
  ASSUME IInv, row' \in [Companies -> Rows], UNCHANGED <<batch, started, work, kills>>
  PROVE  IInv'
  BY DEF IInv, TypeOK, NobodyTwice, Sound

LEMMA DayPassesKeeps ==
  ASSUME IInv, DayPasses
  PROVE  IInv'
  <1>1. ASSUME NEW r \in Rows PROVE Aged(r) \in Rows
    <2> DEFINE strikes == {a + 1 : a \in r.strikes} \cap (0 .. Window - 1)
               crawled == IF r.crawled = "never" THEN r.crawled ELSE "earlier"
    <2>1. strikes \in SUBSET (0 .. Window - 1) /\ crawled \in {"never", "today", "earlier"}
      BY DEF Rows
    <2>2. Aged(r) = [r EXCEPT !.crawled = crawled, !.strikes = strikes]
      BY DEF Aged
    <2> HIDE DEF strikes, crawled
    <2>3. [r EXCEPT !.crawled = crawled] \in Rows
      BY <2>1, ColumnSet
    <2> QED BY <2>1, <2>2, <2>3, ColumnSet
  <1>2. row' = [c \in Companies |-> Aged(row[c])] /\ row \in [Companies -> Rows]
    BY DEF DayPasses, IInv, TypeOK
  <1>3. row' \in [Companies -> Rows]
    BY <1>1, <1>2
  <1> QED BY <1>3, TableChangeKeeps DEF DayPasses

LEMMA ChangesKeeps ==
  ASSUME IInv, NEW c \in Companies, Changes(c)
  PROVE  IInv'
  <1>1. row \in [Companies -> Rows]
    BY DEF IInv, TypeOK
  <1>2. \/ row' = [row EXCEPT ![c] = [row[c] EXCEPT !.link = TRUE]]
        \/ row' = [row EXCEPT ![c] = [row[c] EXCEPT !.flagged = FALSE]]
        \/ row' = [row EXCEPT ![c] = [row[c] EXCEPT !.held = FALSE]]
    BY <1>1 DEF Changes
  <1>3. ASSUME NEW r \in Rows, row' = [row EXCEPT ![c] = r] PROVE row' \in [Companies -> Rows]
    BY <1>1, <1>3
  <1>4. /\ [row[c] EXCEPT !.link = TRUE] \in Rows /\ [row[c] EXCEPT !.flagged = FALSE] \in Rows
        /\ [row[c] EXCEPT !.held = FALSE] \in Rows
    BY <1>1, ColumnSet
  <1>5. row' \in [Companies -> Rows]
    BY <1>2, <1>3, <1>4
  <1> QED BY <1>5, TableChangeKeeps DEF Changes

LEMMA InitInv == Init => IInv
  <1> SUFFICES ASSUME Init PROVE IInv
    OBVIOUS
  <1>1. \A c \in Companies : NewRow(c) \in Rows
    BY DEF NewRow, Rows, Tiers
  <1>2. TypeOK
    BY <1>1, IdleIsSound, EmptyShare, CrawlAssumption DEF Init, TypeOK
  <1>3. NobodyTwice
    BY IdleIsSound, EmptyShare DEF Init, NobodyTwice
  <1>4. \A w \in Workers : Sound(work[w])
    BY IdleIsSound DEF Init
  <1> QED BY <1>2, <1>3, <1>4 DEF IInv

LEMMA StepInv == IInv /\ [Next]_vars => IInv'
  <1> SUFFICES ASSUME IInv, [Next]_vars PROVE IInv'
    OBVIOUS
  <1>1. CASE UNCHANGED vars
    BY <1>1, TableChangeKeeps DEF vars, IInv, TypeOK
  <1>2. ASSUME NEW w \in Workers, Works(w) PROVE IInv'
    BY <1>2, TakesKeeps, CachedTierKeeps, CachedApiKeeps, SitemapKeeps, PlainTiersKeeps, PlaywrightKeeps,
       LinkInChainKeeps, GateKeeps, LinkAfterwardsKeeps, UpsertsKeeps, EndsKeeps
    DEF Works
  <1> QED
    BY <1>1, <1>2, SelectsBatchKeeps, DayPassesKeeps, KilledKeeps, LaunchKeeps, ChangesKeeps DEF Next

(***************************************************************************)
(* No company is with two workers, and no cohort is imported or promoted   *)
(* by on which the gate has not spoken, whichever tier or replay it came   *)
(* from and wherever a batch is killed.                                    *)
(***************************************************************************)
THEOREM InvHolds == Spec => []Inv
  BY InitInv, StepInv, IInvImplies, PTL DEF Spec
====
