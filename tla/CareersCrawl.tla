---------------------------- MODULE CareersCrawl ----------------------------
(***************************************************************************)
(* The crawl of careers pages (engine/careers_crawler): the two lanes that *)
(* select a batch, the workers that share it round robin, the chain of     *)
(* tiers a company is taken through, the gate that withholds the postings  *)
(* of an aggregator, the promotion to an ATS board, and the strikes that   *)
(* bench a company whose page yields nothing.  Nothing in the program      *)
(* starts a batch: the caller does, when it likes.  One batch runs at a    *)
(* time and ends within its day.                                           *)
(***************************************************************************)
EXTENDS Naturals, Sequences, FiniteSets, SequencesExt

CONSTANTS
    Companies,      \* ids, in the order of the table
    Workers,        \* 0 .. max_workers - 1
    Blocked,        \* companies whose careers_url is on a blocklisted host
    Offers,         \* what there is to find on a company's site, at times: Sources
    Liked,          \* companies with a posting somebody liked, from the start
    Limit,          \* origination_batch_limit
    Threshold,      \* BENCH_STRIKE_THRESHOLD
    Window,         \* BENCH_STRIKE_DECAY_DAYS
    MaxKills

Sources == {"api", "sitemap", "static", "url_param", "embedded_json", "page", "mixed", "link"}

ASSUME CrawlAssumption ==
    /\ Companies \subseteq Nat \ {0} /\ IsFiniteSet(Companies)
    /\ IsFiniteSet(Workers) /\ Workers = 0 .. Cardinality(Workers) - 1 /\ Workers # {}
    /\ Offers \in [Companies -> SUBSET Sources]
    /\ Limit \in Nat \ {0} /\ Threshold \in Nat \ {0} /\ Window \in Nat \ {0} /\ MaxKills \in Nat

VARIABLES
    row,            \* the companies table, and its company_scan_log
    batch,          \* what each worker has still to crawl
    started,        \* the workers whose browser is up
    work,           \* where each worker is with its company
    kills

vars == <<row, batch, started, work, kills>>

Idle == [at |-> "idle", company |-> 0, jobs |-> "none", tier |-> "static", endpoint |-> FALSE,
         rendered |-> FALSE, flagged |-> FALSE]

-----------------------------------------------------------------------------
(* Selection *)

\* _bench_predicate: no hit ever, and Threshold strikes within the window.
Benched(r) == ~r.matched /\ Cardinality(r.strikes) >= Threshold

\* The gates that both lanes share.
Open(r) == ~r.held /\ ~r.flagged /\ ~Benched(r)

Rediscovered == {c \in Companies : Open(row[c]) /\ row[c].liked /\ row[c].crawled # "today"}
Originated == {c \in Companies : Open(row[c]) /\ ~row[c].liked /\ row[c].crawled = "never"}

\* ORDER BY id: the k-th company is the one with k ids up to its own.
Ids(s) == [k \in 1 .. Cardinality(s) |-> CHOOSE c \in s : Cardinality({d \in s : d <= c}) = k]

\* LIMIT n
First(n, s) == SubSeq(s, 1, IF Len(s) < n THEN Len(s) ELSE n)

\* ORDER BY careers_crawl_last_at NULLS FIRST (the days before are one), then by id up to the limit.
Selection ==
    Ids({c \in Rediscovered : row[c].crawled = "never"}) \o Ids({c \in Rediscovered : row[c].crawled # "never"})
    \o First(Limit, Ids(Originated))

\* companies[i::max_workers]
Share(companies, w) ==
    LET n == Cardinality(Workers)
    IN  [k \in 1 .. (Len(companies) + n - 1 - w) \div n |-> companies[(k - 1) * n + w + 1]]

Quiet == \A w \in Workers : batch[w] = <<>> /\ work[w].at = "idle"

SelectsBatch ==
    /\ Quiet /\ Selection # <<>>
    /\ batch' = [w \in Workers |-> Share(Selection, w)]
    /\ started' = {}
    /\ UNCHANGED <<row, work, kills>>

-----------------------------------------------------------------------------
(* A worker *)

BrowserStarts(w) ==
    /\ batch[w] # <<>> /\ w \notin started
    /\ started' = started \cup {w}
    /\ UNCHANGED <<row, batch, work, kills>>

\* The worker's future raises; none of its companies is stamped.
LaunchFails(w) ==
    /\ batch[w] # <<>> /\ w \notin started
    /\ batch' = [batch EXCEPT ![w] = <<>>]
    /\ UNCHANGED <<row, started, work, kills>>

\* A blocklisted host is passed over.
Takes(w) ==
    /\ w \in started /\ work[w].at = "idle" /\ batch[w] # <<>>
    /\ batch' = [batch EXCEPT ![w] = Tail(@)]
    /\ LET c == Head(batch[w]) IN
       IF c \in Blocked
       THEN UNCHANGED work
       ELSE work' = [work EXCEPT ![w] = [Idle EXCEPT !.at = "cached", !.company = c, !.tier = "static",
                                                     !.endpoint = row[c].endpoint]]
    /\ UNCHANGED <<row, started, kills>>

On(w) == row[work[w].company]
Site(w) == Offers[work[w].company]
Goes(w, new) == work' = [work EXCEPT ![w] = new] /\ UNCHANGED <<batch, started, kills>>
Writes(w, new) == row' = [row EXCEPT ![work[w].company] = new]

\* A tier returns postings, whose cohort nobody has looked at yet.
FindsAt(w, tier) == Goes(w, [work[w] EXCEPT !.at = "gate", !.jobs = "unvetted", !.tier = tier, !.endpoint = FALSE])
PassesTo(w, next) == Goes(w, [work[w] EXCEPT !.at = next]) /\ UNCHANGED row

\* _try_cached_tier: what worked the last time; playwright may discover an endpoint on the way.
CachedTier(w) ==
    /\ work[w].at = "cached"
    /\ \/ /\ On(w).tier = "api_cached" /\ work[w].endpoint /\ "api" \in Site(w)
          /\ FindsAt(w, "api_cached") /\ UNCHANGED row
       \/ /\ On(w).tier = "url_param" /\ "url_param" \in Site(w)
          /\ FindsAt(w, "url_param") /\ UNCHANGED row
       \/ /\ On(w).tier = "playwright" /\ "page" \in Site(w)
          /\ FindsAt(w, "playwright")
          /\ \E discovered \in {FALSE, "api" \in Site(w)} : Writes(w, [On(w) EXCEPT !.endpoint = @ \/ discovered])
       \/ PassesTo(w, "api")

\* An endpoint that answers, be it with nothing, ends the chain; a broken one is cleared.
CachedApi(w) ==
    /\ work[w].at = "api"
    /\ \/ ~work[w].endpoint /\ PassesTo(w, "sitemap")
       \/ work[w].endpoint /\ "api" \in Site(w) /\ FindsAt(w, "api_cached") /\ UNCHANGED row
       \/ work[w].endpoint /\ Goes(w, [work[w] EXCEPT !.at = "gate", !.tier = "api_cached", !.endpoint = FALSE]) /\ UNCHANGED row
       \/ /\ work[w].endpoint
          /\ Goes(w, [work[w] EXCEPT !.at = "sitemap", !.endpoint = FALSE])
          /\ Writes(w, [On(w) EXCEPT !.endpoint = FALSE])

\* _try_sitemap_extract runs the gate itself.
Sitemap(w) ==
    /\ work[w].at = "sitemap"
    /\ \/ /\ "sitemap" \in Site(w)
          /\ Goes(w, [work[w] EXCEPT !.at = "gate", !.jobs = "vetted", !.tier = "sitemap"]) /\ UNCHANGED row
       \/ /\ {"sitemap", "mixed"} \subseteq Site(w)
          /\ Goes(w, [work[w] EXCEPT !.at = "gate", !.flagged = TRUE])
          /\ Writes(w, [On(w) EXCEPT !.flagged = TRUE])
       \/ PassesTo(w, "static")

\* The static page, probe_url_params, the JSON embedded in the page: none leaves a trace when it finds nothing.
PlainTiers(w) ==
    /\ work[w].at = "static"
    /\ \/ \E tier \in {"static", "url_param", "embedded_json"} \cap Site(w) : FindsAt(w, tier) /\ UNCHANGED row
       \/ PassesTo(w, "playwright")

\* The tier counts as used whether it finds postings or not.
Playwright(w) ==
    /\ work[w].at = "playwright"
    /\ \E found \in {FALSE, "page" \in Site(w)}, rendered \in BOOLEAN, discovered \in {FALSE, "api" \in Site(w)} :
          /\ Goes(w, [work[w] EXCEPT !.at = "link", !.jobs = IF found THEN "unvetted" ELSE @,
                                     !.tier = "playwright", !.rendered = rendered])
          /\ Writes(w, [On(w) EXCEPT !.endpoint = @ \/ discovered])

\* Promotion through the link, if the page has one and the host gives the means.
Promotion(w, r) == {[r EXCEPT !.link = FALSE]} \cup
                   (IF "link" \in Site(w) THEN {[r EXCEPT !.link = FALSE, !.held = TRUE]} ELSE {})

\* ATS-link discovery in the chain: a rendered page without postings.
LinkInChain(w) ==
    /\ work[w].at = "link"
    /\ IF work[w].jobs = "none" /\ work[w].rendered
       THEN Goes(w, [work[w] EXCEPT !.at = "gate"]) /\ \E r \in Promotion(w, On(w)) : Writes(w, r)
       ELSE PassesTo(w, "gate")

\* Variant: what the replayed tier found was good the last time.
Gate_trusting_replays(w) ==
    /\ work[w].at = "gate"
    /\ \/ /\ work[w].jobs = "unvetted" /\ "mixed" \in Site(w) /\ On(w).tier # work[w].tier
          /\ Goes(w, [work[w] EXCEPT !.at = "opportunity", !.jobs = "none", !.flagged = TRUE])
          /\ Writes(w, [On(w) EXCEPT !.flagged = TRUE])
       \/ /\ work[w].jobs = "unvetted" /\ On(w).tier # work[w].tier
          /\ Goes(w, [work[w] EXCEPT !.at = "opportunity", !.jobs = "vetted"]) /\ UNCHANGED row
       \/ (work[w].jobs # "unvetted" \/ On(w).tier = work[w].tier) /\ PassesTo(w, "opportunity")

\* evaluate_cohort_legitimacy on what any tier but the sitemap's has found.
Gate(w) ==
    /\ work[w].at = "gate"
    /\ \/ /\ work[w].jobs = "unvetted" /\ "mixed" \in Site(w)
          /\ Goes(w, [work[w] EXCEPT !.at = "opportunity", !.jobs = "none", !.flagged = TRUE])
          /\ Writes(w, [On(w) EXCEPT !.flagged = TRUE])
       \/ /\ work[w].jobs = "unvetted"
          /\ Goes(w, [work[w] EXCEPT !.at = "opportunity", !.jobs = "vetted"]) /\ UNCHANGED row
       \/ work[w].jobs # "unvetted" /\ PassesTo(w, "opportunity")

\* Opportunistic discovery: postings were found without rendering; the landing page is fetched once in a cooldown.
LinkAfterwards(w) ==
    /\ work[w].at = "opportunity"
    /\ IF work[w].jobs # "none" /\ ~work[w].flagged /\ ~work[w].rendered /\ On(w).link
       THEN Goes(w, [work[w] EXCEPT !.at = "upsert"]) /\ \E r \in Promotion(w, On(w)) : Writes(w, r)
       ELSE Goes(w, [work[w] EXCEPT !.at = "upsert", !.rendered = FALSE]) /\ UNCHANGED row

\* _upsert_and_log, the first of two transactions; one of the postings may turn out to be liked.
Upserts(w) ==
    /\ work[w].at = "upsert"
    /\ Goes(w, [work[w] EXCEPT !.at = "stamp"])
    /\ \E liked \in {FALSE, work[w].jobs # "none"} : Writes(w, [On(w) EXCEPT !.liked = @ \/ liked])

\* The second: both stamps, the tier to replay, and the row of the log; every empty crawl is a strike.
Stamps(w) ==
    /\ work[w].at = "stamp"
    /\ Writes(w, [On(w) EXCEPT !.crawled = "today", !.tier = work[w].tier,
                               !.matched = @ \/ work[w].jobs # "none",
                               !.strikes = IF work[w].jobs = "none" /\ ~On(w).matched THEN @ \cup {0} ELSE @])
    /\ Goes(w, Idle)

\* Any exception on the way; _update_timestamp_on_error passes over one of its own.
Fails(w) ==
    /\ work[w].at # "idle"
    /\ \E stamped \in {On(w), [On(w) EXCEPT !.crawled = "today"]} : Writes(w, stamped)
    /\ Goes(w, Idle)

-----------------------------------------------------------------------------
(* Around it *)


Aged(r) == [r EXCEPT !.crawled = IF @ = "never" THEN @ ELSE "earlier",
                     !.strikes = {a + 1 : a \in @} \cap (0 .. Window - 1)]

DayPasses ==
    /\ Quiet
    /\ row' = [c \in Companies |-> Aged(row[c])]
    /\ UNCHANGED <<batch, started, work, kills>>

\* The cooldown of the link, a flag that somebody clears, a board that is gone.
Changes(c) ==
    /\ row' \in {[row EXCEPT ![c].link = TRUE], [row EXCEPT ![c].flagged = FALSE], [row EXCEPT ![c].held = FALSE]}
    /\ row' # row
    /\ UNCHANGED <<batch, started, work, kills>>

Killed ==
    /\ kills < MaxKills /\ ~Quiet
    /\ batch' = [w \in Workers |-> <<>>] /\ work' = [w \in Workers |-> Idle]
    /\ kills' = kills + 1
    /\ UNCHANGED <<row, started>>

-----------------------------------------------------------------------------
NewRow(c) == [crawled |-> "never", held |-> FALSE, flagged |-> FALSE, liked |-> c \in Liked, endpoint |-> FALSE,
              tier |-> "none", matched |-> FALSE, strikes |-> {}, link |-> TRUE]

Init ==
    /\ row = [c \in Companies |-> NewRow(c)]
    /\ batch = [w \in Workers |-> <<>>]
    /\ started = {}
    /\ work = [w \in Workers |-> Idle]
    /\ kills = 0

Works(w) ==
    \/ Takes(w) \/ CachedTier(w) \/ CachedApi(w) \/ Sitemap(w) \/ PlainTiers(w) \/ Playwright(w)
    \/ LinkInChain(w) \/ Gate(w) \/ LinkAfterwards(w) \/ Upserts(w) \/ Stamps(w) \/ Fails(w)

Next ==
    \/ SelectsBatch \/ DayPasses \/ Killed
    \/ \E w \in Workers : BrowserStarts(w) \/ LaunchFails(w) \/ Works(w)
    \/ \E c \in Companies : Changes(c)

Spec == Init /\ [][Next]_vars

\* Days pass, and a batch that was started goes on; whether one is started is left open.
FairSpec ==
    /\ Spec
    /\ SF_vars(DayPasses)
    /\ \A w \in Workers : WF_vars(Works(w)) /\ WF_vars(BrowserStarts(w) \/ LaunchFails(w))

-----------------------------------------------------------------------------
Tiers == {"none", "static", "sitemap", "embedded_json", "api_cached", "url_param", "playwright"}
Rows == [crawled : {"never", "today", "earlier"}, held : BOOLEAN, flagged : BOOLEAN, liked : BOOLEAN,
         endpoint : BOOLEAN, tier : Tiers, matched : BOOLEAN, strikes : SUBSET (0 .. Window - 1), link : BOOLEAN]
Places == {"idle", "cached", "api", "sitemap", "static", "playwright", "link", "gate", "opportunity",
           "upsert", "stamp"}
Crawling == [at : Places, company : Companies \cup {0}, jobs : {"none", "unvetted", "vetted"}, tier : Tiers,
             endpoint : BOOLEAN, rendered : BOOLEAN, flagged : BOOLEAN]

TypeOK ==
    /\ row \in [Companies -> Rows]
    /\ batch \in [Workers -> Seq(Companies)]
    /\ work \in [Workers -> Crawling]
    /\ started \subseteq Workers /\ kills \in 0 .. MaxKills

\* No company is with two workers, or waits while another worker has it.
NobodyTwice ==
    \A v, w \in Workers : v # w =>
        /\ ToSet(batch[v]) \cap ToSet(batch[w]) = {}
        /\ work[v].at # "idle" => work[v].company \notin ToSet(batch[w]) \cup {work[w].company}

(***************************************************************************)
(* "evaluate ... AFTER the tier returns postings and BEFORE import": no    *)
(* cohort is imported, or used to promote the company to a board, on which *)
(* the gate has not spoken, whichever tier or replay it came from; and a   *)
(* crawl that flagged its company imports nothing.                         *)
(***************************************************************************)
OnlyVettedIsUsed ==
    \A w \in Workers : work[w].at \in {"opportunity", "upsert", "stamp"} =>
        /\ work[w].jobs \in {"none", "vetted"}
        /\ work[w].flagged => work[w].jobs = "none"

Inv == TypeOK /\ NobodyTwice /\ OnlyVettedIsUsed

Eligible(c) == row[c].liked /\ ~row[c].flagged /\ ~row[c].held

(***************************************************************************)
(* A company with a liked posting comes due again and again, whatever its  *)
(* crawls have found and whether they were stamped or failed: the strikes  *)
(* decay, so that no streak of empty crawls boxes it for good.             *)
(***************************************************************************)
ComesDue(c) == <>[]Eligible(c) => []<>(c \in Rediscovered)

(***************************************************************************)
(* "At 25/run a ~1,000-company backlog drains": if a batch is started      *)
(* whenever a company is due, and browsers start, every company that waits *)
(* for its first crawl gets it, or is promoted, flagged or liked.  But     *)
(* those that are passed over, or whose stamp fails, stay in the lane.     *)
(***************************************************************************)
Drains(c) ==
    WF_vars(SelectsBatch) /\ (\A w \in Workers : SF_vars(BrowserStarts(w)))
        => <>(row[c].crawled # "never" \/ row[c].flagged \/ row[c].held \/ row[c].liked)
=============================================================================
