---------------------------- MODULE CompanyScan ----------------------------
(***************************************************************************)
(* What a company's row says of where its postings are read from, and who  *)
(* writes it: the batch that probes ATS boards (ats_scanner/_probe.py), a   *)
(* probe of one company (ats_prober.py), the scan's three lanes             *)
(* (ats_scanner/_run.py, _run_playwright.py, _run_html.py), the careers     *)
(* crawler's stamp, and a correction by hand (db/_company_attribution.py).  *)
(* Scans and requests overlap, and each holds on to the row it has read     *)
(* while the others write.                                                  *)
(***************************************************************************)
EXTENDS Naturals

CONSTANTS
    Companies, Boards, NoBoard,
    Kind,           \* Boards -> "api" (it has a probe), "playwright" (a probe, a rendered scan), "stub" (neither)
    UrlBoard,       \* the board that a company's careers_url names, or NoBoard
    Guesses,        \* the boards whose slug is derived from a company's name
    Famous,         \* companies on the brand blocklist
    WithUrl,        \* companies whose careers_url is known from the start
    Homepages,      \* companies with a homepage
    Relevant,       \* companies with a posting that somebody liked: the crawler's lane 1
    Scans,          \* scans that may run at a time
    Requests,       \* requests for one company's probe that may run at a time
    Extensions,     \* whether the host gives the prober its extensions
    DormancyThreshold

MaxRetries == 3

ASSUME CompanyAssumption ==
    /\ NoBoard \notin Boards
    /\ Kind \in [Boards -> {"api", "playwright", "stub"}]
    /\ UrlBoard \in [Companies -> Boards \cup {NoBoard}] /\ Guesses \in [Companies -> SUBSET Boards]
    /\ Extensions \in BOOLEAN /\ DormancyThreshold \in Nat

VARIABLES
    row,            \* the companies table
    batch,          \* probe_ats_slugs: the companies it has yet to probe, with the board each row named
    scan            \* what each scan, and each request, holds of the row it has read

companyVars == <<row, batch, scan>>

Ages == {"never", "recent", "old"}      \* of the crawler's stamp
Visitors == Scans \cup Requests

\* A request also remembers whether the row had a careers_url.
Idle == [at |-> "idle", company |-> NoBoard, board |-> NoBoard, url |-> FALSE, read |-> 0]
Unselected == "unselected"

-----------------------------------------------------------------------------
(* Helpers *)

\* m0001: UNIQUE (ats_platform, ats_slug).
Free(c, b) == \A d \in Companies \ {c} : row[d].board # b

\* An UPDATE of the one row.
Stores(c, new) == row' = [row EXCEPT ![c] = new]

\* _handle_scan_error, from the retry_count it has read: the backoff, or unreachable.
Failed(r, retries) ==
    IF retries >= MaxRetries - 1
    THEN [r EXCEPT !.status = "miss", !.reason = "unreachable", !.retries = MaxRetries]
    ELSE [r EXCEPT !.status = "error", !.retries = retries + 1, !.waiting = TRUE]

\* _reset_retry_state
reset_retry_state(r) == [r EXCEPT !.retries = 0, !.waiting = FALSE, !.reason = "none"]

\* The columns of a promotion by the probing ladder; the retry columns are left alone.
Claimed(r, b) == [r EXCEPT !.board = b, !.status = "hit", !.empty = 0]

Missed(r, why) == [r EXCEPT !.status = "miss", !.reason = why]

Alone == UNCHANGED <<batch, scan>>

Stops(s) == scan' = [scan EXCEPT ![s] = Idle]

\* A visit's last UPDATE: of the row as it is now, whatever it was when the visit read it.
Writes(s, new) == Stores(scan[s].company, new) /\ Stops(s) /\ UNCHANGED batch

-----------------------------------------------------------------------------
(* probe_ats_slugs *)

\* _reset_stale_collision_misses (which of them have cooled down is left open), and the SELECT.
ProbeBatchStarts ==
    /\ batch = [c \in Companies |-> Unselected]
    /\ \E cooled \in SUBSET {c \in Companies : row[c].status = "miss" /\ row[c].reason = "collision"} :
          LET now == [c \in Companies |-> IF c \in cooled
                                          THEN [row[c] EXCEPT !.status = "pending", !.reason = "none"]
                                          ELSE row[c]]
          IN  /\ row' = now
              /\ batch' = [c \in Companies |-> IF now[c].status = "pending" THEN now[c].board ELSE Unselected]
    /\ batch' # batch
    /\ UNCHANGED scan

Probed(c) == batch' = [batch EXCEPT ![c] = Unselected] /\ UNCHANGED scan

\* An exception of the database that nothing catches: the rest stays unprobed.
BatchEnds == batch' = [c \in Companies |-> Unselected] /\ UNCHANGED <<row, scan>>

\* Direct dispatch: the row named a board with a probe.  A CHECK refuses a hit without a board.
DirectDispatch(c) ==
    /\ batch[c] \in Boards /\ Kind[batch[c]] # "stub"
    /\ \/ IF row[c].board = NoBoard
          THEN BatchEnds
          ELSE /\ Stores(c, [row[c] EXCEPT !.status = "hit", !.empty = 0])
               /\ Probed(c)
       \/ \* transient, blocked or gone
          /\ Stores(c, Missed(row[c], "other"))
          /\ Probed(c)

Dispatched(c) == batch[c] \in Boards /\ Kind[batch[c]] # "stub"

\* A claim of b for c: a collision leaves the owner alone, since no host service can settle
\* one (_resolve_collision fails closed).  What is caught is SQLite's IntegrityError, on the
\* engine's own database; the hosted one raises another, which ends the batch.
Claims(c, b) ==
    \/ Free(c, b) /\ Stores(c, Claimed(row[c], b)) /\ Probed(c)
    \/ ~Free(c, b) /\ Stores(c, Missed(row[c], "collision")) /\ Probed(c)
    \/ ~Free(c, b) /\ BatchEnds

\* The careers_url names a board, which answers.
FastPath(c) ==
    /\ batch[c] # Unselected /\ ~Dispatched(c)
    /\ row[c].url /\ UrlBoard[c] # NoBoard /\ Kind[UrlBoard[c]] # "stub"
    /\ Claims(c, UrlBoard[c])

\* The ladder over the candidates; which board answers, and agrees with the careers_url, is open.
SpeculativeLadder(c) ==
    /\ batch[c] # Unselected /\ ~Dispatched(c)
    /\ \/ /\ c \notin Famous
          /\ \E b \in Guesses[c] : Kind[b] = "api" /\ Claims(c, b)
       \/ /\ Stores(c, Missed(row[c], "other"))
          /\ Probed(c)

-----------------------------------------------------------------------------
(* probe_single_company: a request reads the row, asks the network and then writes by what *)
(* it had read.                                                                            *)

\* Which branch, by the row's board: probed directly, without a probe, or to be guessed.
Branch(b) == IF b = NoBoard THEN "guesses" ELSE IF Kind[b] = "stub" THEN "stub" ELSE "board"

RequestReads(q, c) ==
    /\ scan[q].at = "idle"
    /\ scan' = [scan EXCEPT ![q] = [Idle EXCEPT !.at = Branch(row[c].board), !.company = c, !.url = row[c].url]]
    /\ UNCHANGED <<row, batch>>

Tier1Redetects(q) ==
    LET c == scan[q].company IN
    /\ UrlBoard[c] # NoBoard /\ Free(c, UrlBoard[c])
    /\ Writes(q, Claimed(row[c], UrlBoard[c]))

\* A tier reads postings off the careers page: not a hit, but worth the crawler's while.
TierPersists(q) ==
    Writes(q, [Missed(row[scan[q].company], "other") EXCEPT !.enabled = TRUE, !.careers = TRUE])

TiersMiss(q) == Writes(q, Missed(row[scan[q].company], "other"))

\* _try_static_first_fallthrough: without extensions there is no tier to try.
StaticFallthrough(q) ==
    \/ Extensions /\ (Tier1Redetects(q) \/ TierPersists(q))
    \/ TiersMiss(q)

FallsThrough(q) == IF scan[q].url THEN StaticFallthrough(q) ELSE TiersMiss(q)

\* Variant: the answer is stored although the row has lost its board.
BoardAnswers_unchecked(q) ==
    /\ scan[q].at = "board"
    /\ Writes(q, reset_retry_state([row[scan[q].company] EXCEPT !.status = "hit"]))

\* The board answers: a hit of whatever board the row names now; a CHECK refuses one without.
BoardAnswers(q) ==
    /\ scan[q].at = "board" /\ row[scan[q].company].board # NoBoard
    /\ Writes(q, reset_retry_state([row[scan[q].company] EXCEPT !.status = "hit"]))

\* Blocked, or gone.
BoardRefuses(q) == scan[q].at = "board" /\ (TiersMiss(q) \/ FallsThrough(q))

\* A board without a probe: with no careers_url to try, nothing is written (GivesUp).
StubFallsThrough(q) == scan[q].at = "stub" /\ scan[q].url /\ StaticFallthrough(q)

\* Another company's board is left to it.
GuessAnswers(q) ==
    LET c == scan[q].company IN
    /\ scan[q].at = "guesses" /\ c \notin Famous
    /\ \E b \in Guesses[c] : /\ Kind[b] = "api" /\ Free(c, b)
                             /\ Writes(q, reset_retry_state(Claimed(row[c], b)))

GuessesExhausted(q) == scan[q].at = "guesses" /\ FallsThrough(q)

\* A request that is not answered, or not in time, counts as a failure (ReadsRetries).
MayFail(q) ==
    \/ scan[q].at = "board"
    \/ scan[q].at = "guesses" /\ scan[q].company \notin Famous /\ Guesses[scan[q].company] # {}

Answered(q) ==
    BoardAnswers(q) \/ BoardRefuses(q) \/ StubFallsThrough(q) \/ GuessAnswers(q) \/ GuessesExhausted(q)

-----------------------------------------------------------------------------
(* db/_company_attribution.py, set_company_attribution: a board, or none, and a careers_url, *)
(* or none, or one of the two alone; a board that is another company's raises.               *)

Corrected(r) == [r EXCEPT !.status = "pending", !.empty = 0, !.retries = 0, !.waiting = FALSE, !.reason = "none"]

set_company_attribution(c) ==
    /\ \E b \in Boards \cup {NoBoard}, url \in BOOLEAN :
          LET r == [Corrected(row[c]) EXCEPT !.board = b] IN
          /\ b = NoBoard \/ Free(c, b)
          /\ \/ Stores(c, [r EXCEPT !.url = url, !.enabled = TRUE, !.careers = TRUE])
             \/ Stores(c, r)
    /\ Alone

-----------------------------------------------------------------------------
(* run_ats_scan, one company at a time.  A scan that has selected a company goes on,        *)
(* whatever becomes of the row.                                                             *)

\* Variant: an empty streak ends the scans.
Awake_by_streak(r) == r.empty <= DormancyThreshold

\* _dormancy_gate_clause
Awake(r) == r.empty <= DormancyThreshold \/ ~r.fresh

\* The gate of phases A and A2.
Gate(r) ==
    /\ r.enabled
    /\ r.status = "hit" \/ (r.status = "error" /\ ~r.waiting)
    /\ r.board # NoBoard

ApiEligible(r) == Gate(r) /\ Kind[r.board] # "playwright" /\ Awake(r)
RenderEligible(r) == Gate(r) /\ Kind[r.board] = "playwright"
PageEligible(c) ==
    /\ row[c].status \in {"miss", "error"} \/ (row[c].status = "hit" /\ Kind[row[c].board] = "stub")
    /\ c \in Homepages /\ row[c].enabled /\ row[c].crawled = "never"

Starts(s, lane, c) ==
    /\ scan[s].at = "idle"
    /\ scan' = [scan EXCEPT ![s] = [Idle EXCEPT !.at = lane, !.company = c, !.board = row[c].board]]
    /\ UNCHANGED <<row, batch>>

SelectsApi(s, c) == ApiEligible(row[c]) /\ Starts(s, "api", c)
SelectsRender(s, c) == RenderEligible(row[c]) /\ Starts(s, "render", c)
SelectsPage(s, c) == PageEligible(c) /\ Starts(s, "page", c)

\* The UPDATE after a board was read; nothing of it touches the status or the retry columns.
AfterApi(r, found) ==
    [r EXCEPT !.fresh = TRUE,
              !.empty = IF found THEN 0 ELSE IF @ <= DormancyThreshold THEN @ + 1 ELSE @]

ReadsBoard(s) ==
    /\ scan[s].at = "api"
    /\ \E found \in BOOLEAN : /\ found => Kind[scan[s].board] # "stub"
                            /\ Writes(s, AfterApi(row[scan[s].company], found))

\* The rendered lane keeps no count of empty scans.
RendersBoard(s) ==
    /\ scan[s].at = "render"
    /\ Writes(s, [row[scan[s].company] EXCEPT !.fresh = TRUE])

\* A careers link was found, or known, and the page was scraped.
ScrapesPage(s) ==
    /\ scan[s].at = "page"
    /\ Writes(s, [row[scan[s].company] EXCEPT !.fresh = TRUE, !.url = TRUE])

\* BoardGoneError, which only the API lane knows.
Demoted(r) == [Missed(r, "other") EXCEPT !.enabled = FALSE, !.fresh = TRUE]

BoardGone(s) ==
    /\ scan[s].at = "api" /\ Kind[scan[s].board] = "api"
    /\ Writes(s, Demoted(row[scan[s].company]))

\* A transient error: the retry count is read in one statement and written in another.
ReadsRetries(s) ==
    /\ \/ scan[s].at \in {"api", "render"} /\ Kind[scan[s].board] # "stub"
       \/ MayFail(s)
    /\ scan' = [scan EXCEPT ![s] = [Idle EXCEPT !.at = "failing", !.company = scan[s].company, !.read = row[scan[s].company].retries]]
    /\ UNCHANGED <<row, batch>>

RecordsFailure(s) ==
    /\ scan[s].at = "failing"
    /\ Writes(s, Failed(row[scan[s].company], scan[s].read))

\* Any other error is logged, or fails the request; a page without a careers link is not even
\* that; a scan or a request may be killed.
GivesUp(s) ==
    /\ scan[s].at # "idle"
    /\ Stops(s) /\ UNCHANGED <<row, batch>>

-----------------------------------------------------------------------------
(* crawl_careers_batch, as far as this row goes (CareersCrawl has the rest). *)

CrawlEligible(c) ==
    /\ row[c].url /\ row[c].careers /\ row[c].status # "hit"
    /\ IF c \in Relevant THEN row[c].crawled # "recent" ELSE row[c].crawled = "never"

\* _upsert_and_log stamps both columns, _update_timestamp_on_error one; a board that the
\* page links to is claimed on the way.  A stamp that fails is swallowed.
Crawls(c) ==
    /\ CrawlEligible(c)
    /\ \E r \in {row[c]} \cup (IF Extensions /\ UrlBoard[c] # NoBoard /\ Free(c, UrlBoard[c]) THEN {Claimed(row[c], UrlBoard[c])} ELSE {}) :
          \/ Stores(c, [r EXCEPT !.crawled = "recent", !.fresh = TRUE])
          \/ Stores(c, [r EXCEPT !.crawled = "recent"])
          \/ Stores(c, r)
    /\ Alone

-----------------------------------------------------------------------------
(* The clock *)

BackoffEnds(c) ==
    /\ row[c].waiting
    /\ Stores(c, [row[c] EXCEPT !.waiting = FALSE])
    /\ Alone

ScanAges(c) ==
    /\ row[c].fresh
    /\ Stores(c, [row[c] EXCEPT !.fresh = FALSE])
    /\ Alone

CrawlAges(c) ==
    /\ row[c].crawled = "recent"
    /\ Stores(c, [row[c] EXCEPT !.crawled = "old"])
    /\ Alone

-----------------------------------------------------------------------------
NewRow(c) ==
    [status |-> "pending", board |-> NoBoard, reason |-> "none", retries |-> 0, waiting |-> FALSE,
     enabled |-> TRUE, careers |-> TRUE, url |-> c \in WithUrl, empty |-> 0, fresh |-> FALSE, crawled |-> "never"]

CompanyInit ==
    /\ row = [c \in Companies |-> NewRow(c)]
    /\ batch = [c \in Companies |-> Unselected]
    /\ scan = [s \in Visitors |-> Idle]

ProbesOne(c) == DirectDispatch(c) \/ FastPath(c) \/ SpeculativeLadder(c)

Selects(s, c) == SelectsApi(s, c) \/ SelectsRender(s, c) \/ SelectsPage(s, c)

Visit(s) == ReadsBoard(s) \/ RendersBoard(s) \/ ScrapesPage(s) \/ BoardGone(s) \/ RecordsFailure(s) \/ GivesUp(s)

\* What happens to a company between two probes of the batch.
Lives(c) ==
    \/ set_company_attribution(c) \/ Crawls(c)
    \/ BackoffEnds(c) \/ ScanAges(c) \/ CrawlAges(c)
    \/ \E s \in Scans : Selects(s, c)
    \/ \E q \in Requests : RequestReads(q, c)

CompanyNext ==
    \/ ProbeBatchStarts
    \/ \E c \in Companies : ProbesOne(c) \/ Lives(c)
    \/ \E s \in Visitors : ReadsRetries(s) \/ Visit(s)
    \/ \E q \in Requests : Answered(q)

CompanySpec == CompanyInit /\ [][CompanyNext]_companyVars

(***************************************************************************)
(* The tick defers a scan of every company that is due; a scan that has    *)
(* begun ends; time passes.  Nothing is assumed of requests, probes,       *)
(* corrections, and crawls, which the program never schedules.             *)
(***************************************************************************)
FairFor(companies) ==
    /\ \A c \in companies :
          /\ SF_companyVars(\E s \in Scans : SelectsApi(s, c) \/ SelectsRender(s, c))
          /\ WF_companyVars(BackoffEnds(c)) /\ WF_companyVars(ScanAges(c))
    /\ \A s \in Scans : WF_companyVars(ReadsRetries(s) \/ Visit(s))

-----------------------------------------------------------------------------
Reasons == {"none", "unreachable", "collision", "other"}

Rows == [status : {"pending", "hit", "miss", "error"}, board : Boards \cup {NoBoard}, reason : Reasons,
         retries : 0 .. MaxRetries, waiting : BOOLEAN, enabled : BOOLEAN, careers : BOOLEAN,
         url : BOOLEAN, empty : 0 .. DormancyThreshold + 1, fresh : BOOLEAN, crawled : Ages]

ScanRecords == [at : {"idle", "api", "render", "page", "board", "stub", "guesses", "failing"}, company : Companies \cup {NoBoard},
                board : Boards \cup {NoBoard}, url : BOOLEAN, read : 0 .. MaxRetries]

CompanyTypeOK ==
    /\ row \in [Companies -> Rows]
    /\ batch \in [Companies -> Boards \cup {NoBoard, Unselected}]
    /\ scan \in [Visitors -> ScanRecords]
    /\ \A s \in Visitors : scan[s].at # "idle" => scan[s].company \in Companies

(***************************************************************************)
(* The table's columns agree, whatever scans, probes and corrections wrote *)
(* over one another: a board has one owner, a hit names its board, an      *)
(* error is one that the scan will retry, and unreachable is the third     *)
(* count.                                                                  *)
(***************************************************************************)
RowsAgree ==
    /\ \A c, d \in Companies : c # d /\ row[c].board = row[d].board => row[c].board = NoBoard
    /\ \A c \in Companies :
          /\ row[c].status = "hit" => row[c].board # NoBoard
          /\ row[c].status = "error" => row[c].retries \in 1 .. MaxRetries - 1
          /\ row[c].status = "miss" /\ row[c].reason = "unreachable" => row[c].retries = MaxRetries

ScanInv == CompanyTypeOK /\ RowsAgree

\* A scan that has selected the company reads its board, or tries to.
Visited(c) ==
    \E s \in Scans :
       /\ scan[s].company = c /\ scan[s].at \in {"api", "render", "page"}
       /\ ReadsRetries(s) \/ Visit(s)

(***************************************************************************)
(* A hit is read again and again: an empty streak makes its scans rarer,   *)
(* but the board is "never permanently disabled".  (Of an error that is    *)
(* not so: a crawl of it stamps last_scanned_at too, and a dormant row     *)
(* whose stamp is young is not selected.)                                  *)
(***************************************************************************)
OnBoard(c) == row[c].enabled /\ row[c].status = "hit"

HeldBoardIsRead(c) == <>[]OnBoard(c) => []<><<Visited(c)>>_companyVars

=============================================================================
