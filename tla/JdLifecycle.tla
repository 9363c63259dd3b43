---------------------------- MODULE JdLifecycle ----------------------------
(***************************************************************************)
(* The life of a posting's job description: stored by the ATS scan through *)
(* the one sanctioned writer (jobcannon/db/_jd_full.py), judged by the     *)
(* daily adjudication batch (jobcannon/host/jd_adjudication_backfill.py),  *)
(* and scored by an LLM call whose result is persisted whatever the row    *)
(* holds by then (jobcannon/host/scoring_orchestrator.py, writing through  *)
(* jobcannon/db/_assessment_writer.py).  All of it runs concurrently on    *)
(* one worker, and every database transaction is a step.                   *)
(***************************************************************************)
EXTENDS Naturals, Sequences, SequencesExt

CONSTANTS
    Postings,
    Bodies,         \* the texts that sources offer for the postings
    Slots,          \* the worker's scan and scoring slots
    MaxVersion,     \* bound on JD_CONTENT_VERSION, which deploys raise
    Class,          \* classify_jd_content: Class[version][body]
    LegacyRows,     \* the rows, oldest first, that predate the verdict columns (m0009)
    LegacyBody,     \* and the body that they hold
    Limit,          \* batch size of the adjudication backfill
    None            \* SQL NULL

Versions == 1 .. MaxVersion
Verdicts == {"clean", "ambiguous", "reject"}

\* What one SELECT * reads of a posting.
Rows == [body : Bodies \cup {None}, verdict : Verdicts \cup {None},
         stamp : 0 .. MaxVersion, judged : Bodies \cup {None}]

\* The scoring tuple: the row that the LLM saw, and the text whose length its
\* classification was derived from.
Scores == [read : Rows, sized : Bodies \cup {None}]

ASSUME ContractAssumption ==
    /\ MaxVersion \in Nat \ {0} /\ Limit \in Nat \ {0}
    /\ Class \in [Versions -> [Bodies -> Verdicts]]
    /\ LegacyRows \in Seq(Postings) /\ LegacyBody \in Bodies

ASSUME NoneAssumption == None \notin Bodies \cup Verdicts \cup Rows \cup Scores

VARIABLES
    version,        \* JD_CONTENT_VERSION of the running release
    up,             \* is the worker running?
    seen,           \* the postings that have a row, oldest first_seen first
    body,           \* jd_full
    verdict,        \* jd_content_verdict
    stamp,          \* jd_adjudicated_version, 0 for NULL
    judged,         \* history: the body that the stamp's writer had judged
    quarantined,    \* rows with a jd-content code in unresolved_reasons
    score,          \* the scoring tuple, None before
    slot,           \* the scan and scoring attempts in progress
    batch           \* the adjudication backfill in progress

content == <<body, verdict, stamp, judged, quarantined>>
vars == <<version, up, seen, content, score, slot, batch>>

RowOf(p) == [body |-> body[p], verdict |-> verdict[p], stamp |-> stamp[p], judged |-> judged[p]]

\* A slot promotes a scanned description, is about to score, waits for the LLM, or persists.
IdleSlot == [at |-> "idle", posting |-> None, text |-> None, new |-> FALSE, read |-> None]

\* Decisions are collected first ("judging"), then applied, stamps before heals.
IdleBatch == [at |-> "idle", todo |-> <<>>, stamps |-> <<>>, heals |-> <<>>]

-----------------------------------------------------------------------------
(* jobcannon/db/_jd_full.py and _jd_adjudication.py: one UPDATE each *)

\* Variant: a content change keeps the stamp of the body that it replaces.
set_jd_full_keeps_stamp(p, text) ==
    IF Class[version][text] = "reject"
    THEN quarantined' = quarantined \cup {p} /\ UNCHANGED <<body, verdict, stamp, judged>>
    ELSE /\ body' = [body EXCEPT ![p] = text]
         /\ quarantined' = quarantined \ {p}
         /\ verdict' = [verdict EXCEPT ![p] = Class[version][text]]
         /\ UNCHANGED <<stamp, judged>>

\* The content gate records a rejected text and stores nothing.  An accepted one
\* replaces body, verdict and stamp together; a re-fetch of the stored text keeps both.
set_jd_full(p, text) ==
    IF Class[version][text] = "reject"
    THEN quarantined' = quarantined \cup {p} /\ UNCHANGED <<body, verdict, stamp, judged>>
    ELSE LET changed == body[p] # text IN
         /\ body' = [body EXCEPT ![p] = text]
         /\ quarantined' = quarantined \ {p}
         /\ verdict' = [verdict EXCEPT ![p] = IF changed \/ @ = None THEN Class[version][text] ELSE @]
         /\ stamp' = [stamp EXCEPT ![p] = IF changed THEN 0 ELSE @]
         /\ judged' = [judged EXCEPT ![p] = IF changed THEN None ELSE @]

\* WHERE jd_full = expected: NULL equals nothing, a rewritten body equals something else.
StillHolds(p, expected) == body[p] # None /\ body[p] = expected

\* A body rewritten since it was judged is not vouched for.
stamp_adjudicated(p, expected) ==
    IF StillHolds(p, expected)
    THEN /\ stamp' = [stamp EXCEPT ![p] = version]
         /\ judged' = [judged EXCEPT ![p] = expected]
         /\ UNCHANGED <<body, verdict, quarantined>>
    ELSE UNCHANGED content

\* Variant: the heal does not look at what the row holds by now.
clear_jd_full_blindly(p, expected) ==
    /\ body' = [body EXCEPT ![p] = None]
    /\ verdict' = [verdict EXCEPT ![p] = None]
    /\ stamp' = [stamp EXCEPT ![p] = 0]
    /\ judged' = [judged EXCEPT ![p] = None]
    /\ quarantined' = quarantined \cup {p}
    /\ score' = [score EXCEPT ![p] = None]

\* clear_jd_full and invalidate_job_score under one transaction, with the same premise.
clear_jd_full(p, expected) ==
    IF StillHolds(p, expected)
    THEN /\ body' = [body EXCEPT ![p] = None]
         /\ verdict' = [verdict EXCEPT ![p] = None]
         /\ stamp' = [stamp EXCEPT ![p] = 0]
         /\ judged' = [judged EXCEPT ![p] = None]
         /\ quarantined' = quarantined \cup {p}
         /\ score' = [score EXCEPT ![p] = None]
    ELSE UNCHANGED <<content, score>>

\* The backfill's eligibility, and its D5-blocked cohort (m0009's live gate).
Eligible(p) == body[p] # None /\ p \notin quarantined /\ stamp[p] < version
BlockedUnscored(p) == score[p] = None /\ verdict[p] \notin {None, "clean"}

FirstOf(n, s) == SubSeq(s, 1, IF n < Len(s) THEN n ELSE Len(s))

\* Variant: the reserve is lost, and the rest excludes the blocked cohort as before.
select_without_reserve ==
    LET newest == Reverse(SelectSeq(seen, Eligible))
    IN  FirstOf(Limit, SelectSeq(newest, LAMBDA p : ~BlockedUnscored(p)))

\* Newest first; half the batch is reserved for the blocked cohort, what that leaves
\* unused flows back, and the rest takes scored rows before unscored ones.
select_adjudication_candidates ==
    LET newest == Reverse(SelectSeq(seen, Eligible))
        blocked == FirstOf(Limit \div 2, SelectSeq(newest, BlockedUnscored))
        rest == SelectSeq(newest, LAMBDA p : ~BlockedUnscored(p) /\ score[p] # None)
                \o SelectSeq(newest, LAMBDA p : ~BlockedUnscored(p) /\ score[p] = None)
    IN  blocked \o FirstOf(Limit - Len(blocked), rest)

\* Variant: only a rejected text is gated.
scoring_precheck_rejects_only(p) == body[p] # None /\ verdict[p] # "reject"

\* jobcannon/engine/job_scorer.py: a NULL verdict fails open.
scoring_precheck(p) ==
    /\ body[p] # None
    /\ verdict[p] \in {None, "clean"} \/ stamp[p] >= version

-----------------------------------------------------------------------------
(* The ATS scan and the scorers *)

\* upsert_job, then the check that no jd_full is stored: only then is the offered
\* text promoted, and only a newly inserted posting is scored afterwards.
ScanSees(s, p, text) ==
    /\ up
    /\ slot[s].at = "idle"
    /\ p \in ToSet(seen) => body[p] = None
    /\ seen' = IF p \in ToSet(seen) THEN seen ELSE Append(seen, p)
    /\ slot' = [slot EXCEPT ![s] = [IdleSlot EXCEPT !.at = "promoting", !.posting = p, !.text = text,
                                                    !.new = p \notin ToSet(seen)]]
    /\ UNCHANGED <<version, up, content, score, batch>>

AfterPromotion(s) ==
    slot' = [slot EXCEPT ![s] = IF slot[s].new
                                THEN [IdleSlot EXCEPT !.at = "scoring", !.posting = slot[s].posting]
                                ELSE IdleSlot]

\* set_jd_full(source="ats_scanner_run"): it does not look at the row again.
ScanPromotes(s) ==
    /\ slot[s].at = "promoting"
    /\ set_jd_full(slot[s].posting, slot[s].text)
    /\ AfterPromotion(s)
    /\ UNCHANGED <<version, up, seen, score, batch>>

\* No description was offered, it was junk, or the write failed: logged only.
PromotionFails(s) ==
    /\ slot[s].at = "promoting"
    /\ AfterPromotion(s)
    /\ UNCHANGED <<version, up, seen, content, score, batch>>

\* The score task, which an operator defers with a list of postings.
run_scoring(s, p) ==
    /\ up
    /\ slot[s].at = "idle"
    /\ p \in ToSet(seen)
    /\ slot' = [slot EXCEPT ![s] = [IdleSlot EXCEPT !.at = "scoring", !.posting = p]]
    /\ UNCHANGED <<version, up, seen, content, score, batch>>

\* One SELECT * feeds the precheck and the prompt; a gated posting is skipped.
ScoringReads(s) ==
    LET p == slot[s].posting IN
    /\ slot[s].at = "scoring"
    /\ slot' = [slot EXCEPT ![s] = IF scoring_precheck(p)
                                   THEN [@ EXCEPT !.at = "calling", !.read = RowOf(p)]
                                   ELSE IdleSlot]
    /\ UNCHANGED <<version, up, seen, content, score, batch>>

\* Another gate ends the attempt, the scan's deadline does, or the LLM call fails.
ScoringEndsWithout(s) ==
    /\ slot[s].at \in {"scoring", "calling", "persisting"}
    /\ slot' = [slot EXCEPT ![s] = IdleSlot]
    /\ UNCHANGED <<version, up, seen, content, score, batch>>

\* persist_job_assessment, once the LLM has answered: it reads the row again, but only
\* for the length of jd_full, from which it derives the classification.
ScoringSizes(s) ==
    /\ slot[s].at = "calling"
    /\ slot' = [slot EXCEPT ![s].at = "persisting", ![s].text = body[slot[s].posting]]
    /\ UNCHANGED <<version, up, seen, content, score, batch>>

\* UPDATE ... WHERE dedup_key, whatever the row holds by now.
ScoringPersists(s) ==
    /\ slot[s].at = "persisting"
    /\ score' = [score EXCEPT ![slot[s].posting] = [read |-> slot[s].read, sized |-> slot[s].text]]
    /\ slot' = [slot EXCEPT ![s] = IdleSlot]
    /\ UNCHANGED <<version, up, seen, content, batch>>

-----------------------------------------------------------------------------
(* run_jd_adjudication_backfill *)

BackfillSelects ==
    LET rows == select_adjudication_candidates IN
    /\ up
    /\ batch.at = "idle"
    /\ rows # <<>>
    /\ batch' = [IdleBatch EXCEPT !.at = "judging",
                                  !.todo = [i \in DOMAIN rows |-> [posting |-> rows[i], text |-> body[rows[i]]]]]
    /\ UNCHANGED <<version, up, seen, content, score, slot>>

\* Only an ambiguous text costs an LLM call; answer None leaves the row for later.
Judge(answer) ==
    LET item == Head(batch.todo)
        class == Class[version][item.text]
        decision == IF class = "ambiguous" THEN answer ELSE class
    IN
    /\ batch.at = "judging"
    /\ batch.todo # <<>>
    /\ answer \in IF class = "ambiguous" THEN {"clean", "reject", None} ELSE {None}
    /\ batch' = [batch EXCEPT !.todo = Tail(@),
                              !.stamps = IF decision = "clean" THEN Append(@, item) ELSE @,
                              !.heals = IF decision = "reject" THEN Append(@, item) ELSE @]
    /\ UNCHANGED <<version, up, seen, content, score, slot>>

BackfillApplies ==
    /\ batch.at = "judging"
    /\ batch.todo = <<>>
    /\ batch' = [batch EXCEPT !.at = "applying"]
    /\ UNCHANGED <<version, up, seen, content, score, slot>>

BackfillStamps ==
    /\ batch.at = "applying"
    /\ batch.stamps # <<>>
    /\ stamp_adjudicated(Head(batch.stamps).posting, Head(batch.stamps).text)
    /\ batch' = [batch EXCEPT !.stamps = Tail(@)]
    /\ UNCHANGED <<version, up, seen, score, slot>>

BackfillHeals ==
    /\ batch.at = "applying"
    /\ batch.stamps = <<>>
    /\ batch.heals # <<>>
    /\ clear_jd_full(Head(batch.heals).posting, Head(batch.heals).text)
    /\ batch' = [batch EXCEPT !.heals = Tail(@)]
    /\ UNCHANGED <<version, up, seen, slot>>

BackfillEnds ==
    /\ batch.at = "applying"
    /\ batch.stamps = <<>>
    /\ batch.heals = <<>>
    /\ batch' = IdleBatch
    /\ UNCHANGED <<version, up, seen, content, score, slot>>

-----------------------------------------------------------------------------
\* The worker dies, or is replaced: only what was committed survives.
WorkerStops ==
    /\ up
    /\ up' = FALSE
    /\ slot' = [s \in Slots |-> IdleSlot]
    /\ batch' = IdleBatch
    /\ UNCHANGED <<version, seen, content, score>>

\* The same release, or one with a newer content contract, starts.
WorkerStarts ==
    /\ ~up
    /\ up' = TRUE
    /\ version' \in {version, version + 1} \cap Versions
    /\ UNCHANGED <<seen, content, score, slot, batch>>

Init ==
    /\ version = 1
    /\ up = TRUE
    /\ seen = LegacyRows
    /\ body = [p \in Postings |-> IF p \in ToSet(LegacyRows) THEN LegacyBody ELSE None]
    /\ verdict = [p \in Postings |-> None]
    /\ stamp = [p \in Postings |-> 0]
    /\ judged = [p \in Postings |-> None]
    /\ quarantined = {}
    /\ score = [p \in Postings |-> None]
    /\ slot = [s \in Slots |-> IdleSlot]
    /\ batch = IdleBatch

SlotStep(s) ==
    \/ \E p \in Postings : run_scoring(s, p) \/ \E text \in Bodies : ScanSees(s, p, text)
    \/ ScanPromotes(s) \/ PromotionFails(s)
    \/ ScoringReads(s) \/ ScoringSizes(s) \/ ScoringPersists(s) \/ ScoringEndsWithout(s)

BatchStep ==
    \/ BackfillSelects
    \/ \E answer \in {"clean", "reject", None} : Judge(answer)
    \/ BackfillApplies \/ BackfillStamps \/ BackfillHeals \/ BackfillEnds

Next == (\E s \in Slots : SlotStep(s)) \/ BatchStep \/ WorkerStops \/ WorkerStarts

Spec == Init /\ [][Next]_vars

\* What a slot does when nothing fails.
SteadySlot(s) == ScanPromotes(s) \/ ScoringReads(s) \/ ScoringSizes(s) \/ ScoringPersists(s)

(***************************************************************************)
(* The cron keeps starting batches, a worker that died is started again    *)
(* and stays up some day, and started jobs end.  LLM calls may fail for    *)
(* ever, and sources may go on offering texts.                             *)
(***************************************************************************)
BackfillFairness ==
    /\ WF_vars(BatchStep)
    /\ WF_vars(WorkerStarts)
    /\ <>[][~WorkerStops]_vars
    /\ \A s \in Slots : WF_vars(SteadySlot(s))

-----------------------------------------------------------------------------
Items == [posting : Postings, text : Bodies]

SlotRecords == [at : {"idle", "promoting", "scoring", "calling", "persisting"}, posting : Postings \cup {None},
                text : Bodies \cup {None}, new : BOOLEAN, read : Rows \cup {None}]

SlotsTyped ==
    /\ slot \in [Slots -> SlotRecords]
    /\ \A s \in Slots :
          /\ slot[s].at # "idle" => slot[s].posting \in Postings
          /\ slot[s].at = "promoting" => slot[s].text \in Bodies
          /\ slot[s].at \in {"calling", "persisting"} => slot[s].read \in Rows

RowsTyped ==
    /\ version \in Versions
    /\ body \in [Postings -> Bodies \cup {None}]
    /\ verdict \in [Postings -> Verdicts \cup {None}]
    /\ stamp \in [Postings -> 0 .. MaxVersion]
    /\ judged \in [Postings -> Bodies \cup {None}]
    /\ score \in [Postings -> Scores \cup {None}]

BatchTyped ==
    /\ batch.at \in {"idle", "judging", "applying"}
    /\ batch.todo \in Seq(Items) /\ batch.stamps \in Seq(Items) /\ batch.heals \in Seq(Items)

TypeOK ==
    /\ RowsTyped /\ SlotsTyped /\ BatchTyped
    /\ up \in BOOLEAN /\ seen \in Seq(Postings) /\ quarantined \subseteq Postings

\* A verdict in a row was given to that row's text, under some released contract.
VerdictFits(r) == r.verdict # None => \E v \in Versions : v <= version /\ r.verdict = Class[v][r.body]

\* A stamp vouches for the row's present text, and for no other.
StampFits(r) == r.stamp # 0 => r.body # None /\ r.judged = r.body

(***************************************************************************)
(* Whatever scans overwrite while a batch holds its decisions, no reader   *)
(* ever sees a verdict or a stamp that was given to another text than the  *)
(* one it stands next to.                                                  *)
(***************************************************************************)
RowsConsistent == \A p \in Postings : VerdictFits(RowOf(p)) /\ StampFits(RowOf(p))

\* The text in r may be scored: the contract found it clean, the adjudicator vouched
\* for this very text, or the row predates the verdict columns (fail-open).
Grounded(r) ==
    \/ r.verdict = None
    \/ \E v \in Versions : v <= version /\ Class[v][r.body] = "clean"
    \/ r.judged = r.body

(***************************************************************************)
(* No score, and no paid scoring call, ever comes from an ambiguous text   *)
(* that nobody vouched for, however late the call ends and whatever the    *)
(* row has become in the meantime.                                         *)
(***************************************************************************)
ScoresAreGrounded ==
    /\ \A p \in Postings : score[p] # None => Grounded(score[p].read)
    /\ \A s \in Slots : slot[s].at \in {"calling", "persisting"} => Grounded(slot[s].read)

\* The inductive invariant: what is read is consistent, so what is scored is grounded.
Inv == RowsTyped /\ SlotsTyped /\ RowsConsistent /\ ScoresAreGrounded

(***************************************************************************)
(* A stored text disappears only because that very text was judged: a      *)
(* better one fetched while the batch was deciding is never thrown away.   *)
(***************************************************************************)
HealsOnlyWhatWasJudged ==
    [][\A p \in Postings : body[p] # None /\ body'[p] = None =>
          Head(batch.heals).posting = p /\ Head(batch.heals).text = body[p]]_vars

\* An ambiguous text waits for the adjudicator.
Blocked(p) == body[p] # None /\ verdict[p] = "ambiguous" /\ stamp[p] < version

\* The LLM has no usable answer about the ambiguous text at the head of the batch.
Undecided ==
    /\ batch.todo # <<>> /\ batch'.todo = Tail(batch.todo)
    /\ Class[version][Head(batch.todo).text] = "ambiguous"
    /\ batch'.stamps = batch.stamps /\ batch'.heals = batch.heals

\* A source offers a text for a posting that it has offered before.
Rescanned == \E s \in Slots : slot[s].at = "idle" /\ slot'[s].at = "promoting" /\ ~slot'[s].new

(***************************************************************************)
(* A blocked posting gets its decision, although a batch holds fewer than  *)
(* wait, and newer and scored rows come first: only LLM calls that fail    *)
(* again and again, texts that are replaced again and again, or a rejected *)
(* re-fetch of its own keep it waiting.                                    *)
(***************************************************************************)
BlockedIsResolved ==
    \/ []<><<Undecided \/ Rescanned>>_vars
    \/ \A p \in Postings : Blocked(p) /\ p \notin quarantined ~> ~Blocked(p) \/ p \in quarantined

(***************************************************************************)
(* scoring_precheck's comment: a gated row heals the moment that it is     *)
(* adjudicated, "it cannot orphan".                                        *)
(***************************************************************************)
CannotOrphan == \A p \in Postings : Blocked(p) ~> ~Blocked(p)
=============================================================================
