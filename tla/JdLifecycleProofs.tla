-------------------------- MODULE JdLifecycleProofs --------------------------
(***************************************************************************)
(* For any set of postings, texts and slots, and any contract: a verdict   *)
(* and a stamp always belong to the text that they stand next to, every    *)
(* score comes from a text that was clean, vouched for or never judged,    *)
(* and the adjudicator removes no text that it did not judge.              *)
(***************************************************************************)
EXTENDS JdLifecycle, TLAPS

\* A row read from a typed table is typed.
LEMMA RowTyped ==
  ASSUME RowsTyped, NEW p \in Postings
  PROVE  RowOf(p) \in Rows /\ RowOf(p) # None
  BY NoneAssumption DEF RowsTyped, RowOf, Rows

\* What passes the precheck may be scored.
LEMMA PrecheckGrounds ==
  ASSUME Inv, NEW p \in Postings, scoring_precheck(p)
  PROVE  Grounded(RowOf(p))
  <1>1. VerdictFits(RowOf(p)) /\ StampFits(RowOf(p))
    BY DEF Inv, RowsConsistent
  <1>2. version \in Nat \ {0} /\ stamp[p] \in Nat
    BY ContractAssumption DEF Inv, RowsTyped, Versions
  <1>3. CASE verdict[p] = None
    BY <1>3 DEF Grounded, RowOf
  <1>4. CASE verdict[p] = "clean"
    BY <1>1, <1>4, NoneAssumption DEF VerdictFits, Grounded, RowOf, Verdicts
  <1>5. CASE stamp[p] >= version
    BY <1>1, <1>2, <1>5 DEF StampFits, Grounded, RowOf
  <1> QED BY <1>3, <1>4, <1>5 DEF scoring_precheck

\* A newer release takes nothing back.
LEMMA NewerRelease ==
  ASSUME NEW r, version \in Versions, version' \in Versions, version <= version'
  PROVE  /\ VerdictFits(r) => VerdictFits(r)'
         /\ Grounded(r) => Grounded(r)'
  <1>1. \A v \in Versions : v <= version => v <= version'
    BY ContractAssumption DEF Versions
  <1> QED BY <1>1 DEF VerdictFits, Grounded

\* Storing a text, or refusing it, leaves typed and consistent rows.
LEMMA StoringIsConsistent ==
  ASSUME RowsTyped, RowsConsistent, NEW p \in Postings, NEW text \in Bodies,
         set_jd_full(p, text), UNCHANGED <<version, score>>
  PROVE  RowsTyped' /\ RowsConsistent'
  <1>1. Class[version][text] \in Verdicts /\ version \in Versions /\ version <= version
    BY ContractAssumption DEF RowsTyped, Versions
  <1>2. RowsTyped'
    <2>1. CASE Class[version][text] = "reject"
      BY <2>1 DEF RowsTyped, set_jd_full
    <2>2. CASE Class[version][text] # "reject"
      <3>1. body' \in [Postings -> Bodies \cup {None}]
        BY <2>2 DEF RowsTyped, set_jd_full
      <3>2. verdict' \in [Postings -> Verdicts \cup {None}]
        BY <1>1, <2>2 DEF RowsTyped, set_jd_full
      <3>3. stamp' \in [Postings -> 0 .. MaxVersion]
        <4>1. 0 \in 0 .. MaxVersion
          BY ContractAssumption
        <4> QED BY <2>2, <4>1 DEF RowsTyped, set_jd_full
      <3>4. judged' \in [Postings -> Bodies \cup {None}]
        BY <2>2 DEF RowsTyped, set_jd_full
      <3> QED BY <3>1, <3>2, <3>3, <3>4 DEF RowsTyped
    <2> QED BY <2>1, <2>2
  <1>3. ASSUME NEW q \in Postings PROVE VerdictFits(RowOf(q))' /\ StampFits(RowOf(q))'
    <2>1. VerdictFits(RowOf(q)) /\ StampFits(RowOf(q))
      BY DEF RowsConsistent
    <2>2. CASE UNCHANGED <<body[q], verdict[q], stamp[q], judged[q]>>
      BY <2>1, <2>2 DEF VerdictFits, StampFits, RowOf
    <2>3. CASE q = p /\ Class[version][text] # "reject" /\ body[p] = text /\ verdict[p] # None
      <3>1. UNCHANGED <<body[q], verdict[q], stamp[q], judged[q]>>
        BY <2>3 DEF set_jd_full, RowsTyped
      <3> QED BY <3>1, <2>2
    <2>4. CASE q = p /\ Class[version][text] # "reject" /\ (body[p] # text \/ verdict[p] = None)
      <3>1. body'[q] = text /\ verdict'[q] = Class[version][text]
        BY <2>4 DEF set_jd_full, RowsTyped
      <3>2. VerdictFits(RowOf(q))'
        BY <1>1, <3>1 DEF VerdictFits, RowOf
      <3>3. StampFits(RowOf(q))'
        <4>1. CASE body[p] = text
          <5>1. stamp'[q] = stamp[q] /\ judged'[q] = judged[q] /\ body[q] = text
            BY <2>4, <4>1 DEF set_jd_full, RowsTyped
          <5> QED BY <2>1, <3>1, <5>1 DEF StampFits, RowOf
        <4>2. CASE body[p] # text
          <5>1. stamp'[q] = 0
            BY <2>4, <4>2 DEF set_jd_full, RowsTyped
          <5> QED BY <5>1 DEF StampFits, RowOf
        <4> QED BY <4>1, <4>2
      <3> QED BY <3>2, <3>3
    <2>5. CASE q # p \/ Class[version][text] = "reject"
      <3>1. UNCHANGED <<body[q], verdict[q], stamp[q], judged[q]>>
        BY <2>5 DEF set_jd_full, RowsTyped
      <3> QED BY <3>1, <2>2
    <2> QED BY <2>3, <2>4, <2>5
  <1> QED BY <1>2, <1>3 DEF RowsConsistent

\* A stamp is written only next to the text that was judged.
LEMMA StampingIsConsistent ==
  ASSUME RowsTyped, RowsConsistent, NEW p, NEW text,
         stamp_adjudicated(p, text), UNCHANGED <<version, score>>
  PROVE  RowsTyped' /\ RowsConsistent'
  <1>1. CASE ~StillHolds(p, text)
    <2>1. UNCHANGED content
      BY <1>1 DEF stamp_adjudicated
    <2> QED BY <2>1 DEF content, RowsTyped, RowsConsistent, VerdictFits, StampFits, RowOf
  <1>2. CASE StillHolds(p, text)
    <2>1. /\ stamp' = [stamp EXCEPT ![p] = version]
          /\ judged' = [judged EXCEPT ![p] = text]
          /\ UNCHANGED <<body, verdict, quarantined>>
          /\ body[p] # None /\ body[p] = text
      BY <1>2 DEF stamp_adjudicated, StillHolds
    <2>2. version \in 0 .. MaxVersion
      BY ContractAssumption DEF RowsTyped, Versions
    <2>3. RowsTyped'
      BY <2>1, <2>2 DEF RowsTyped
    <2>4. ASSUME NEW q \in Postings PROVE VerdictFits(RowOf(q))' /\ StampFits(RowOf(q))'
      <3>1. VerdictFits(RowOf(q)) /\ StampFits(RowOf(q))
        BY DEF RowsConsistent
      <3>2. q = p => judged'[q] = body[q] /\ body[q] # None
        BY <2>1 DEF RowsTyped
      <3>3. q # p => judged'[q] = judged[q] /\ stamp'[q] = stamp[q]
        BY <2>1 DEF RowsTyped
      <3> QED BY <2>1, <3>1, <3>2, <3>3 DEF VerdictFits, StampFits, RowOf
    <2> QED BY <2>3, <2>4 DEF RowsConsistent
  <1> QED BY <1>1, <1>2

\* A heal leaves a NULL body, verdict and stamp, and no score.
LEMMA HealingIsConsistent ==
  ASSUME RowsTyped, RowsConsistent, NEW p, NEW text, clear_jd_full(p, text), UNCHANGED version
  PROVE  /\ RowsTyped' /\ RowsConsistent'
         /\ \A q \in Postings : score'[q] \in {score[q], None}
         /\ \A q \in Postings : body[q] # None /\ body'[q] = None => q = p /\ body[q] = text
  <1>1. CASE ~StillHolds(p, text)
    <2>1. UNCHANGED <<content, score>>
      BY <1>1 DEF clear_jd_full
    <2> QED BY <2>1 DEF content, RowsTyped, RowsConsistent, VerdictFits, StampFits, RowOf
  <1>2. CASE StillHolds(p, text)
    <2>1. /\ body' = [body EXCEPT ![p] = None]
          /\ verdict' = [verdict EXCEPT ![p] = None]
          /\ stamp' = [stamp EXCEPT ![p] = 0]
          /\ judged' = [judged EXCEPT ![p] = None]
          /\ quarantined' = quarantined \cup {p}
          /\ score' = [score EXCEPT ![p] = None]
          /\ body[p] = text
      BY <1>2 DEF clear_jd_full, StillHolds
    <2>2. ASSUME NEW q \in Postings
          PROVE  /\ VerdictFits(RowOf(q))' /\ StampFits(RowOf(q))'
                 /\ score'[q] \in {score[q], None}
                 /\ body[q] # None /\ body'[q] = None => q = p /\ body[q] = text
      <3>1. VerdictFits(RowOf(q)) /\ StampFits(RowOf(q))
        BY DEF RowsConsistent
      <3>2. CASE q = p
        <4>1. verdict'[q] = None /\ stamp'[q] = 0 /\ score'[q] = None
          BY <2>1, <3>2 DEF RowsTyped
        <4> QED BY <2>1, <3>2, <4>1 DEF VerdictFits, StampFits, RowOf
      <3>3. CASE q # p
        <4>1. UNCHANGED <<body[q], verdict[q], stamp[q], judged[q], score[q]>>
          BY <2>1, <3>3 DEF RowsTyped
        <4> QED BY <3>1, <4>1 DEF VerdictFits, StampFits, RowOf
      <3> QED BY <3>2, <3>3
    <2>3. RowsTyped'
      <3>1. 0 \in 0 .. MaxVersion
        BY ContractAssumption
      <3>2. body' \in [Postings -> Bodies \cup {None}] /\ judged' \in [Postings -> Bodies \cup {None}]
        BY <2>1 DEF RowsTyped
      <3>3. verdict' \in [Postings -> Verdicts \cup {None}] /\ score' \in [Postings -> Scores \cup {None}]
        BY <2>1 DEF RowsTyped
      <3>4. stamp' \in [Postings -> 0 .. MaxVersion]
        BY <2>1, <3>1 DEF RowsTyped
      <3> QED BY <3>2, <3>3, <3>4 DEF RowsTyped
    <2> QED BY <2>2, <2>3 DEF RowsConsistent
  <1> QED BY <1>1, <1>2
\* Every step that leaves the rows alone, and hands no slot a call, keeps the invariant.
LEMMA RowsKept ==
  ASSUME RowsTyped, RowsConsistent, UNCHANGED <<version, content, score>>
  PROVE  RowsTyped' /\ RowsConsistent'
  BY DEF RowsTyped, RowsConsistent, content, VerdictFits, StampFits, RowOf

\* What is grounded stays so when neither the release nor a score changes, or when
\* the scores only disappear, as long as no slot starts a call.
LEMMA GroundsKept ==
  ASSUME Inv, version' = version,
         \A q \in Postings : score'[q] \in {score[q], None},
         \A s \in Slots : slot'[s].at \in {"calling", "persisting"} => slot'[s] = slot[s]
  PROVE  ScoresAreGrounded'
  <1>1. \A r : Grounded(r) => Grounded(r)'
    BY DEF Grounded
  <1>2. ASSUME NEW q \in Postings, score'[q] # None PROVE Grounded(score[q].read)' /\ score'[q] = score[q]
    BY <1>1, <1>2 DEF Inv, ScoresAreGrounded
  <1>3. ASSUME NEW s \in Slots, slot'[s].at \in {"calling", "persisting"} PROVE Grounded(slot'[s].read)
    BY <1>3 DEF Inv, ScoresAreGrounded
  <1> QED BY <1>2, <1>3 DEF ScoresAreGrounded, Grounded
LEMMA InitInv == Init => Inv
  <1> SUFFICES ASSUME Init PROVE Inv
    OBVIOUS
  <1>1. RowsTyped
    <2>1. 1 \in Versions /\ 0 \in 0 .. MaxVersion
      BY ContractAssumption DEF Versions
    <2>2. body \in [Postings -> Bodies \cup {None}]
      BY ContractAssumption DEF Init
    <2> QED BY <2>1, <2>2 DEF RowsTyped, Init
  <1>2. SlotsTyped
    BY DEF Init, SlotsTyped, SlotRecords, IdleSlot
  <1>3. RowsConsistent
    BY DEF Init, RowsConsistent, VerdictFits, StampFits, RowOf
  <1>4. ScoresAreGrounded
    BY DEF Init, ScoresAreGrounded, IdleSlot
  <1> QED BY <1>1, <1>2, <1>3, <1>4 DEF Inv

\* A slot's attempt moves on; only the steps of a scoring touch scores or calls.
LEMMA SlotStepInv ==
  ASSUME Inv, NEW s \in Slots, SlotStep(s)
  PROVE  Inv'
  <1> USE DEF Inv
  <1>1. ASSUME NEW p \in Postings, run_scoring(s, p) PROVE Inv'
    <2>1. SlotsTyped'
      BY <1>1 DEF run_scoring, SlotsTyped, SlotRecords, IdleSlot
    <2>2. RowsTyped' /\ RowsConsistent'
      BY <1>1, RowsKept DEF run_scoring
    <2>3. \A t \in Slots : slot'[t].at \in {"calling", "persisting"} => slot'[t] = slot[t]
      BY <1>1 DEF run_scoring, SlotsTyped, IdleSlot
    <2>4. ScoresAreGrounded'
      BY <1>1, <2>3, GroundsKept DEF run_scoring
    <2> QED BY <2>1, <2>2, <2>4
  <1>2. ASSUME NEW p \in Postings, NEW text \in Bodies, ScanSees(s, p, text) PROVE Inv'
    <2>1. SlotsTyped'
      BY <1>2 DEF ScanSees, SlotsTyped, SlotRecords, IdleSlot
    <2>2. RowsTyped' /\ RowsConsistent'
      BY <1>2, RowsKept DEF ScanSees
    <2>3. \A t \in Slots : slot'[t].at \in {"calling", "persisting"} => slot'[t] = slot[t]
      BY <1>2 DEF ScanSees, SlotsTyped, IdleSlot
    <2>4. ScoresAreGrounded'
      BY <1>2, <2>3, GroundsKept DEF ScanSees
    <2> QED BY <2>1, <2>2, <2>4
  <1>3. ASSUME slot[s].at = "promoting", AfterPromotion(s)
        PROVE  SlotsTyped' /\ \A t \in Slots : slot'[t].at \in {"calling", "persisting"} => slot'[t] = slot[t]
    <2>1. SlotsTyped'
      BY <1>3 DEF AfterPromotion, SlotsTyped, SlotRecords, IdleSlot
    <2>2. \A t \in Slots : slot'[t].at \in {"calling", "persisting"} => slot'[t] = slot[t]
      BY <1>3 DEF AfterPromotion, SlotsTyped, IdleSlot
    <2> QED BY <2>1, <2>2
  <1>4. CASE ScanPromotes(s)
    <2>1. slot[s].posting \in Postings /\ slot[s].text \in Bodies
      BY <1>4 DEF ScanPromotes, SlotsTyped
    <2>2. RowsTyped' /\ RowsConsistent'
      BY <1>4, <2>1, StoringIsConsistent DEF ScanPromotes
    <2>3. ScoresAreGrounded'
      BY <1>3, <1>4, GroundsKept DEF ScanPromotes
    <2> QED BY <1>3, <1>4, <2>2, <2>3 DEF ScanPromotes
  <1>5. CASE PromotionFails(s)
    <2>1. RowsTyped' /\ RowsConsistent'
      BY <1>5, RowsKept DEF PromotionFails
    <2>2. ScoresAreGrounded'
      BY <1>3, <1>5, GroundsKept DEF PromotionFails
    <2> QED BY <1>3, <1>5, <2>1, <2>2 DEF PromotionFails
  <1>6. CASE ScoringReads(s)
    <2> DEFINE p == slot[s].posting
    <2>1. p \in Postings
      BY <1>6 DEF ScoringReads, SlotsTyped
    <2>2. RowOf(p) \in Rows
      BY <2>1, RowTyped
    <2>3. SlotsTyped'
      BY <1>6, <2>2 DEF ScoringReads, SlotsTyped, SlotRecords, IdleSlot
    <2>4. RowsTyped' /\ RowsConsistent'
      BY <1>6, RowsKept DEF ScoringReads
    <2>5. version' = version /\ score' = score
      BY <1>6 DEF ScoringReads
    <2>6. \A q \in Postings : score'[q] # None => Grounded(score'[q].read)
      BY <2>5 DEF ScoresAreGrounded
    <2>7. ASSUME NEW t \in Slots, slot'[t].at \in {"calling", "persisting"} PROVE Grounded(slot'[t].read)
      <3>1. CASE t = s /\ scoring_precheck(p)
        <4>1. slot'[t].read = RowOf(p)
          BY <1>6, <3>1 DEF ScoringReads, SlotsTyped, SlotRecords
        <4> QED BY <2>1, <3>1, <4>1, PrecheckGrounds
      <3>2. CASE t # s
        <4>1. slot'[t] = slot[t]
          BY <1>6, <3>2 DEF ScoringReads, SlotsTyped
        <4> QED BY <2>7, <4>1 DEF ScoresAreGrounded
      <3>3. CASE t = s /\ ~scoring_precheck(p)
        BY <1>6, <2>7, <3>3 DEF ScoringReads, SlotsTyped, IdleSlot
      <3> QED BY <3>1, <3>2, <3>3
    <2> QED BY <2>3, <2>4, <2>5, <2>6, <2>7 DEF ScoresAreGrounded, Grounded
  <1>7. CASE ScoringEndsWithout(s)
    <2>1. SlotsTyped'
      BY <1>7 DEF ScoringEndsWithout, SlotsTyped, SlotRecords, IdleSlot
    <2>2. RowsTyped' /\ RowsConsistent'
      BY <1>7, RowsKept DEF ScoringEndsWithout
    <2>3. \A t \in Slots : slot'[t].at \in {"calling", "persisting"} => slot'[t] = slot[t]
      BY <1>7 DEF ScoringEndsWithout, SlotsTyped, IdleSlot
    <2>4. ScoresAreGrounded'
      BY <1>7, <2>3, GroundsKept DEF ScoringEndsWithout
    <2> QED BY <2>1, <2>2, <2>4
  <1>8. CASE ScoringPersists(s)
    <2> DEFINE p == slot[s].posting
               r == slot[s].read
    <2>1. p \in Postings /\ r \in Rows /\ slot[s].text \in Bodies \cup {None} /\ Grounded(r)
      BY <1>8 DEF ScoringPersists, SlotsTyped, SlotRecords, ScoresAreGrounded
    <2>2. SlotsTyped'
      BY <1>8 DEF ScoringPersists, SlotsTyped, SlotRecords, IdleSlot
    <2>3. /\ RowsTyped'
          /\ \A q \in Postings : score'[q] # None => Grounded(score'[q].read)
      <3> DEFINE new == [read |-> r, sized |-> slot[s].text]
      <3>1. new \in Scores /\ new.read = r /\ score' = [score EXCEPT ![p] = new]
        BY <1>8, <2>1 DEF ScoringPersists, Scores
      <3> HIDE DEF new
      <3>2. RowsTyped'
        BY <1>8, <3>1 DEF ScoringPersists, content, RowsTyped
      <3>3. \A q \in Postings : score'[q] = IF q = p THEN new ELSE score[q]
        BY <3>1 DEF RowsTyped
      <3> QED BY <2>1, <3>1, <3>2, <3>3 DEF ScoresAreGrounded
    <2>4. RowsConsistent'
      BY <1>8 DEF ScoringPersists, content, RowsConsistent, VerdictFits, StampFits, RowOf
    <2>5. \A t \in Slots : slot'[t].at \in {"calling", "persisting"} => Grounded(slot'[t].read)
      BY <1>8 DEF ScoringPersists, ScoresAreGrounded, SlotsTyped, IdleSlot
    <2>6. version' = version
      BY <1>8 DEF ScoringPersists
    <2> QED BY <2>2, <2>3, <2>4, <2>5, <2>6 DEF ScoresAreGrounded, Grounded
  <1>9. CASE ScoringSizes(s)
    <2> DEFINE p == slot[s].posting
    <2>1. /\ p \in Postings /\ body[p] \in Bodies \cup {None} /\ slot[s] \in SlotRecords
          /\ slot[s].read \in Rows /\ Grounded(slot[s].read)
      BY <1>9 DEF ScoringSizes, SlotsTyped, RowsTyped, ScoresAreGrounded
    <2>2. slot' = [slot EXCEPT ![s] = [slot[s] EXCEPT !.at = "persisting", !.text = body[p]]]
      BY <1>9, <2>1 DEF ScoringSizes, SlotsTyped
    <2>3. /\ slot'[s] \in SlotRecords /\ slot'[s].at = "persisting"
          /\ slot'[s].read = slot[s].read /\ slot'[s].posting = p
          /\ \A t \in Slots \ {s} : slot'[t] = slot[t]
          /\ slot' \in [Slots -> SlotRecords]
      BY <2>1, <2>2 DEF SlotsTyped, SlotRecords
    <2>4. SlotsTyped'
      BY <2>1, <2>3 DEF SlotsTyped
    <2>5. RowsTyped' /\ RowsConsistent'
      BY <1>9, RowsKept DEF ScoringSizes
    <2>6. \A t \in Slots : slot'[t].at \in {"calling", "persisting"} => Grounded(slot'[t].read)
      BY <2>1, <2>3 DEF ScoresAreGrounded
    <2>7. version' = version /\ score' = score
      BY <1>9 DEF ScoringSizes
    <2> QED BY <2>4, <2>5, <2>6, <2>7 DEF ScoresAreGrounded, Grounded
  <1> QED BY <1>1, <1>2, <1>4, <1>5, <1>6, <1>7, <1>8, <1>9 DEF SlotStep

\* Of the batch only the stamps and the heals touch the rows, and nothing of it the slots.
LEMMA BatchStepInv ==
  ASSUME Inv, BatchStep
  PROVE  Inv'
  <1> USE DEF Inv
  <1>1. slot' = slot /\ version' = version
    BY DEF BatchStep, BackfillSelects, Judge, BackfillApplies, BackfillStamps, BackfillHeals, BackfillEnds
  <1>2. SlotsTyped'
    BY <1>1 DEF SlotsTyped
  <1>3. CASE UNCHANGED <<content, score>>
    <2>1. RowsTyped' /\ RowsConsistent'
      BY <1>1, <1>3, RowsKept
    <2>2. ScoresAreGrounded'
      BY <1>1, <1>3, GroundsKept
    <2> QED BY <1>2, <2>1, <2>2
  <1>4. CASE BackfillStamps
    <2>1. RowsTyped' /\ RowsConsistent'
      BY <1>1, <1>4, StampingIsConsistent DEF BackfillStamps
    <2>2. ScoresAreGrounded'
      BY <1>1, <1>4, GroundsKept DEF BackfillStamps
    <2> QED BY <1>2, <2>1, <2>2
  <1>5. CASE BackfillHeals
    <2>1. /\ RowsTyped' /\ RowsConsistent'
          /\ \A q \in Postings : score'[q] \in {score[q], None}
      BY <1>1, <1>5, HealingIsConsistent DEF BackfillHeals
    <2>2. ScoresAreGrounded'
      BY <1>1, <2>1, GroundsKept
    <2> QED BY <1>2, <2>1, <2>2
  <1> QED BY <1>3, <1>4, <1>5 DEF BatchStep, BackfillSelects, Judge, BackfillApplies, BackfillEnds

LEMMA StepInv == Inv /\ [Next]_vars => Inv'
  <1> SUFFICES ASSUME Inv, [Next]_vars PROVE Inv'
    OBVIOUS
  <1> USE DEF Inv
  <1>1. ASSUME NEW s \in Slots, SlotStep(s) PROVE Inv'
    BY <1>1, SlotStepInv
  <1>2. CASE BatchStep
    BY <1>2, BatchStepInv
  <1>3. CASE WorkerStops
    <2>1. SlotsTyped'
      BY <1>3 DEF WorkerStops, SlotsTyped, SlotRecords, IdleSlot
    <2>2. RowsTyped' /\ RowsConsistent'
      BY <1>3, RowsKept DEF WorkerStops
    <2>3. \A t \in Slots : slot'[t].at \in {"calling", "persisting"} => slot'[t] = slot[t]
      BY <1>3 DEF WorkerStops, IdleSlot
    <2>4. ScoresAreGrounded'
      BY <1>3, <2>3, GroundsKept DEF WorkerStops
    <2> QED BY <2>1, <2>2, <2>4
  <1>4. CASE WorkerStarts
    <2>1. version' \in Versions /\ version <= version'
      BY <1>4, ContractAssumption DEF WorkerStarts, RowsTyped, Versions
    <2>2. UNCHANGED <<body, verdict, stamp, judged, score, slot>>
      BY <1>4 DEF WorkerStarts, content
    <2>3. \A r : (VerdictFits(r) => VerdictFits(r)') /\ (Grounded(r) => Grounded(r)')
      BY <2>1, NewerRelease DEF RowsTyped
    <2>4. RowsTyped' /\ SlotsTyped'
      BY <2>1, <2>2 DEF RowsTyped, SlotsTyped
    <2>5. RowsConsistent'
      BY <2>2, <2>3 DEF RowsConsistent, RowOf, StampFits, VerdictFits
    <2>6. ScoresAreGrounded'
      BY <2>2, <2>3 DEF ScoresAreGrounded, Grounded
    <2> QED BY <2>4, <2>5, <2>6
  <1>5. CASE UNCHANGED vars
    <2>1. UNCHANGED <<version, content, score, slot>>
      BY <1>5 DEF vars
    <2>2. RowsTyped' /\ RowsConsistent'
      BY <2>1, RowsKept
    <2>3. ScoresAreGrounded' /\ SlotsTyped'
      BY <2>1, GroundsKept DEF SlotsTyped
    <2> QED BY <2>2, <2>3
  <1> QED BY <1>1, <1>2, <1>3, <1>4, <1>5 DEF Next

\* What the scoring gate, the writers and the batch preserve together.
THEOREM InvHolds == Spec => []Inv
  BY InitInv, StepInv, PTL DEF Spec

\* No interleaving of scans, scorings and batches leaves a verdict or a stamp (set_jd_full,
\* stamp_adjudicated, clear_jd_full) next to a text that it was not given to.
THEOREM RowsConsistentHolds == Spec => []RowsConsistent
  <1>1. Inv => RowsConsistent
    BY DEF Inv
  <1> QED BY <1>1, InvHolds, PTL

\* No score, and no scoring call in flight, comes from an ambiguous text that nobody
\* vouched for (scoring_precheck, score_and_persist_job).
THEOREM ScoresAreGroundedHolds == Spec => []ScoresAreGrounded
  <1>1. Inv => ScoresAreGrounded
    BY DEF Inv
  <1> QED BY <1>1, InvHolds, PTL

\* clear_jd_full's premise: only the text that the adjudicator judged is ever removed.
THEOREM HealsOnlyWhatWasJudgedHolds == Spec => HealsOnlyWhatWasJudged
  <1> DEFINE Judged == \A p \in Postings : body[p] # None /\ body'[p] = None =>
                           Head(batch.heals).posting = p /\ Head(batch.heals).text = body[p]
  <1>1. Inv /\ [Next]_vars => [Judged]_vars
    <2> SUFFICES ASSUME Inv, Next PROVE Judged
      BY DEF vars
    <2> USE DEF Inv
    <2>1. CASE body' = body
      BY <2>1
    <2>2. ASSUME NEW s \in Slots, ScanPromotes(s) PROVE Judged
      <3>1. slot[s].posting \in Postings /\ slot[s].text \in Bodies
        BY <2>2 DEF ScanPromotes, SlotsTyped
      <3>2. body' = body \/ body' = [body EXCEPT ![slot[s].posting] = slot[s].text]
        BY <2>2 DEF ScanPromotes, set_jd_full
      <3> QED BY <3>1, <3>2, NoneAssumption DEF RowsTyped
    <2>3. CASE BackfillHeals
      BY <2>3, HealingIsConsistent DEF BackfillHeals
    <2> QED BY <2>1, <2>2, <2>3 DEF Next, SlotStep, run_scoring, ScanSees, PromotionFails, ScoringReads,
              ScoringEndsWithout, ScoringSizes, ScoringPersists, BatchStep, BackfillSelects, Judge, BackfillApplies,
              BackfillStamps, BackfillEnds, stamp_adjudicated, WorkerStops, WorkerStarts, content
  <1> QED BY <1>1, InvHolds, PTL DEF Spec, HealsOnlyWhatWasJudged
=============================================================================
