----------------------------- MODULE MailIngest -----------------------------
(***************************************************************************)
(* One user's mail ingestion: runs of run_user_ingest, several at a time   *)
(* (their queueing lock only keeps a second one from waiting), share the   *)
(* UID watermark in mailbox_credentials (jobcannon/host/ingestion_tasks.py, *)
(* host/ingestion/imap_intake.py, db/_mailbox_credentials.py).  No         *)
(* database lock is held between a run's transactions.                     *)
(***************************************************************************)
EXTENDS Naturals

CONSTANTS
    Boxes,          \* mailbox folders that a credential may name
    Runs,           \* the worker's slots
    MaxMail,        \* bound on the job alerts in a folder
    MaxEpoch,       \* bound on how often a folder is recreated
    Validity,       \* the server's UIDVALIDITY of a folder in each of its epochs
    NoBox

Epochs == 0 .. MaxEpoch
Uids == 1 .. MaxMail
Messages == Boxes \X Epochs \X Uids

\* RFC 3501: a recreated folder never reuses a UIDVALIDITY.
ASSUME ValidityAssumption ==
    /\ MaxMail \in Nat /\ MaxEpoch \in Nat
    /\ Validity \in [Boxes \X Epochs -> Nat \ {0}]
    /\ \A b \in Boxes, d, e \in Epochs : Validity[<<b, d>>] = Validity[<<b, e>>] => d = e

VARIABLES
    epoch,          \* folders: how often each was recreated
    mail,           \* folders: the highest UID
    cred,           \* the credential row: folder, is_active, uid_highwater, uid_validity
    run,            \* what each run has read and fetched
    posted,         \* the messages whose postings are in the database
    taken           \* history: messages that some run fetched

world == <<epoch, mail>>
mailVars == <<world, cred, run, posted, taken>>

NoRun == [at |-> "idle", box |-> NoBox, high |-> 0, valid |-> 0, jobs |-> {}]

-----------------------------------------------------------------------------
(* The mail server *)

MailArrives(b) ==
    /\ mail[b] < MaxMail
    /\ mail' = [mail EXCEPT ![b] = @ + 1]
    /\ UNCHANGED <<epoch, cred, run, posted, taken>>

\* The provider recreates the folder: its mail is numbered anew, or gone.
FolderRecreated(b) ==
    /\ epoch[b] < MaxEpoch
    /\ epoch' = [epoch EXCEPT ![b] = @ + 1]
    /\ mail' \in {mail, [mail EXCEPT ![b] = 0]}
    /\ UNCHANGED <<cred, run, posted, taken>>

-----------------------------------------------------------------------------
(* jobcannon/db/_mailbox_credentials.py *)

\* A re-set credential starts from nothing, whatever folder it names.
set_mailbox_credential(b) ==
    /\ cred' = [box |-> b, active |-> TRUE, high |-> 0, valid |-> 0]
    /\ UNCHANGED <<world, run, posted, taken>>

deactivate_credential ==
    /\ cred.active
    /\ cred' = [cred EXCEPT !.active = FALSE]
    /\ UNCHANGED <<world, run, posted, taken>>

\* UPDATE ... WHERE user_id: both columns, whatever the row describes by now.
advance_uid_highwater(high, valid) == cred' = [cred EXCEPT !.high = high, !.valid = valid]

-----------------------------------------------------------------------------
(* run_user_ingest *)

\* build_mailbox_resolver: the mailbox to log into.
Resolves(r) ==
    /\ run[r].at = "idle"
    /\ cred.active
    /\ run' = [run EXCEPT ![r] = [at |-> "resolved", box |-> cred.box, high |-> 0, valid |-> 0, jobs |-> {}]]
    /\ UNCHANGED <<world, cred, posted, taken>>

\* get_active_for_user, another SELECT: the watermark, or a run that skips.
ReadsProgress(r) ==
    /\ run[r].at = "resolved"
    /\ run' = [run EXCEPT ![r] = IF cred.active
                                 THEN [@ EXCEPT !.at = "fetching", !.high = cred.high, !.valid = cred.valid]
                                 ELSE NoRun]
    /\ UNCHANGED <<world, cred, posted, taken>>

\* Variant: the watermark is taken for the folder's, whatever its UIDVALIDITY.
effective_highwater_any_epoch(r, live) == run[r].high

effective_highwater(r, live) == IF run[r].valid = live THEN run[r].high ELSE 0

\* select_folder, search, fetch and parse: a message that does not parse is logged and
\* counts as handled; one that is expunged before the fetch is not modelled.
Fetches(r) ==
    LET b == run[r].box
        live == Validity[<<b, epoch[b]>>]
        start == effective_highwater(r, live)
        new == {u \in 1 .. mail[b] : u > start}
        jobs == {b} \X {epoch[b]} \X new
    IN  /\ run[r].at = "fetching"
        /\ run' = [run EXCEPT ![r] = [at |-> "fetched", box |-> b, jobs |-> jobs, valid |-> live,
                                      high |-> IF new = {} THEN start ELSE mail[b]]]
        /\ taken' = taken \cup jobs
        /\ UNCHANGED <<world, cred, posted>>

\* record_run, which never raises, and the watermark; only then are the jobs returned.
Advances(r) ==
    /\ run[r].at = "fetched"
    /\ advance_uid_highwater(run[r].high, run[r].valid)
    /\ run' = [run EXCEPT ![r].at = "posting"]
    /\ UNCHANGED <<world, posted, taken>>

\* _persist_jobs: one upsert_job, one transaction each; a job error is logged.
Posts(r, m) ==
    /\ run[r].at = "posting"
    /\ m \in run[r].jobs
    /\ run' = [run EXCEPT ![r].jobs = @ \ {m}]
    /\ posted' = posted \cup {m}
    /\ UNCHANGED <<world, cred, taken>>

PostFails(r, m) ==
    /\ run[r].at = "posting"
    /\ m \in run[r].jobs
    /\ run' = [run EXCEPT ![r].jobs = @ \ {m}]
    /\ UNCHANGED <<world, cred, posted, taken>>

Ends(r) ==
    /\ run[r].at = "posting"
    /\ run[r].jobs = {}
    /\ run' = [run EXCEPT ![r] = NoRun]
    /\ UNCHANGED <<world, cred, posted, taken>>

\* The run raises (login, network, database), or its worker is killed.
RunDies(r) ==
    /\ run[r].at # "idle"
    /\ run' = [run EXCEPT ![r] = NoRun]
    /\ UNCHANGED <<world, cred, posted, taken>>

-----------------------------------------------------------------------------
MailInit ==
    /\ epoch = [b \in Boxes |-> 0]
    /\ mail = [b \in Boxes |-> 0]
    /\ \E b \in Boxes : cred = [box |-> b, active |-> FALSE, high |-> 0, valid |-> 0]
    /\ run = [r \in Runs |-> NoRun]
    /\ posted = {} /\ taken = {}

Proceeds(r) ==
    \/ ReadsProgress(r) \/ Fetches(r) \/ Advances(r) \/ Ends(r)
    \/ \E m \in run[r].jobs : Posts(r, m)

MailNext ==
    \/ \E b \in Boxes : MailArrives(b) \/ FolderRecreated(b) \/ set_mailbox_credential(b)
    \/ deactivate_credential
    \/ \E r \in Runs : Resolves(r) \/ Proceeds(r) \/ RunDies(r) \/ \E m \in run[r].jobs : PostFails(r, m)

MailSpec == MailInit /\ [][MailNext]_mailVars

(***************************************************************************)
(* The tick and the user keep deferring runs (JobQueue), and runs get on;  *)
(* they stop dying some day.                                               *)
(***************************************************************************)
Fairness ==
    /\ WF_mailVars(\E r \in Runs : Resolves(r))
    /\ \A r \in Runs : WF_mailVars(Proceeds(r))
    /\ <>[][\A r \in Runs : ~RunDies(r) \/ Proceeds(r)]_mailVars

FairSpec == MailSpec /\ Fairness

-----------------------------------------------------------------------------
Highs == 0 .. MaxMail

Valids == {0} \cup {Validity[be] : be \in Boxes \X Epochs}

RunRecords == [at : {"idle", "resolved", "fetching", "fetched", "posting"}, box : Boxes \cup {NoBox},
               high : Highs, valid : Valids, jobs : SUBSET Messages]

MailTypeOK ==
    /\ epoch \in [Boxes -> Epochs] /\ mail \in [Boxes -> Highs]
    /\ cred \in [box : Boxes, active : BOOLEAN, high : Highs, valid : Valids]
    /\ run \in [Runs -> RunRecords]
    /\ \A r \in Runs : run[r].at # "idle" => run[r].box \in Boxes
    /\ posted \subseteq Messages /\ taken \subseteq Messages

\* Every message that the watermark (high, valid) makes a run skip was fetched once.
Vouched(high, valid) ==
    \A b \in Boxes, e \in Epochs, u \in 1 .. high : Validity[<<b, e>>] = valid => <<b, e, u>> \in taken

(***************************************************************************)
(* No mail is skipped unseen: whatever runs overlap, and whatever happens  *)
(* to the folder between a run's reads and its write, the next run starts  *)
(* no later than the first message that nobody has fetched.                *)
(***************************************************************************)
NothingSkipped ==
    \A u \in 1 .. cred.high :
        Validity[<<cred.box, epoch[cred.box]>>] = cred.valid => <<cred.box, epoch[cred.box], u>> \in taken

\* What that takes of the mail servers: a UIDVALIDITY tells folders apart, too.
ValidityIdentifies ==
    \A b, c \in Boxes, d, e \in Epochs : Validity[<<b, d>>] = Validity[<<c, e>>] => b = c /\ d = e

\* Why it holds then: it is true of every watermark that a run has read or is about to write.
MailInv ==
    /\ MailTypeOK
    /\ Vouched(cred.high, cred.valid)
    /\ \A r \in Runs : Vouched(run[r].high, run[r].valid)

\* The message m is in the folder that the active credential names.
Present(m) == cred.active /\ m[1] = cred.box /\ m[2] = epoch[m[1]] /\ m[3] <= mail[m[1]]

(***************************************************************************)
(* Every alert in the folder is fetched some day: neither a run that ends  *)
(* late and moves the watermark back, nor a folder that is recreated under *)
(* a run, hides a message for ever.  (Posting it is another matter.)       *)
(***************************************************************************)
MailIsFetched == \A m \in Messages : Present(m) ~> (m \in taken \/ ~Present(m))
=============================================================================
