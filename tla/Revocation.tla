----------------------------- MODULE Revocation -----------------------------
(***************************************************************************)
(* The stale-token window of an account deletion, for one Clerk subject:   *)
(* the revoked_subjects tombstone (jobcannon/db/_revoked_subjects.py), the *)
(* two writers of it (POST /account/delete and the user.deleted webhook),  *)
(* the reaper that prunes it, and the gate that reads it on every          *)
(* authenticated request (clerk_auth).  Tokens are verified locally, so a  *)
(* token outlives the account that it was minted for; the tombstone is     *)
(* what rejects it.                                                        *)
(*                                                                         *)
(* Time is discrete.  A token is represented by its iat claim, stamped by  *)
(* Clerk's clock, which may differ from the database's by ClockSkew.       *)
(***************************************************************************)
EXTENDS Integers, FiniteSets

CONSTANTS
    Requests,       \* the web server's concurrent request slots
    JwtLife,        \* lifetime of a Clerk session JWT, verifier's leeway included
    TTL,            \* REVOCATION_TTL_MINUTES
    Tolerance,      \* CLOCK_SKEW_TOLERANCE_SECONDS
    ClockSkew,      \* |Clerk's clock - the database's clock|
    MaxTime,        \* bound on the clock, for model checking
    NoTombstone     \* no revoked_subjects row

ASSUME TimesAssumption ==
    /\ JwtLife \in Nat \ {0} /\ TTL \in Nat /\ Tolerance \in Nat
    /\ ClockSkew \in Nat /\ MaxTime \in Nat

\* "generous versus Clerk's ~60s JWT lifetime": 5 s + 60 s against 15 minutes.
ASSUME TTLOutlivesTokens == Tolerance + JwtLife <= TTL

\* What the tolerance is for: "plausible Clerk-vs-Postgres clock drift".
ASSUME ToleranceCoversSkew == ClockSkew <= Tolerance

ASSUME NoTombstoneAssumption == NoTombstone \notin [revoked_at : Nat, expires_at : Nat]

VARIABLES
    now,        \* the database clock
    identity,   \* what Clerk holds: "live", deleted "in_app" or deleted in its "portal"
    tombstone,  \* the subject's revoked_subjects row
    tokens,     \* iats of the minted JWTs that the local verification still accepts
    request,    \* the slots: where each request is
    notified,   \* history: has a user.deleted delivery committed its tombstone?
    deniedUpTo  \* history: the last iat that the latest stamp promised to deny

tokenVars == <<now, identity, tombstone, tokens, request, notified, deniedUpTo>>
history == <<notified, deniedUpTo>>

Tombstones == [revoked_at : Nat, expires_at : Nat] \cup {NoTombstone}

(***************************************************************************)
(* A request is idle, past the gate ("handling"), waiting for Clerk's      *)
(* answer to users.delete ("calling"), or given up on by the handler while *)
(* Clerk may still act on the call ("abandoned").  lookup records how the  *)
(* gate decided: by reading the table, or by failing open; iat is that of  *)
(* the token that it let in.                                               *)
(***************************************************************************)
RequestStates == [at     : {"idle", "handling", "calling", "abandoned"},
                  lookup : {"none", "read", "failed"},
                  iat    : Nat]

Idle == [at |-> "idle", lookup |-> "none", iat |-> 0]

CallPending(r) == request[r].at \in {"calling", "abandoned"}

-----------------------------------------------------------------------------
(* jobcannon/db/_revoked_subjects.py *)

\* The row revoke_subject leaves: both columns are stamped from this call's now().
revoke_subject ==
    /\ tombstone' = [revoked_at |-> now, expires_at |-> now + TTL]
    /\ deniedUpTo' = now + Tolerance

\* Variant: the tolerance narrows the deny band instead of widening it.
is_subject_revoked_flipped(issued_at) ==
    /\ tombstone # NoTombstone
    /\ tombstone.expires_at > now
    /\ issued_at <= tombstone.revoked_at - Tolerance

\* A row counts only while it is unexpired, and denies what it cannot prove newer.
is_subject_revoked(issued_at) ==
    /\ tombstone # NoTombstone
    /\ tombstone.expires_at > now
    /\ issued_at <= tombstone.revoked_at + Tolerance

\* Variant: the reaper takes every row.
prune_all_revocations ==
    /\ tombstone # NoTombstone
    /\ tombstone' = NoTombstone
    /\ UNCHANGED <<now, identity, tokens, request, history>>

\* The reaper deletes a row at its expires_at, the first instant it denies nothing.
prune_expired_revocations ==
    /\ tombstone # NoTombstone
    /\ tombstone.expires_at <= now
    /\ tombstone' = NoTombstone
    /\ UNCHANGED <<now, identity, tokens, request, history>>

-----------------------------------------------------------------------------
(* Clerk and the clock (external) *)

\* Clerk mints a token, at sign-in or at a session refresh, for a live account only.
ClerkMints(iat) ==
    /\ identity = "live"
    /\ iat \notin tokens
    /\ now < iat + JwtLife
    /\ tokens' = tokens \cup {iat}
    /\ UNCHANGED <<now, identity, tombstone, request, history>>

\* The user deletes the account in Clerk's Account Portal, without this program.
PortalDeletes ==
    /\ identity = "live"
    /\ identity' = "portal"
    /\ UNCHANGED <<now, tombstone, tokens, request, history>>

\* Time passes, whatever calls are open; the local RS256 verification drops tokens
\* at their exp.
Tick ==
    /\ now < MaxTime
    /\ now' = now + 1
    /\ tokens' = {iat \in tokens : now' < iat + JwtLife}
    /\ UNCHANGED <<identity, tombstone, request, history>>

-----------------------------------------------------------------------------
(* clerk_auth: the gate in front of every authenticated route *)

\* A verified token is checked against the table.  A revoked one gets a 401 and
\* changes nothing on the server; a failed lookup counts as not revoked.
clerk_auth(r, iat) ==
    /\ request[r].at = "idle"
    /\ iat \in tokens
    /\ \/ /\ ~is_subject_revoked(iat)
          /\ request' = [request EXCEPT ![r] = [at |-> "handling", lookup |-> "read", iat |-> iat]]
       \/ request' = [request EXCEPT ![r] = [at |-> "handling", lookup |-> "failed", iat |-> iat]]
    /\ UNCHANGED <<now, identity, tombstone, tokens, history>>

\* Any handler answers: another route, an unconfirmed deletion (400), or a
\* deletion whose tombstone write failed (502, Clerk never called).
Answer(r) ==
    /\ request[r].at = "handling"
    /\ request' = [request EXCEPT ![r] = Idle]
    /\ UNCHANGED <<now, identity, tombstone, tokens, history>>

-----------------------------------------------------------------------------
(* POST /account/delete *)

\* post_delete commits the tombstone on its own connection, then calls Clerk: with no
\* time limit of its own, and with the SDK's retries behind it.
post_delete(r) ==
    /\ request[r].at = "handling"
    /\ revoke_subject
    /\ request' = [request EXCEPT ![r].at = "calling"]
    /\ UNCHANGED <<now, identity, tokens, notified>>

\* Clerk executes the call.  Whether the answer then arrives (session.clear) or is
\* lost (502), nothing else changes on the server.
ClerkDeletes(r) ==
    /\ CallPending(r)
    /\ identity' = IF identity = "live" THEN "in_app" ELSE identity
    /\ request' = [request EXCEPT ![r] = Idle]
    /\ UNCHANGED <<now, tombstone, tokens, history>>

\* The call fails for good, or this process dies before it is sent: 502.  The
\* tombstone stays, on purpose: the handler cannot tell this from a lost answer.
ClerkRefuses(r) ==
    /\ CallPending(r)
    /\ request' = [request EXCEPT ![r] = Idle]
    /\ UNCHANGED <<now, identity, tombstone, tokens, history>>

\* The SDK gives up on the answer: the handler answers 502 while Clerk may still act on the call.
CallTimesOut(r) ==
    /\ request[r].at = "calling"
    /\ request' = [request EXCEPT ![r].at = "abandoned"]
    /\ UNCHANGED <<now, identity, tombstone, tokens, history>>

-----------------------------------------------------------------------------
\* The revocation half of a user.deleted delivery: at least once, at any time.
clerk_webhook_revokes ==
    /\ identity # "live"
    /\ revoke_subject
    /\ notified' = TRUE
    /\ UNCHANGED <<now, identity, tokens, request>>

TokenInit ==
    /\ now = ClockSkew
    /\ identity = "live"
    /\ tombstone = NoTombstone
    /\ tokens = {}
    /\ request = [r \in Requests |-> Idle]
    /\ notified = FALSE
    /\ deniedUpTo = -1

MintTimes == (now - ClockSkew) .. (now + ClockSkew)

RequestStep(r) ==
    \/ \E iat \in tokens : clerk_auth(r, iat)
    \/ Answer(r)
    \/ post_delete(r)
    \/ ClerkDeletes(r)
    \/ ClerkRefuses(r)
    \/ CallTimesOut(r)

TokenNext ==
    \/ Tick
    \/ \E iat \in MintTimes : ClerkMints(iat)
    \/ PortalDeletes
    \/ clerk_webhook_revokes
    \/ prune_expired_revocations
    \/ \E r \in Requests : RequestStep(r)

TokenSpec == TokenInit /\ [][TokenNext]_tokenVars

-----------------------------------------------------------------------------
TokenTypeOK ==
    /\ now \in Nat
    /\ identity \in {"live", "in_app", "portal"}
    /\ tombstone \in Tombstones
    /\ tokens \subseteq Nat
    /\ request \in [Requests -> RequestStates]
    /\ notified \in BOOLEAN
    /\ deniedUpTo \in Int

\* This step lets a request past the gate on a lookup that worked.
Admitted(r) == request[r].at = "idle" /\ request'[r].lookup = "read"

(***************************************************************************)
(* What a tombstone promised to deny stays denied, for as long as a token  *)
(* verifies: through other requests' and deliveries' re-stamps, the row's  *)
(* expiry and its pruning. Once a user.deleted delivery has been handled,  *)
(* nothing is let in any more. Between Clerk's deletion and that delivery  *)
(* a token minted while post_delete waited for Clerk, later than Tolerance *)
(* after the tombstone, is admitted; how long the wait is, nothing bounds. *)
(***************************************************************************)
NoStaleAdmission ==
    [][\A r \in Requests :
          Admitted(r) => ~notified /\ request'[r].iat > deniedUpTo]_tokenVars

(***************************************************************************)
(* reap_revoked_subjects does retention, not correctness: the row goes     *)
(* only when no token that it was written to deny verifies any more, and,  *)
(* once Clerk has reported the deletion, when none of the subject's does.  *)
(***************************************************************************)
PruneOutlivesTokens ==
    [][tombstone # NoTombstone /\ tombstone' = NoTombstone =>
          \A iat \in tokens : ~notified /\ iat > deniedUpTo]_tokenVars

\* A slot is cleared when its request is answered.
IdleSlotsClear == \A r \in Requests : request[r].at = "idle" => request[r] = Idle

\* Tokens come from Clerk's clock: none is from further ahead than the skew.
TokensNotFromFuture == ClockSkew <= now /\ \A iat \in tokens : iat <= now + ClockSkew

TokensVerify == \A iat \in tokens : now < iat + JwtLife

\* The row is the latest stamp; without one, that stamp denies no token that could
\* still verify.
RowKeepsPromise ==
    IF tombstone = NoTombstone
    THEN deniedUpTo = -1 \/ deniedUpTo + JwtLife <= now
    ELSE /\ deniedUpTo = tombstone.revoked_at + Tolerance
         /\ tombstone.expires_at = tombstone.revoked_at + TTL

\* After a reported deletion every token that still verifies is in the deny band.
NotifiedDeniesAll ==
    notified => /\ identity # "live"
                /\ \A iat \in tokens : iat <= deniedUpTo

(***************************************************************************)
(* The inductive invariant behind NoStaleAdmission: the row outlives every *)
(* token that it was written to deny.                                      *)
(***************************************************************************)
TokenInv ==
    /\ TokenTypeOK
    /\ IdleSlotsClear
    /\ TokensNotFromFuture
    /\ TokensVerify
    /\ RowKeepsPromise
    /\ NotifiedDeniesAll
=============================================================================
