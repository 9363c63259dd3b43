---------------------------- MODULE MCUserErasure ----------------------------
(***************************************************************************)
(* The instance of UserErasure has two kinds of behaviours: from an empty  *)
(* table one user does everything in every order, and from a table of      *)
(* settled rows, a state Init reaches, sweeps meet departures whose        *)
(* deliveries are all lost.                                                *)
(***************************************************************************)
EXTENDS UserErasure

FourRows == <<"user_a", "user_b", "user_c", "user_d">>

\* Tenants who signed up days ago.
SettledInit ==
    /\ account = [u \in Users |-> "live"]
    /\ row = [u \in Users |-> "settled"]
    /\ unchecked = FourRows
    /\ checked = <<>>
    /\ upserts = {}
    /\ deletion = [u \in Users |-> "unsent"]
    /\ handling = {}
    /\ appOpen = FALSE
    /\ stale = {}
    /\ inflight = {}
    /\ sweep = NoSweep
    /\ purge = [u \in Users |-> "none"]
    /\ swallowed = {}

\* The sweep, with all but one of the accounts deleted meanwhile: no delivery and no request arrives, and
\* no enqueue fails.
SweepOnly ==
    \/ \E u \in Users : LookupStep(u) \/ SweepErases(u) \/ SweepStamps(u)
    \/ \E u \in Users \ {"user_a"} : Leaves(u)
    \/ \E u \in Users : SweepDefers(u) /\ UNCHANGED swallowed
    \/ SweepStarts \/ SweepDecides \/ SweepFinishes \/ SweepCrash \/ WorkerRestarts

Alone == \A u \in Users \ {"user_a"} : account[u] = "none"

MCNext == (Alone /\ Next /\ Alone') \/ (~Alone /\ SweepOnly)

MCSpec ==
    /\ Init \/ SettledInit
    /\ [][MCNext]_vars
    /\ SweepFairness /\ WebSettles("user_a")
=============================================================================
