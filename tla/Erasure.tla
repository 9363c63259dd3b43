------------------------------- MODULE Erasure -------------------------------
(***************************************************************************)
(* What the deletion subsystem promises about the users table, without     *)
(* saying how: a row is stored only for somebody who has had an account,   *)
(* and is erased only when Clerk no longer has that account.               *)
(***************************************************************************)
CONSTANT Users
VARIABLES
    account,    \* Clerk's view of each user: "none" yet, "live" or "gone" for good
    stored      \* the users that have a row

vars == <<account, stored>>

Init ==
    /\ account \in [Users -> {"none", "live", "gone"}]
    /\ stored \in SUBSET {u \in Users : account[u] # "none"}

SignsUp(u) ==
    /\ account[u] = "none"
    /\ account' = [account EXCEPT ![u] = "live"]
    /\ UNCHANGED stored

Leaves(u) ==
    /\ account[u] = "live"
    /\ account' = [account EXCEPT ![u] = "gone"]
    /\ UNCHANGED stored

Store(u) ==
    /\ account[u] # "none"
    /\ stored' = stored \cup {u}
    /\ UNCHANGED account

Erase(u) ==
    /\ account[u] = "gone"
    /\ stored' = stored \ {u}
    /\ UNCHANGED account

Next == \E u \in Users : SignsUp(u) \/ Leaves(u) \/ Store(u) \/ Erase(u)

Spec == Init /\ [][Next]_vars
=============================================================================
