---------------------------- MODULE MCStaleness ----------------------------
(***************************************************************************)
(* One posting of each kind over many nights: from a feed, or only from    *)
(* gated sources with a careers page, with a board, or with neither. And   *)
(* two postings within a night, with a pool of one worker: the time that   *)
(* the pool takes is what matters there, so that no day passes. The host   *)
(* binds all the seams, or only set_direct_url, as build_scan_services.    *)
(***************************************************************************)
EXTENDS Staleness

CONSTANTS feed, page, board, bare

VARIABLE about      \* the postings that are not archived long since

Kinds == {{feed}, {page}, {board}, {bare}, {feed, page}}

MCInit ==
    /\ about \in Kinds
    /\ wired \in {{"direct"}, Seams}
    /\ stage = [j \in Jobs |-> IF j \in about THEN "passive" ELSE "archived"]
    /\ seen = [j \in Jobs |-> IF j \in about THEN 0 ELSE Archive + 1]
    /\ age = [j \in Jobs |-> IF j \in about THEN 0 ELSE Ceiling + 1]
    /\ InitRest

InANight == Cardinality(about) > 1

MCNext ==
    /\ \/ Cascade \/ Marks \/ Archives \/ PhaseAFails \/ Restarts
       \/ DayPasses /\ ~InANight
       \/ \E j \in Jobs : PersistRaises(j)
       \/ \E j \in about : World(j)
    /\ UNCHANGED about

MCSpec == MCInit /\ [][MCNext]_<<vars, about>>
=============================================================================
