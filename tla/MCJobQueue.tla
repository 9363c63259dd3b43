----------------------------- MODULE MCJobQueue -----------------------------
(***************************************************************************)
(* The instance of JobQueue: two slots, of which the first is taken first, *)
(* and two ids per lock. The worker is killed once, while a job runs in    *)
(* the first slot and anything in the second: another job of the same      *)
(* lock, or the tick that would have brought it back. Enqueuing ticks do   *)
(* not run side by side and do not fail; after the kill the second slot is *)
(* left to reclaims, which may overlap those in the first.                 *)
(***************************************************************************)
EXTENDS JobQueue

CONSTANTS s1, s2

MCIds == 1 .. 2

MCNext ==
    /\ Next
    /\ run[s1].at = "idle" => run'[s2] = run[s2] \/ run'[s2].at = "idle"
    /\ kills' # kills => run[s1].key \in Work
    /\ kills = 1 => run'[s2].key \in {None, Reclaim}
    /\ run'[s2].key = Enqueue => run'[s1].key # Enqueue
    /\ kills' = kills => \A s \in Slots : run[s].key = Enqueue /\ run'[s] = Idle => Returns(s)

MCSpec == Init /\ [][MCNext]_vars /\ Fairness
=============================================================================
