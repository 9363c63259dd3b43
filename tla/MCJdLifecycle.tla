---------------------------- MODULE MCJdLifecycle ----------------------------
(***************************************************************************)
(* Model-checking instances of JdLifecycle.  The texts: "posting" is clean *)
(* under every contract, "about" is always ambiguous, "error" is always    *)
(* rejected, and "listing" is clean until the second release rejects it.   *)
(***************************************************************************)
EXTENDS JdLifecycle

ClassOf(text, v) ==
    CASE text = "posting" -> "clean"
      [] text = "about" -> "ambiguous"
      [] text = "error" -> "reject"
      [] text = "listing" -> IF v = 1 THEN "clean" ELSE "reject"

MCClass == [v \in Versions |-> [text \in Bodies |-> ClassOf(text, v)]]

OneLegacy == <<"p1">>

(***************************************************************************)
(* While there is one posting, two slots, of which the second only scans   *)
(* again, and both releases; with a second or a third posting, one slot    *)
(* and the first release.  The third posting comes when the two others     *)
(* hold ambiguous texts, so that a batch of two leaves one out; then       *)
(* nothing is scanned again and the worker stays up.                       *)
(***************************************************************************)
MCNext ==
    /\ Next
    /\ slot'["s2"].at \in {"idle", "promoting"} /\ ~slot'["s2"].new
    /\ Len(seen') >= 2 => slot'["s2"] = IdleSlot /\ version' = 1
    /\ \A s \in Slots : slot'[s].posting # "p1" => slot'[s].text \in {None, "about"}
    /\ Len(seen') = 3 => seen' = <<"p1", "p2", "p3">> /\ up' /\ ~Rescanned
    /\ Len(seen') = 3 /\ Len(seen) = 2 => batch.at = "idle" /\ body["p1"] = "about" /\ body["p2"] = "about"

MCSpec == Init /\ [][MCNext]_vars /\ BackfillFairness
=============================================================================
