---------------------------- MODULE MCMailIngest ----------------------------
(***************************************************************************)
(* Model-checking instances of MailIngest: no two folders, and no two      *)
(* epochs of one, ever share a UIDVALIDITY (ValidityIdentifies).           *)
(***************************************************************************)
EXTENDS MailIngest

Distinct == [be \in Boxes \X Epochs |-> 1 + be[2] + (IF be[1] = "b1" THEN 0 ELSE MaxEpoch + 1)]
============================================================================
