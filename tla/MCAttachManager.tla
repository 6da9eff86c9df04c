--------------------------- MODULE MCAttachManager ---------------------------
(***************************************************************************)
(* AttachManager for model checking.  For liveness a policy is all         *)
(* interfaces or none: with one interface a selective policy that names it *)
(* asks for the same.                                                      *)
(***************************************************************************)
EXTENDS AttachManager

AllOrNoneNext == Next /\ \A a \in Ids : policy_snapshot'[a].policy = {}
AllOrNoneFairSpec == Init /\ [][AllOrNoneNext]_vars /\ Fairness
=============================================================================
