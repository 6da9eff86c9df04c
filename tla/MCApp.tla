------------------------------- MODULE MCApp -------------------------------
(***************************************************************************)
(* The signal waiter for model checking: under any owner, who may stop it  *)
(* and start it again, and under main().                                   *)
(***************************************************************************)
EXTENDS App

VARIABLE part
mcVars == <<allVars, part>>

AnyOwner(A) == part = "any owner" /\ A /\ UNCHANGED <<appVars, part>>
UnderMain(A) == part = "main" /\ ~killed /\ A /\ UNCHANGED part

MCInit == Init /\ AppInit /\ part \in {"any owner", "main"}
MCNext == AnyOwner(Next) \/ UnderMain(AppNext)

\* Every thread that can run runs.
MCSpec ==
    /\ MCInit /\ [][MCNext]_mcVars
    /\ WF_mcVars(AnyOwner(OwnerSteps)) /\ WF_mcVars(AnyOwner(WaiterSteps))
    /\ WF_mcVars(UnderMain(Main)) /\ WF_mcVars(UnderMain(WaitThread)) /\ WF_mcVars(UnderMain(Consumer))
=============================================================================
