--------------------------- MODULE MCManagerSafety ---------------------------
(***************************************************************************)
(* AttachManager for model checking in two scopes: one interface with      *)
(* every failure, restart and shutdown and selective policies; and two     *)
(* interfaces that stay, of which one may fail and the other succeed, with *)
(* a manager that goes on and policies that ask for all interfaces or none.*)
(***************************************************************************)
EXTENDS AttachManager

CONSTANT First   \* the interface of the first scope

VARIABLE scope
scopeVars == <<vars, scope>>

ScopeInit == Init /\ scope \in {{First}, Nics} /\ nics \subseteq scope /\ (scope = Nics => \A n \in Nics : interfaces[n] = "current")

InScope ==
    /\ nics' \subseteq scope /\ \A n \in Nics \ scope : interfaces'[n] = "absent"
    /\ \A a \in Ids : policy_snapshot'[a].policy \subseteq scope

Selective == \A a \in Ids : ~policy_snapshot'[a].is_all

GoesOn ==
    /\ nics' = Nics /\ \A n \in Nics : interfaces'[n] = "current"
    /\ ~stop' /\ ~restart' /\ mpc' # "failing"
    /\ \A a \in Ids : policy_snapshot'[a].policy = {}

ScopeNext == Next /\ InScope /\ (IF scope = Nics THEN GoesOn ELSE Selective) /\ UNCHANGED scope

ScopeSpec == ScopeInit /\ [][ScopeNext]_scopeVars
=============================================================================
