-------------------------- MODULE MCInterfaceLoader --------------------------
(***************************************************************************)
(* The runs of InterfaceLoader.                                            *)
(***************************************************************************)
EXTENDS InterfaceLoader

\* A monitor that is started once, never stopped, and whose calls all succeed.
UnattendedNext ==
    \/ \E u \in Users : UserSteps(u)
    \/ MonitorSteps \/ ControlSteps \/ DebounceElapses
    \/ status = "kStopped" /\ start_monitor
    \/ KernelChanges

UnattendedSpec == Init /\ [][UnattendedNext]_vars /\ Fairness
=============================================================================
