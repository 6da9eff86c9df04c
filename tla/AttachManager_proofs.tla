------------------------ MODULE AttachManager_proofs ------------------------
(***************************************************************************)
(* Proofs about module AttachManager, for any number of attachers,         *)
(* interfaces and callers, any retry limit and any bound on the clock: the *)
(* invariant IndInv is inductive, so no update is lost and the filters of  *)
(* every attacher converge.  PendingKept is the core of it.                *)
(*                                                                         *)
(* Module AttachManager_types has the type invariant and the bookkeeping.  *)
(***************************************************************************)
EXTENDS AttachManager_types

\* The worker starts to apply a's current policy.
Begun(a) ==
    /\ wpc' = "snap" /\ cur'.id = a /\ policy' = policy_snapshot'[a]
    /\ unread' = [unread EXCEPT ![a] = @ \ {"policy"}]

\* The core of the argument: only the worker consumes what is pending for an
\* attacher, and it does so by reading that attacher's current policy.
LEMMA PendingKept ==
    ASSUME TypeOK, Bookkeeping, [Next]_vars, ~stop', NEW a \in Ids, a < attachers, Pending(a)
    PROVE  Pending(a)' \/ Begun(a)
<1> USE ZenonT(30), ManagerAssumption, MaxAttachersAssumption
    DEF Pending, Owed, CallerOwes, MonitorOwes, Queued, Ready, Begun, sourceVars, lifeVars,
       queueVars, workerData, monitorData, kernelVars, historyVars
<1>1. ASSUME NEW c \in Callers, CallerBuilds(c)
      PROVE  Pending(a)' \/ Begun(a)
    BY <1>1, SMTT(30) DEF CallerBuilds, EnterCallback, Builds
<1>2. ASSUME NEW c \in Callers, CallerAppends(c)
      PROVE  Pending(a)' \/ Begun(a)
<2>1. Queued(a) => Queued(a)'
    BY AppendedQueue, <1>2 DEF CallerAppends, append_apply_request
<2>2. ASSUME NEW d \in Callers, caller[d].pc \in {"notify", "calling"}, caller[d].id = a
      PROVE  Pending(a)'
  <3>1. CASE d = c
    <4>1. posting[c].id = a
        BY <2>2, <3>1, <1>2 DEF CallerAppends, LeaveCallback, Bookkeeping, PostedFor
    <4>. QED
        BY <4>1, AppendedQueue, <1>2 DEF CallerAppends, append_apply_request
  <3>2. CASE d # c
    BY <2>2, <3>2, <1>2 DEF CallerAppends, LeaveCallback, TypeOK, SourceTypeOK
  <3>. QED
    BY <3>1, <3>2
<2>. QED
    BY <2>1, <2>2, <1>2 DEF CallerAppends
<1>3. CASE Refresh \/ RefreshSkips
    BY <1>3 DEF Refresh, RefreshSkips, RefreshTo
<1>4. CASE InterfaceChange
    BY <1>4, SMTT(30) DEF InterfaceChange, TypeOK, SourceTypeOK, Bookkeeping, Phases, Ids
<1>5. CASE MonitorBuilds
    BY <1>5 DEF MonitorBuilds, Builds
<1>6. CASE MonitorAppends
<2>1. Queued(a) => Queued(a)'
    BY AppendedQueue, <1>6 DEF MonitorAppends, append_apply_request
<2>2. posting["monitor"].id = next_id /\ next_id \in Nat
    BY <1>6 DEF MonitorAppends, Bookkeeping, PostedFor, TypeOK, PlacesOK
<2>3. next_id = a => Queued(a)'
  <3>1. apply_requests' = Appended(posting["monitor"])
    BY <1>6 DEF MonitorAppends, append_apply_request
  <3>. QED
    BY SMTT(30), <2>2, <3>1, AppendedQueue
<2>4. MonitorOwes(a) => next_id = a \/ MonitorOwes(a)'
    BY <2>2, <1>6, SMTT(30) DEF MonitorAppends, TypeOK, PlacesOK, SourceTypeOK, Ids
<2>. QED
    BY <2>1, <2>3, <2>4, <1>6 DEF MonitorAppends
<1>7. CASE MonitorReturns \/ MonitorExits \/ MonitorFails \/ RefreshFails
<2>1. ~MonitorOwes(a)
    BY <1>7, SMTT(30) DEF MonitorReturns, MonitorExits, MonitorFails, RefreshFails, TypeOK, PlacesOK,
       SourceTypeOK, Ids
<2>. QED
    BY <2>1, <1>7 DEF MonitorReturns, MonitorExits, MonitorFails, RefreshFails
<1>8. CASE interface_monitor_failure_process
    BY <1>8 DEF interface_monitor_failure_process, Notified
<1>9. CASE WorkerIdles \/ WorkerDefers \/ WorkerBlocks \/ WorkerTimesOut
    BY <1>9 DEF WorkerIdles, WorkerDefers, WorkerBlocks, WorkerTimesOut, WorkerGoes
<1>10. CASE WorkerRuns \/ WorkerLoops \/ SpuriousWake
    BY <1>10 DEF WorkerRuns, WorkerLoops, SpuriousWake, WorkerGoes
<1>11. CASE WorkerStops
    BY <1>11 DEF WorkerStops
<1>12. CASE WorkerTakes
<2>1. \A r \in apply_requests : r \in apply_requests' \cup ready'
    BY <1>12 DEF WorkerTakes, Immediate, Delayed
<2>2. ready = {}
    BY <1>12 DEF WorkerTakes, Bookkeeping, Phases
<2>. QED
    BY <2>1, <2>2, <1>12 DEF WorkerTakes
<1>13. CASE WorkerStarts(TRUE) \/ WorkerStarts(FALSE)
    BY <1>13 DEF WorkerStarts, StartSucceeds, StartFails
<1>14. CASE ReadPolicy
    BY <1>14 DEF ReadPolicy
<1>15. CASE ReadSnapshot
    BY <1>15 DEF ReadSnapshot
<1>16. ASSUME NEW n \in Nics, attach_filter(n) \/ detach_filter(n) \/ FilterFaults(n)
      PROVE  Pending(a)' \/ Begun(a)
    BY <1>16 DEF attach_filter, detach_filter, FilterFaults, FilterError, LateFilter, HandleNic
<1>17. CASE FinishApply
<2>1. Queued(a) => Queued(a)'
    BY AppendedQueue, <1>17 DEF FinishApply, GiveUp
<2>. QED
    BY <2>1, <1>17 DEF FinishApply, GiveUp
<1>18. CASE InitializeFails \/ StartWorker \/ CtorSucceeds \/ CtorFails \/ Destructor \/ JoinWorker
    BY <1>18 DEF InitializeFails, StartWorker, CtorSucceeds, CtorFails, Destructor, JoinWorker,
       LifeGoes, StartSucceeds, StartFails
<1>19. CASE RequestStop \/ NotifyAll \/ StopMonitor \/ JoinMonitor
    BY <1>19 DEF RequestStop, NotifyAll, StopMonitor, JoinMonitor, LifeGoes, Notified
<1>20. CASE CreateAttacher
    BY <1>20 DEF CreateAttacher, create_attacher
<1>21. ASSUME NEW c \in Callers, NEW i \in Ids, NEW p \in Policy, CallerPublishes(c, i, p)
      PROVE  Pending(a)' \/ Begun(a)
    BY <1>21 DEF CallerPublishes, publish, TypeOK, SourceTypeOK
<1>22. ASSUME NEW n \in Nics, NicAppears(n) \/ NicDisappears(n)
      PROVE  Pending(a)' \/ Begun(a)
    BY <1>22 DEF NicAppears, NicDisappears, NicChanges
<1>23. CASE UNCHANGED vars
    BY <1>23 DEF vars
<1>. QED
    BY <1>1, <1>2, <1>3, <1>4, <1>5, <1>6, <1>7, <1>8, <1>9, <1>10, <1>11, <1>12, <1>13, <1>14,
       <1>15, <1>16, <1>17, <1>18, <1>19, <1>20, <1>21, <1>22, <1>23
    DEF Next, CallerSteps, MonitorSteps, WorkerSteps, LifeSteps, Faults, Inputs

\* What a step may do to attacher a: the stop request is final, the policy changes
\* only with a callback due, inputs become unread only with an obligation to post a
\* request, and a run for a begins, stays and ends in order.
StepFrame(a) ==
    /\ ~stop' => ~stop
    /\ ~CallerOwes(a)' => policy_snapshot'[a] = policy_snapshot[a]
    /\ "policy" \in unread'[a] => "policy" \in unread[a] \/ CallerOwes(a)'
    /\ "nics" \in unread'[a] => "nics" \in unread[a] \/ mpc' = "changed"
    /\ "nics" \in unread'[a] /\ wpc = "snap" /\ cur.id = a => wpc' = "snap" /\ cur'.id = a
    /\ Applying(a)' => Begun(a) \/ (Applying(a) /\ policy' = policy)
    /\ Applying(a) => Applying(a)' \/ FinishApply
    /\ ~Applying(a) => gave_up'[a] = gave_up[a]

\* Every step is within that frame.
LEMMA StepFrames ==
    ASSUME TypeOK, Bookkeeping, [Next]_vars, NEW a \in Ids
    PROVE  StepFrame(a)
<1> USE ZenonT(30), ManagerAssumption, MaxAttachersAssumption
    DEF TypeOK, SourceTypeOK, FlagsOK, RequestsOK, DataOK, CallerOwes, Request, Applying, Begun,
       StepFrame, sourceVars, lifeVars, queueVars, workerData, monitorData, kernelVars,
       historyVars
<1>1. ASSUME NEW c \in Callers, CallerBuilds(c)
      PROVE  StepFrame(a)
    BY <1>1 DEF CallerBuilds, EnterCallback, Builds
<1>2. ASSUME NEW c \in Callers, CallerAppends(c)
      PROVE  StepFrame(a)
    BY <1>2 DEF CallerAppends, LeaveCallback, append_apply_request, Notified
<1>3. CASE Refresh \/ RefreshSkips
<2>1. PICK list, changed : RefreshTo(list, changed)
    BY <1>3 DEF Refresh, RefreshSkips
<2>. QED
    BY <2>1 DEF RefreshTo
<1>4. CASE InterfaceChange
    BY <1>4 DEF InterfaceChange
<1>5. CASE MonitorBuilds
    BY <1>5 DEF MonitorBuilds, Builds
<1>6. CASE MonitorAppends
    BY <1>6 DEF MonitorAppends, append_apply_request, Notified
<1>7. CASE MonitorReturns \/ MonitorExits \/ MonitorFails \/ RefreshFails
    BY <1>7 DEF MonitorReturns, MonitorExits, MonitorFails, RefreshFails
<1>8. CASE interface_monitor_failure_process
    BY <1>8 DEF interface_monitor_failure_process, Notified
<1>9. CASE WorkerIdles \/ WorkerDefers \/ WorkerBlocks \/ WorkerTimesOut
    BY <1>9 DEF WorkerIdles, WorkerDefers, WorkerBlocks, WorkerTimesOut, WorkerGoes
<1>10. CASE WorkerRuns \/ WorkerLoops \/ SpuriousWake
    BY <1>10 DEF WorkerRuns, WorkerLoops, SpuriousWake, WorkerGoes
<1>11. CASE WorkerStops
    BY <1>11 DEF WorkerStops
<1>12. CASE WorkerTakes
    BY <1>12 DEF WorkerTakes, Immediate, Delayed
<1>13. CASE WorkerStarts(TRUE) \/ WorkerStarts(FALSE)
    BY <1>13 DEF WorkerStarts, StartSucceeds, StartFails
<1>14. CASE ReadPolicy
<2>1. PICK request \in ready :
          /\ cur' = request
          /\ policy' = policy_snapshot[request.id]
          /\ unread' = [unread EXCEPT ![request.id] = @ \ {"policy"}]
    BY <1>14 DEF ReadPolicy
<2>2. cur'.id = a => Begun(a)
    BY <2>1, <1>14 DEF ReadPolicy
<2>3. unread'[a] \subseteq unread[a]
    BY <2>1
<2>. QED
    BY <2>2, <2>3, <1>14 DEF ReadPolicy
<1>15. CASE ReadSnapshot
    BY <1>15 DEF ReadSnapshot
<1>16. ASSUME NEW n \in Nics, attach_filter(n) \/ detach_filter(n) \/ FilterFaults(n)
      PROVE  StepFrame(a)
    BY <1>16 DEF attach_filter, detach_filter, FilterFaults, FilterError, LateFilter, HandleNic
<1>17. CASE FinishApply
    BY <1>17 DEF FinishApply, GiveUp
<1>18. CASE InitializeFails \/ StartWorker \/ CtorSucceeds \/ CtorFails \/ Destructor \/ JoinWorker
    BY <1>18 DEF InitializeFails, StartWorker, CtorSucceeds, CtorFails, Destructor, JoinWorker,
       LifeGoes, Bookkeeping, Phases
<1>19. CASE RequestStop \/ NotifyAll \/ StopMonitor \/ JoinMonitor
    BY <1>19 DEF RequestStop, NotifyAll, StopMonitor, JoinMonitor, LifeGoes, Notified
<1>20. CASE CreateAttacher
    BY <1>20 DEF CreateAttacher, create_attacher
<1>21. ASSUME NEW c \in Callers, NEW i \in Ids, NEW p \in Policy, CallerPublishes(c, i, p)
      PROVE  StepFrame(a)
    BY <1>21 DEF CallerPublishes, publish
<1>22. ASSUME NEW n \in Nics, NicAppears(n) \/ NicDisappears(n)
      PROVE  StepFrame(a)
    BY <1>22 DEF NicAppears, NicDisappears, NicChanges
<1>23. CASE UNCHANGED vars
    BY <1>23 DEF vars
<1>. QED
    BY <1>1, <1>2, <1>3, <1>4, <1>5, <1>6, <1>7, <1>8, <1>9, <1>10, <1>11, <1>12, <1>13, <1>14,
       <1>15, <1>16, <1>17, <1>18, <1>19, <1>20, <1>21, <1>22, <1>23
    DEF Next, CallerSteps, MonitorSteps, WorkerSteps, LifeSteps, Faults, Inputs

\* No step loses an update.
LEMMA NoLostStep ==
    ASSUME TypeOK, Bookkeeping, NoLostUpdate, [Next]_vars
    PROVE  NoLostUpdate'
<1> SUFFICES ASSUME ~stop', NEW a \in Ids
             PROVE  Accounted(a)'
    BY DEF NoLostUpdate
<1>1. StepFrame(a)
    BY StepFrames
<1>2. unread[a] # {} => a < attachers
    BY SMTT(30) DEF Bookkeeping, Unused, Untouched, TypeOK, SourceTypeOK, Ids
<1>3. Accounted(a)
    BY <1>1 DEF StepFrame, NoLostUpdate
<1>4. Pending(a) /\ a < attachers => Pending(a)' \/ Begun(a)
    BY PendingKept, ZenonT(30)
<1>5. Begun(a) => "policy" \notin unread'[a] /\ wpc' = "snap" /\ cur'.id = a
    BY DEF Begun, TypeOK, DataOK
<1>6. CallerOwes(a)' \/ mpc' = "changed" => Pending(a)'
    BY ZenonT(30) DEF Pending, Owed, MonitorOwes
<1>7. "policy" \in unread'[a] => Pending(a)'
    BY <1>1, <1>2, <1>3, <1>4, <1>5, <1>6, ZenonT(30) DEF StepFrame, Accounted
<1>8. "nics" \in unread'[a] => Pending(a)' \/ (wpc' = "snap" /\ cur'.id = a)
    BY <1>1, <1>2, <1>3, <1>4, <1>5, <1>6 DEF StepFrame, Accounted
<1>. QED
    BY <1>7, <1>8 DEF Accounted
-----------------------------------------------------------------------------
\* What a step may do to the kernel as the worker sees it: publish a new interface
\* list, handle one interface, or make interfaces unreachable.
KernelFrame ==
    \/ mpc' = "changed"
    \/ ReadSnapshot
    \/ \E n \in Nics : attach_filter(n) \/ detach_filter(n) \/ FilterFaults(n)
    \/ /\ \A n \in Nics : Reachable(n)' => Reachable(n) /\ tc'[n] = tc[n]
       /\ wpc' = "nics" => UNCHANGED <<wpc, todo, is_apply_success>>

\* Every step is within that frame.
LEMMA KernelFrames ==
    ASSUME TypeOK, [Next]_vars
    PROVE  KernelFrame
<1> USE ZenonT(30), ManagerAssumption, MaxAttachersAssumption
    DEF KernelFrame, Reachable, sourceVars, lifeVars, queueVars, workerData, monitorData,
       kernelVars, historyVars
<1>1. ASSUME NEW c \in Callers, CallerBuilds(c)
      PROVE  KernelFrame
    BY <1>1 DEF CallerBuilds, EnterCallback, Builds
<1>2. ASSUME NEW c \in Callers, CallerAppends(c)
      PROVE  KernelFrame
    BY <1>2 DEF CallerAppends, LeaveCallback, append_apply_request, Notified
<1>3. CASE Refresh \/ RefreshSkips
    BY <1>3 DEF Refresh, RefreshSkips, RefreshTo
<1>4. CASE InterfaceChange
    BY <1>4 DEF InterfaceChange
<1>5. CASE MonitorBuilds
    BY <1>5 DEF MonitorBuilds, Builds
<1>6. CASE MonitorAppends
    BY <1>6 DEF MonitorAppends, append_apply_request, Notified
<1>7. CASE MonitorReturns \/ MonitorExits \/ MonitorFails \/ RefreshFails
    BY <1>7 DEF MonitorReturns, MonitorExits, MonitorFails, RefreshFails
<1>8. CASE interface_monitor_failure_process
    BY <1>8 DEF interface_monitor_failure_process, Notified
<1>9. CASE WorkerIdles \/ WorkerDefers \/ WorkerBlocks \/ WorkerTimesOut
    BY <1>9 DEF WorkerIdles, WorkerDefers, WorkerBlocks, WorkerTimesOut, WorkerGoes
<1>10. CASE WorkerRuns \/ WorkerLoops \/ SpuriousWake
    BY <1>10 DEF WorkerRuns, WorkerLoops, SpuriousWake, WorkerGoes
<1>11. CASE WorkerStops
    BY <1>11 DEF WorkerStops
<1>12. CASE WorkerTakes
    BY <1>12 DEF WorkerTakes, Immediate, Delayed
<1>13. CASE WorkerStarts(TRUE) \/ WorkerStarts(FALSE)
    BY <1>13 DEF WorkerStarts, StartSucceeds, StartFails
<1>14. CASE ReadPolicy
    BY <1>14 DEF ReadPolicy
<1>15. CASE ReadSnapshot
    BY <1>15
<1>16. ASSUME NEW n \in Nics, attach_filter(n) \/ detach_filter(n) \/ FilterFaults(n)
      PROVE  KernelFrame
    BY <1>16
<1>17. CASE FinishApply
    BY <1>17 DEF FinishApply, GiveUp
<1>18. CASE InitializeFails \/ StartWorker \/ CtorSucceeds \/ CtorFails \/ Destructor \/ JoinWorker
    BY <1>18 DEF InitializeFails, StartWorker, CtorSucceeds, CtorFails, Destructor, JoinWorker,
       LifeGoes, StartSucceeds, StartFails
<1>19. CASE RequestStop \/ NotifyAll \/ StopMonitor \/ JoinMonitor
    BY <1>19 DEF RequestStop, NotifyAll, StopMonitor, JoinMonitor, LifeGoes, Notified
<1>20. CASE CreateAttacher
    BY <1>20 DEF CreateAttacher, create_attacher
<1>21. ASSUME NEW c \in Callers, NEW i \in Ids, NEW p \in Policy, CallerPublishes(c, i, p)
      PROVE  KernelFrame
    BY <1>21 DEF CallerPublishes, publish
<1>22. ASSUME NEW n \in Nics, NicAppears(n) \/ NicDisappears(n)
      PROVE  KernelFrame
<2>1. UNCHANGED <<wpc, todo, is_apply_success>>
    BY <1>22 DEF NicAppears, NicDisappears, NicChanges
<2>2. ASSUME NEW m \in Nics, Reachable(m)'
      PROVE  Reachable(m) /\ tc'[m] = tc[m]
    BY <2>2, <1>22 DEF NicAppears, NicDisappears, NicChanges, TypeOK, DataOK, Reachable
<2>. QED
    BY <2>1, <2>2
<1>23. CASE UNCHANGED vars
    BY <1>23 DEF vars
<1>. QED
    BY <1>1, <1>2, <1>3, <1>4, <1>5, <1>6, <1>7, <1>8, <1>9, <1>10, <1>11, <1>12, <1>13, <1>14,
       <1>15, <1>16, <1>17, <1>18, <1>19, <1>20, <1>21, <1>22, <1>23
    DEF Next, CallerSteps, MonitorSteps, WorkerSteps, LifeSteps, Faults, Inputs

\* Handling one interface for one attacher touches only that pair, and leaves it
\* as the policy wants unless it fails.
LEMMA HandledFrame ==
    ASSUME TypeOK, NEW n \in Nics, attach_filter(n) \/ detach_filter(n) \/ FilterFaults(n),
       NEW a \in Ids
    PROVE  /\ UNCHANGED <<wpc, interfaces>> /\ wpc = "nics" /\ todo' = todo \ {n}
           /\ \A m \in Nics : m # n \/ cur.id # a => (a \in tc'[m] <=> a \in tc[m])
           /\ is_apply_success' => is_apply_success
           /\ is_apply_success' /\ cur.id = a => (Wants(policy, n) <=> a \in tc'[n])
<1>1. UNCHANGED <<wpc, interfaces>> /\ wpc = "nics" /\ todo' = todo \ {n}
    BY DEF attach_filter, detach_filter, FilterFaults, FilterError, LateFilter, HandleNic
<1>2. tc \in [Nics -> SUBSET Ids]
    BY ZenonT(30) DEF TypeOK, DataOK
<1>3. tc' \in {tc, [tc EXCEPT ![n] = tc[n] \cup {cur.id}], [tc EXCEPT ![n] = tc[n] \ {cur.id}]}
    BY DEF attach_filter, detach_filter, FilterFaults, FilterError, LateFilter, HandleNic
<1>4. ASSUME NEW m \in Nics, m # n \/ cur.id # a
      PROVE  a \in tc'[m] <=> a \in tc[m]
    BY <1>2, <1>3, <1>4, ZenonT(30)
<1>5. (is_apply_success' => is_apply_success)
      /\ (is_apply_success' /\ cur.id = a => (Wants(policy, n) <=> a \in tc'[n]))
  <2>1. CASE attach_filter(n)
    BY <1>2, <2>1, ZenonT(30) DEF attach_filter, HandleNic
  <2>2. CASE detach_filter(n)
    BY <1>2, <2>2, ZenonT(30) DEF detach_filter, HandleNic
  <2>3. CASE FilterFaults(n)
    BY <1>2, <2>3, ZenonT(30) DEF FilterFaults, FilterError, LateFilter, HandleNic
  <2>. QED
    BY <2>1, <2>2, <2>3
<1>. QED
    BY <1>1, <1>4, <1>5, ZenonT(30)

\* While nothing is pending for a, what the worker has handled stays as wanted.
LEMMA InSyncKept ==
    ASSUME TypeOK, [Next]_vars, NEW a \in Ids, Applying(a), InSync(a), ~Pending(a)',
       policy_snapshot'[a] = policy_snapshot[a], policy' = policy, Applying(a)'
    PROVE  InSync(a)'
<1> USE ZenonT(30) DEF InSync, Wants
<1>1. CASE ReadSnapshot
    BY <1>1 DEF ReadSnapshot, Reachable, kernelVars
<1>2. ASSUME NEW n \in Nics, attach_filter(n) \/ detach_filter(n) \/ FilterFaults(n)
      PROVE  InSync(a)'
    BY <1>2, HandledFrame DEF Applying, Reachable
<1>3. CASE /\ \A n \in Nics : Reachable(n)' => Reachable(n) /\ tc'[n] = tc[n]
           /\ wpc' = "nics" => UNCHANGED <<wpc, todo, is_apply_success>>
    BY SMTT(30), <1>3
<1>. QED
    BY <1>1, <1>2, <1>3, KernelFrames DEF KernelFrame, Pending, Owed, MonitorOwes

\* WorkerInSync is preserved.
LEMMA InSyncStep ==
    ASSUME TypeOK, Bookkeeping, WorkerInSync, [Next]_vars
    PROVE  WorkerInSync'
<1> SUFFICES ASSUME ~stop', NEW a \in Ids, Applying(a)', ~Pending(a)'
             PROVE  InSync(a)'
    BY DEF WorkerInSync
<1>1. StepFrame(a)
    BY StepFrames
<1>2. CASE Begun(a)
    BY <1>2 DEF Begun, InSync
<1>3. CASE ~Begun(a)
  <2>1. Applying(a) /\ policy' = policy
    BY <1>1, <1>3 DEF StepFrame
  <2>2. a < attachers
    BY <2>1 DEF Applying, Bookkeeping, Phases
  <2>3. ~Pending(a)
    BY <1>3, <2>2, PendingKept
  <2>4. InSync(a)
    BY <1>1, <2>1, <2>3, ZenonT(30) DEF StepFrame, WorkerInSync
  <2>5. policy_snapshot'[a] = policy_snapshot[a]
    BY <1>1, ZenonT(30) DEF StepFrame, Pending, Owed
  <2>. QED
    BY <2>1, <2>4, <2>5, InSyncKept
<1>. QED
    BY <1>2, <1>3

\* A reconciled attacher stays so unless something becomes pending for it.
LEMMA ReconciledKept ==
    ASSUME TypeOK, [Next]_vars, NEW a \in Ids, ~Applying(a), Reconciled(a), ~Pending(a)',
       policy_snapshot'[a] = policy_snapshot[a]
    PROVE  Reconciled(a)'
<1> USE ZenonT(30) DEF Reconciled, Wants
<1>1. CASE ReadSnapshot
    BY <1>1 DEF ReadSnapshot, Reachable, kernelVars
<1>2. ASSUME NEW n \in Nics, attach_filter(n) \/ detach_filter(n) \/ FilterFaults(n)
      PROVE  Reconciled(a)'
    BY <1>2, HandledFrame DEF Applying, Reachable
<1>3. CASE \A n \in Nics : Reachable(n)' => Reachable(n) /\ tc'[n] = tc[n]
    BY <1>3
<1>. QED
    BY <1>1, <1>2, <1>3, KernelFrames DEF KernelFrame, Pending, Owed, MonitorOwes

\* A run that finishes leaves its attacher reconciled, given up or queued again.
LEMMA FinishSettles ==
    ASSUME TypeOK, Bookkeeping, WorkerInSync, ~stop, NEW a \in Ids, Applying(a), FinishApply,
           ~Pending(a), ~Pending(a)'
    PROVE  gave_up'[a] \/ Reconciled(a)'
<1>1. cur.id = a /\ wpc = "nics" /\ todo = {} /\ UNCHANGED <<policy_snapshot, interfaces, tc>>
    BY DEF FinishApply, GiveUp, Applying, sourceVars, kernelVars
<1>2. InSync(a)
    BY DEF WorkerInSync
<1>3. CASE is_apply_success
    BY <1>1, <1>2, <1>3, ZenonT(30) DEF InSync, Reconciled, Wants, Reachable
<1>4. CASE ~is_apply_success /\ cur.retry_count >= kMaxRetryCount
    BY <1>1, <1>4, ZenonT(30) DEF FinishApply, GiveUp, TypeOK, FlagsOK
<1>5. CASE ~is_apply_success /\ ~(cur.retry_count >= kMaxRetryCount)
  <2>1. apply_requests' = Appended(Retry) /\ Retry.id = a
    BY <1>1, <1>5 DEF FinishApply, GiveUp, Retry
  <2>. QED
    BY <2>1, AppendedQueue DEF Pending, Queued
<1>. QED
    BY <1>3, <1>4, <1>5

\* Converged is preserved.
LEMMA ConvergedStep ==
    ASSUME TypeOK, Bookkeeping, WorkerInSync, Converged, [Next]_vars
    PROVE  Converged'
<1> SUFFICES ASSUME ~stop', NEW a \in Ids, ~Pending(a)', ~Applying(a)'
             PROVE  gave_up'[a] \/ Reconciled(a)'
    BY DEF Converged, Settled
<1>0. StepFrame(a)
    BY StepFrames
<1>1. ~stop
    BY <1>0 DEF StepFrame
<1>2. ~Pending(a) \/ a >= attachers
    BY PendingKept DEF Begun, Applying, TypeOK, SourceTypeOK, Ids
<1>3. policy_snapshot'[a] = policy_snapshot[a]
    BY <1>0 DEF StepFrame, Pending, Owed
<1>4. CASE Applying(a)
  <2>1. FinishApply
    BY <1>0, <1>4 DEF StepFrame
  <2>2. ~Pending(a)
    BY <1>2, <1>4 DEF Applying, Bookkeeping, Phases, TypeOK, SourceTypeOK, Ids
  <2>. QED
    BY <1>1, <1>4, <2>1, <2>2, FinishSettles
<1>5. CASE ~Applying(a) /\ a >= attachers
  <2>1. Reconciled(a)
    BY <1>5 DEF Bookkeeping, Unused, Untouched, Reconciled, Wants, NoPolicy
  <2>. QED
    BY <1>3, <1>5, <2>1, ReconciledKept
<1>6. CASE ~Applying(a) /\ ~Pending(a)
  <2>1. gave_up[a] \/ Reconciled(a)
    BY <1>1, <1>6, ZenonT(30) DEF Converged, Settled
  <2>2. gave_up'[a] = gave_up[a]
    BY <1>0, <1>6, ZenonT(30) DEF StepFrame
  <2>3. Reconciled(a) => Reconciled(a)'
    BY <1>3, <1>6, ReconciledKept
  <2>. QED
    BY <2>1, <2>2, <2>3
<1>. QED
    BY <1>2, <1>4, <1>5, <1>6

\* IndInv holds when the manager is about to be constructed.
LEMMA InvInit == Init => IndInv
<1> SUFFICES ASSUME Init PROVE IndInv
    OBVIOUS
<1> USE ZenonT(30) DEF Init, SourceInit
<1>1. TypeOK /\ Bookkeeping
    BY BookInit
<1>2. NoLostUpdate
    BY DEF NoLostUpdate, Accounted
<1>3. WorkerInSync
    BY DEF WorkerInSync, Applying
<1>4. Converged
    BY DEF Converged, Settled, Reconciled, Wants, NoPolicy
<1>. QED
    BY <1>1, <1>2, <1>3, <1>4 DEF IndInv

\* Every step preserves IndInv.
LEMMA InvStep == IndInv /\ [Next]_vars => IndInv'
BY TypeStep, BookStep, NoLostStep, InSyncStep, ConvergedStep DEF IndInv

\* IndInv is an invariant of the manager.
THEOREM ManagerInvariant == Spec => []IndInv
BY InvInit, InvStep, PTL DEF Spec

\* Every state is well typed; in particular attachers_[request.id] of
\* apply_targets_policy_per_attacher is always within bounds.
THEOREM ManagerTypeCorrect == Spec => []TypeOK
<1>1. IndInv => TypeOK
    BY DEF IndInv
<1>. QED
    BY <1>1, ManagerInvariant, PTL

\* Until shutdown, a policy or interface list that the worker has not read is
\* never forgotten: a request for the attacher is queued, taken or being posted.
THEOREM NoUpdateLost == Spec => []NoLostUpdate
<1>1. IndInv => NoLostUpdate
    BY DEF IndInv
<1>. QED
    BY <1>1, ManagerInvariant, PTL

\* Until shutdown, an attacher for which nothing is pending, and which was not
\* given up after the last retry, has exactly the filters its policy asks for.
THEOREM ManagerConverges == Spec => []Converged
<1>1. IndInv => Converged
    BY DEF IndInv
<1>. QED
    BY <1>1, ManagerInvariant, PTL
=============================================================================
