------------------------ MODULE AttachManager_types -------------------------
(***************************************************************************)
(* First part of the proofs about module AttachManager: every step keeps   *)
(* the type invariant, and the bookkeeping between program counters,       *)
(* requests and attachers.                                                 *)
(***************************************************************************)
EXTENDS AttachManager, TLAPS

\* append_apply_request never loses an attacher: the new request, or a newer one
\* for the same attacher, is queued afterwards, and nothing else enters or leaves.
LEMMA AppendedQueue ==
    ASSUME NEW r
    PROVE  /\ \A q \in Appended(r) : q \in apply_requests \/ q = r
           /\ \E q \in Appended(r) : q.id = r.id
           /\ \A a : (\E q \in apply_requests : q.id = a) => \E q \in Appended(r) : q.id = a
<1>1. CASE Supersedes(r)
    BY <1>1 DEF Appended
<1>2. CASE ~Supersedes(r)
    BY <1>2 DEF Appended, Supersedes
<1>. QED
    BY <1>1, <1>2

\* A retry is a request for the same attacher, within the retry bound.
LEMMA RetryType ==
    ASSUME RequestsOK, cur.retry_count < kMaxRetryCount
    PROVE  Retry \in Request /\ Retry.id = cur.id
BY ManagerAssumption DEF RequestsOK, Retry, Request

\* ApplyRequest(i, true) is a request.
LEMMA BuildsType ==
    ASSUME RequestsOK, NEW p \in Posters, NEW i \in Nat, Builds(p, i)
    PROVE  posting' \in [Posters -> Request]
<1>1. PICK t \in 1 .. MaxTime : posting' = [posting EXCEPT ![p] =
              [id |-> i, retry_count |-> 0, is_immediate |-> TRUE, request_time |-> t]]
    BY ZenonT(30) DEF Builds
<1>2. [id |-> i, retry_count |-> 0, is_immediate |-> TRUE, request_time |-> t] \in Request
    BY ManagerAssumption DEF Request
<1>. QED
    BY <1>1, <1>2 DEF RequestsOK

\* The contract of the attachers keeps its own types.
LEMMA SourceTypeStep == SourceTypeOK /\ [SourceNext]_sourceVars => SourceTypeOK'
<1> SUFFICES ASSUME SourceTypeOK, [SourceNext]_sourceVars PROVE SourceTypeOK'
    OBVIOUS
<1> USE ZenonT(30), MaxAttachersAssumption DEF SourceTypeOK, Ids
<1>1. CASE create_attacher
    BY <1>1, SMTT(30) DEF create_attacher
<1>2. ASSUME NEW c \in Callers, NEW a \in Ids, NEW p \in Policy, publish(c, a, p)
      PROVE  SourceTypeOK'
    BY <1>2, SMTT(30) DEF publish
<1>3. ASSUME NEW c \in Callers, EnterCallback(c)
      PROVE  SourceTypeOK'
    BY <1>3 DEF EnterCallback
<1>4. ASSUME NEW c \in Callers, LeaveCallback(c)
      PROVE  SourceTypeOK'
    BY <1>4 DEF LeaveCallback, Idle
<1>5. CASE UNCHANGED sourceVars
    BY <1>5 DEF sourceVars
<1>. QED
    BY <1>1, <1>2, <1>3, <1>4, <1>5 DEF SourceNext

\* The manager's callers obey the contract of PolicySource.
LEMMA SourceStep == [Next]_vars => [SourceNext]_sourceVars
<1> SUFFICES ASSUME [Next]_vars PROVE [SourceNext]_sourceVars
    OBVIOUS
<1> USE ZenonT(30), ManagerAssumption, MaxAttachersAssumption
    DEF SourceNext, sourceVars, lifeVars, queueVars, workerData, monitorData, kernelVars,
       historyVars
<1>1. ASSUME NEW c \in Callers, CallerBuilds(c)
      PROVE  [SourceNext]_sourceVars
    BY <1>1 DEF CallerBuilds, EnterCallback, Builds
<1>2. ASSUME NEW c \in Callers, CallerAppends(c)
      PROVE  [SourceNext]_sourceVars
    BY <1>2 DEF CallerAppends, LeaveCallback, append_apply_request, Notified
<1>3. CASE Refresh \/ RefreshSkips
    BY <1>3 DEF Refresh, RefreshSkips, RefreshTo
<1>4. CASE InterfaceChange
    BY <1>4 DEF InterfaceChange
<1>5. CASE MonitorBuilds
    BY <1>5 DEF MonitorBuilds, Builds
<1>6. CASE MonitorAppends
    BY <1>6 DEF MonitorAppends, append_apply_request, Notified
<1>7. CASE MonitorReturns \/ MonitorExits \/ MonitorFails \/ RefreshFails
    BY <1>7 DEF MonitorReturns, MonitorExits, MonitorFails, RefreshFails
<1>8. CASE interface_monitor_failure_process
    BY <1>8 DEF interface_monitor_failure_process, Notified
<1>9. CASE WorkerIdles \/ WorkerDefers \/ WorkerBlocks \/ WorkerTimesOut
    BY <1>9 DEF WorkerIdles, WorkerDefers, WorkerBlocks, WorkerTimesOut, WorkerGoes
<1>10. CASE WorkerRuns \/ WorkerLoops \/ SpuriousWake
    BY <1>10 DEF WorkerRuns, WorkerLoops, SpuriousWake, WorkerGoes
<1>11. CASE WorkerStops
    BY <1>11 DEF WorkerStops
<1>12. CASE WorkerTakes
    BY <1>12 DEF WorkerTakes, Immediate, Delayed
<1>13. CASE WorkerStarts(TRUE) \/ WorkerStarts(FALSE)
    BY <1>13 DEF WorkerStarts, StartSucceeds, StartFails
<1>14. CASE ReadPolicy
    BY <1>14 DEF ReadPolicy
<1>15. CASE ReadSnapshot
    BY <1>15 DEF ReadSnapshot
<1>16. ASSUME NEW n \in Nics, attach_filter(n) \/ detach_filter(n) \/ FilterFaults(n)
      PROVE  [SourceNext]_sourceVars
    BY <1>16 DEF attach_filter, detach_filter, FilterFaults, FilterError, LateFilter, HandleNic
<1>17. CASE FinishApply
    BY <1>17 DEF FinishApply, GiveUp
<1>18. CASE InitializeFails \/ StartWorker \/ CtorSucceeds \/ CtorFails \/ Destructor \/ JoinWorker
    BY <1>18 DEF InitializeFails, StartWorker, CtorSucceeds, CtorFails, Destructor, JoinWorker,
       LifeGoes, StartSucceeds, StartFails
<1>19. CASE RequestStop \/ NotifyAll \/ StopMonitor \/ JoinMonitor
    BY <1>19 DEF RequestStop, NotifyAll, StopMonitor, JoinMonitor, LifeGoes, Notified
<1>20. CASE CreateAttacher
    BY <1>20 DEF CreateAttacher, create_attacher
<1>21. ASSUME NEW c \in Callers, NEW i \in Ids, NEW p \in Policy, CallerPublishes(c, i, p)
      PROVE  [SourceNext]_sourceVars
    BY <1>21 DEF CallerPublishes, publish
<1>22. ASSUME NEW n \in Nics, NicAppears(n) \/ NicDisappears(n)
      PROVE  [SourceNext]_sourceVars
    BY <1>22 DEF NicAppears, NicDisappears, NicChanges
<1>23. CASE UNCHANGED vars
    BY <1>23 DEF vars
<1>. QED
    BY <1>1, <1>2, <1>3, <1>4, <1>5, <1>6, <1>7, <1>8, <1>9, <1>10, <1>11, <1>12, <1>13, <1>14,
       <1>15, <1>16, <1>17, <1>18, <1>19, <1>20, <1>21, <1>22, <1>23
    DEF Next, CallerSteps, MonitorSteps, WorkerSteps, LifeSteps, Faults, Inputs

\* The Boolean variables, apart because they need a different prover.
LEMMA FlagsStep == FlagsOK /\ [Next]_vars => FlagsOK'
<1> SUFFICES ASSUME FlagsOK, [Next]_vars PROVE FlagsOK'
    OBVIOUS
<1> USE ZenonT(30), ManagerAssumption, MaxAttachersAssumption
    DEF FlagsOK, sourceVars, lifeVars, queueVars, workerData, monitorData, kernelVars, historyVars
<1>1. ASSUME NEW c \in Callers, CallerBuilds(c)
      PROVE  FlagsOK'
    BY <1>1 DEF CallerBuilds, EnterCallback, Builds
<1>2. ASSUME NEW c \in Callers, CallerAppends(c)
      PROVE  FlagsOK'
    BY <1>2 DEF CallerAppends, LeaveCallback, append_apply_request, Notified
<1>3. CASE Refresh \/ RefreshSkips
    BY <1>3 DEF Refresh, RefreshSkips, RefreshTo
<1>4. CASE InterfaceChange
    BY <1>4 DEF InterfaceChange
<1>5. CASE MonitorBuilds
    BY <1>5 DEF MonitorBuilds, Builds
<1>6. CASE MonitorAppends
    BY <1>6 DEF MonitorAppends, append_apply_request, Notified
<1>7. CASE MonitorReturns \/ MonitorExits \/ MonitorFails \/ RefreshFails
    BY <1>7 DEF MonitorReturns, MonitorExits, MonitorFails, RefreshFails
<1>8. CASE interface_monitor_failure_process
    BY <1>8 DEF interface_monitor_failure_process, Notified
<1>9. CASE WorkerIdles \/ WorkerDefers \/ WorkerBlocks \/ WorkerTimesOut
    BY <1>9 DEF WorkerIdles, WorkerDefers, WorkerBlocks, WorkerTimesOut, WorkerGoes
<1>10. CASE WorkerRuns \/ WorkerLoops \/ SpuriousWake
    BY <1>10 DEF WorkerRuns, WorkerLoops, SpuriousWake, WorkerGoes
<1>11. CASE WorkerStops
    BY <1>11 DEF WorkerStops
<1>12. CASE WorkerTakes
    BY <1>12 DEF WorkerTakes, Immediate, Delayed
<1>13. CASE WorkerStarts(TRUE) \/ WorkerStarts(FALSE)
    BY <1>13 DEF WorkerStarts, StartSucceeds, StartFails
<1>14. CASE ReadPolicy
    BY <1>14 DEF ReadPolicy
<1>15. CASE ReadSnapshot
    BY <1>15 DEF ReadSnapshot
<1>16. ASSUME NEW n \in Nics, attach_filter(n) \/ detach_filter(n) \/ FilterFaults(n)
      PROVE  FlagsOK'
    BY <1>16 DEF attach_filter, detach_filter, FilterFaults, FilterError, LateFilter, HandleNic
<1>17. CASE FinishApply
    BY <1>17 DEF FinishApply, GiveUp
<1>18. CASE InitializeFails \/ StartWorker \/ CtorSucceeds \/ CtorFails \/ Destructor \/ JoinWorker
    BY <1>18 DEF InitializeFails, StartWorker, CtorSucceeds, CtorFails, Destructor,
       JoinWorker, LifeGoes, StartSucceeds, StartFails
<1>19. CASE RequestStop \/ NotifyAll \/ StopMonitor \/ JoinMonitor
    BY <1>19 DEF RequestStop, NotifyAll, StopMonitor, JoinMonitor, LifeGoes, Notified
<1>20. CASE CreateAttacher
    BY <1>20 DEF CreateAttacher, create_attacher
<1>21. ASSUME NEW c \in Callers, NEW i \in Ids, NEW p \in Policy, CallerPublishes(c, i, p)
      PROVE  FlagsOK'
    BY <1>21 DEF CallerPublishes, publish
<1>22. ASSUME NEW n \in Nics, NicAppears(n) \/ NicDisappears(n)
      PROVE  FlagsOK'
    BY <1>22 DEF NicAppears, NicDisappears, NicChanges
<1>23. CASE UNCHANGED vars
    BY <1>23 DEF vars
<1>. QED
    BY <1>1, <1>2, <1>3, <1>4, <1>5, <1>6, <1>7, <1>8, <1>9, <1>10, <1>11, <1>12, <1>13, <1>14,
       <1>15, <1>16, <1>17, <1>18, <1>19, <1>20, <1>21, <1>22, <1>23
    DEF Next, CallerSteps, MonitorSteps, WorkerSteps, LifeSteps, Faults, Inputs

\* Program counters and indices.
LEMMA PlacesStep == TypeOK /\ [Next]_vars => PlacesOK'
<1> SUFFICES ASSUME TypeOK, [Next]_vars PROVE PlacesOK'
    OBVIOUS
<1> USE ZenonT(30), ManagerAssumption, MaxAttachersAssumption
    DEF TypeOK, PlacesOK, SourceTypeOK, sourceVars, lifeVars, queueVars, workerData, monitorData,
       kernelVars, historyVars
<1>1. ASSUME NEW c \in Callers, CallerBuilds(c)
      PROVE  PlacesOK'
    BY <1>1 DEF CallerBuilds, EnterCallback, Builds
<1>2. ASSUME NEW c \in Callers, CallerAppends(c)
      PROVE  PlacesOK'
    BY <1>2 DEF CallerAppends, LeaveCallback, append_apply_request, Notified
<1>3. CASE Refresh \/ RefreshSkips
    BY <1>3, SMTT(30) DEF Refresh, RefreshSkips, RefreshTo
<1>4. CASE InterfaceChange
    BY <1>4, SMTT(30) DEF InterfaceChange
<1>5. CASE MonitorBuilds
    BY <1>5 DEF MonitorBuilds, Builds
<1>6. CASE MonitorAppends
    BY <1>6, SMTT(30) DEF MonitorAppends, append_apply_request, Notified
<1>7. CASE MonitorReturns \/ MonitorExits \/ MonitorFails \/ RefreshFails
    BY <1>7, SMTT(30) DEF MonitorReturns, MonitorExits, MonitorFails, RefreshFails
<1>8. CASE interface_monitor_failure_process
    BY <1>8 DEF interface_monitor_failure_process, Notified
<1>9. CASE WorkerIdles \/ WorkerDefers \/ WorkerBlocks \/ WorkerTimesOut
    BY <1>9, SMTT(30) DEF WorkerIdles, WorkerDefers, WorkerBlocks, WorkerTimesOut, WorkerGoes
<1>10. CASE WorkerRuns \/ WorkerLoops \/ SpuriousWake
    BY <1>10, SMTT(30) DEF WorkerRuns, WorkerLoops, SpuriousWake, WorkerGoes
<1>11. CASE WorkerStops
    BY <1>11 DEF WorkerStops
<1>12. CASE WorkerTakes
    BY <1>12 DEF WorkerTakes, Immediate, Delayed
<1>13. CASE WorkerStarts(TRUE) \/ WorkerStarts(FALSE)
    BY <1>13 DEF WorkerStarts, StartSucceeds, StartFails
<1>14. CASE ReadPolicy
    BY <1>14 DEF ReadPolicy
<1>15. CASE ReadSnapshot
    BY <1>15 DEF ReadSnapshot
<1>16. ASSUME NEW n \in Nics, attach_filter(n) \/ detach_filter(n) \/ FilterFaults(n)
      PROVE  PlacesOK'
    BY <1>16, SMTT(30) DEF attach_filter, detach_filter, FilterFaults, FilterError, LateFilter, HandleNic
<1>17. CASE FinishApply
    BY <1>17 DEF FinishApply, GiveUp
<1>18. CASE InitializeFails \/ StartWorker \/ CtorSucceeds \/ CtorFails \/ Destructor \/ JoinWorker
    BY <1>18, SMTT(30) DEF InitializeFails, StartWorker, CtorSucceeds, CtorFails, Destructor, JoinWorker,
       LifeGoes, StartSucceeds, StartFails
<1>19. CASE RequestStop \/ NotifyAll \/ StopMonitor \/ JoinMonitor
    BY <1>19, SMTT(30) DEF RequestStop, NotifyAll, StopMonitor, JoinMonitor, LifeGoes, Notified
<1>20. CASE CreateAttacher
    BY <1>20, SMTT(30) DEF CreateAttacher, create_attacher
<1>21. ASSUME NEW c \in Callers, NEW i \in Ids, NEW p \in Policy, CallerPublishes(c, i, p)
      PROVE  PlacesOK'
    BY <1>21 DEF CallerPublishes, publish
<1>22. ASSUME NEW n \in Nics, NicAppears(n) \/ NicDisappears(n)
      PROVE  PlacesOK'
    BY <1>22, SMTT(30) DEF NicAppears, NicDisappears, NicChanges
<1>23. CASE UNCHANGED vars
    BY <1>23 DEF vars
<1>. QED
    BY <1>1, <1>2, <1>3, <1>4, <1>5, <1>6, <1>7, <1>8, <1>9, <1>10, <1>11, <1>12, <1>13, <1>14,
       <1>15, <1>16, <1>17, <1>18, <1>19, <1>20, <1>21, <1>22, <1>23
    DEF Next, CallerSteps, MonitorSteps, WorkerSteps, LifeSteps, Faults, Inputs

\* Requests: every identifier the worker will use exists.
LEMMA RequestsStep == TypeOK /\ Bookkeeping /\ [Next]_vars => RequestsOK'
<1> SUFFICES ASSUME TypeOK /\ Bookkeeping, [Next]_vars PROVE RequestsOK'
    BY ZenonT(30)
<1> USE ZenonT(30), ManagerAssumption, MaxAttachersAssumption
    DEF TypeOK, RequestsOK, Request, Posters, Blank, sourceVars, lifeVars, queueVars, workerData,
       monitorData, kernelVars, historyVars
<1>1. ASSUME NEW c \in Callers, CallerBuilds(c)
      PROVE  RequestsOK'
<2>1. caller[c].id \in Nat /\ c \in Posters
    BY DEF SourceTypeOK
<2>2. posting' \in [Posters -> Request]
    BY <2>1, BuildsType, <1>1 DEF CallerBuilds
<2>. QED
    BY <2>2, <1>1 DEF CallerBuilds, EnterCallback
<1>2. ASSUME NEW c \in Callers, CallerAppends(c)
      PROVE  RequestsOK'
<2>1. posting[c] \in Request /\ posting[c].id < attachers
    BY <1>2 DEF CallerAppends, LeaveCallback, Bookkeeping, PostedFor, SourceTypeOK
<2>2. apply_requests' \in SUBSET Request /\ \A r \in apply_requests' : r.id < attachers
    BY <2>1, AppendedQueue, <1>2 DEF CallerAppends, append_apply_request
<2>. QED
    BY <2>2, <1>2, SMTT(30) DEF CallerAppends, LeaveCallback, append_apply_request
<1>3. CASE Refresh \/ RefreshSkips
    BY <1>3, SMTT(30) DEF Refresh, RefreshSkips, RefreshTo
<1>4. CASE InterfaceChange
    BY <1>4 DEF InterfaceChange
<1>5. CASE MonitorBuilds
<2>1. next_id \in Nat /\ "monitor" \in Posters
    BY DEF PlacesOK
<2>2. posting' \in [Posters -> Request]
    BY <2>1, BuildsType, <1>5 DEF MonitorBuilds
<2>. QED
    BY <2>2, <1>5 DEF MonitorBuilds
<1>6. CASE MonitorAppends
<2>1. posting["monitor"] \in Request /\ posting["monitor"].id < attachers
    BY <1>6, SMTT(30) DEF MonitorAppends, Bookkeeping, PostedFor, PlacesOK, SourceTypeOK
<2>2. apply_requests' \in SUBSET Request /\ \A r \in apply_requests' : r.id < attachers
    BY <2>1, AppendedQueue, <1>6 DEF MonitorAppends, append_apply_request
<2>. QED
    BY <2>2, <1>6, SMTT(30) DEF MonitorAppends, append_apply_request
<1>7. CASE MonitorReturns \/ MonitorExits \/ MonitorFails \/ RefreshFails
    BY <1>7 DEF MonitorReturns, MonitorExits, MonitorFails, RefreshFails
<1>8. CASE interface_monitor_failure_process
    BY <1>8 DEF interface_monitor_failure_process, Notified
<1>9. CASE WorkerIdles \/ WorkerDefers \/ WorkerBlocks \/ WorkerTimesOut
    BY <1>9 DEF WorkerIdles, WorkerDefers, WorkerBlocks, WorkerTimesOut, WorkerGoes
<1>10. CASE WorkerRuns \/ WorkerLoops \/ SpuriousWake
    BY <1>10 DEF WorkerRuns, WorkerLoops, SpuriousWake, WorkerGoes
<1>11. CASE WorkerStops
    BY <1>11 DEF WorkerStops
<1>12. CASE WorkerTakes
    BY <1>12 DEF WorkerTakes, Immediate, Delayed
<1>13. CASE WorkerStarts(TRUE) \/ WorkerStarts(FALSE)
    BY <1>13 DEF WorkerStarts, StartSucceeds, StartFails
<1>14. CASE ReadPolicy
    BY <1>14 DEF ReadPolicy
<1>15. CASE ReadSnapshot
    BY <1>15 DEF ReadSnapshot
<1>16. ASSUME NEW n \in Nics, attach_filter(n) \/ detach_filter(n) \/ FilterFaults(n)
      PROVE  RequestsOK'
    BY <1>16, SMTT(30) DEF attach_filter, detach_filter, FilterFaults, FilterError, LateFilter, HandleNic
<1>17. CASE FinishApply
<2>1. CASE apply_requests' = apply_requests
    BY <2>1, <1>17, SMTT(30) DEF FinishApply, GiveUp
<2>2. CASE apply_requests' = Appended(Retry) /\ cur.retry_count < kMaxRetryCount
  <3>1. Retry \in Request /\ Retry.id < attachers
    BY <2>2, RetryType, <1>17 DEF FinishApply, GiveUp, Bookkeeping, Phases
  <3>. QED
    BY <2>2, <3>1, AppendedQueue, <1>17, SMTT(30) DEF FinishApply, GiveUp
<2>. QED
    BY <2>1, <2>2, <1>17, SMTT(30) DEF FinishApply, GiveUp
<1>18. CASE InitializeFails \/ StartWorker \/ CtorSucceeds \/ CtorFails \/ Destructor \/ JoinWorker
    BY <1>18 DEF InitializeFails, StartWorker, CtorSucceeds, CtorFails, Destructor, JoinWorker,
       LifeGoes, StartSucceeds, StartFails
<1>19. CASE RequestStop \/ NotifyAll \/ StopMonitor \/ JoinMonitor
    BY <1>19 DEF RequestStop, NotifyAll, StopMonitor, JoinMonitor, LifeGoes, Notified
<1>20. CASE CreateAttacher
    BY <1>20, SMTT(30) DEF CreateAttacher, create_attacher, SourceTypeOK
<1>21. ASSUME NEW c \in Callers, NEW i \in Ids, NEW p \in Policy, CallerPublishes(c, i, p)
      PROVE  RequestsOK'
    BY <1>21 DEF CallerPublishes, publish
<1>22. ASSUME NEW n \in Nics, NicAppears(n) \/ NicDisappears(n)
      PROVE  RequestsOK'
    BY <1>22 DEF NicAppears, NicDisappears, NicChanges
<1>23. CASE UNCHANGED vars
    BY <1>23 DEF vars
<1>. QED
    BY <1>1, <1>2, <1>3, <1>4, <1>5, <1>6, <1>7, <1>8, <1>9, <1>10, <1>11, <1>12, <1>13, <1>14,
       <1>15, <1>16, <1>17, <1>18, <1>19, <1>20, <1>21, <1>22, <1>23
    DEF Next, CallerSteps, MonitorSteps, WorkerSteps, LifeSteps, Faults, Inputs

\* The worker's data, the kernel and the history.
LEMMA DataStep == TypeOK /\ Bookkeeping /\ [Next]_vars => DataOK'
<1> SUFFICES ASSUME TypeOK /\ Bookkeeping, [Next]_vars PROVE DataOK'
    OBVIOUS
<1> USE ZenonT(30), ManagerAssumption, MaxAttachersAssumption
    DEF TypeOK, RequestsOK, DataOK, SourceTypeOK, Policy, NoPolicy, Ids, sourceVars, lifeVars,
       queueVars, workerData, monitorData, kernelVars, historyVars
<1>0. /\ 0 \in 0 .. kMaxRetryCount + 1
      /\ \A k \in 0 .. kMaxRetryCount + 1 : ~(k > kMaxRetryCount) => k + 1 \in 0 .. kMaxRetryCount + 1
    BY SMTT(30)
<1>1. ASSUME NEW c \in Callers, CallerBuilds(c)
      PROVE  DataOK'
    BY <1>1 DEF CallerBuilds, EnterCallback, Builds
<1>2. ASSUME NEW c \in Callers, CallerAppends(c)
      PROVE  DataOK'
    BY <1>2 DEF CallerAppends, LeaveCallback, append_apply_request, Notified
<1>3. CASE Refresh \/ RefreshSkips
<2>1. PICK list, changed : RefreshTo(list, changed)
    BY <1>3 DEF Refresh, RefreshSkips
<2>2. interfaces' \in [Nics -> {"absent", "current", "stale"}]
  <3>1. CASE Refresh
    BY <3>1 DEF Refresh, RefreshTo
  <3>2. CASE RefreshSkips
    BY <3>2 DEF RefreshSkips, RefreshTo
  <3>. QED
    BY <1>3, <3>1, <3>2
<2>3. unread' \in [Ids -> SUBSET {"policy", "nics"}]
    BY <2>1 DEF RefreshTo
<2>4. failed' \in [Ids -> 0 .. kMaxRetryCount + 1]
    BY <1>0, <2>1 DEF RefreshTo
<2>. QED
    BY <2>1, <2>2, <2>3, <2>4 DEF RefreshTo
<1>4. CASE InterfaceChange
    BY <1>4 DEF InterfaceChange
<1>5. CASE MonitorBuilds
    BY <1>5 DEF MonitorBuilds, Builds
<1>6. CASE MonitorAppends
    BY <1>6 DEF MonitorAppends, append_apply_request, Notified
<1>7. CASE MonitorReturns \/ MonitorExits \/ MonitorFails \/ RefreshFails
    BY <1>7 DEF MonitorReturns, MonitorExits, MonitorFails, RefreshFails
<1>8. CASE interface_monitor_failure_process
    BY <1>8 DEF interface_monitor_failure_process, Notified
<1>9. CASE WorkerIdles \/ WorkerDefers \/ WorkerBlocks \/ WorkerTimesOut
    BY <1>9 DEF WorkerIdles, WorkerDefers, WorkerBlocks, WorkerTimesOut, WorkerGoes
<1>10. CASE WorkerRuns \/ WorkerLoops \/ SpuriousWake
    BY <1>10 DEF WorkerRuns, WorkerLoops, SpuriousWake, WorkerGoes
<1>11. CASE WorkerStops
    BY <1>11 DEF WorkerStops
<1>12. CASE WorkerTakes
    BY <1>12 DEF WorkerTakes, Immediate, Delayed
<1>13. CASE WorkerStarts(TRUE) \/ WorkerStarts(FALSE)
    BY <1>13 DEF WorkerStarts, StartSucceeds, StartFails
<1>14. CASE ReadPolicy
<2>1. PICK request \in ready :
          /\ policy' = policy_snapshot[request.id]
          /\ unread' = [unread EXCEPT ![request.id] = @ \ {"policy"}]
    BY <1>14 DEF ReadPolicy
<2>2. request.id \in Ids
    BY <2>1, SMTT(30) DEF Request
<2>. QED
    BY <2>1, <2>2, <1>14 DEF ReadPolicy
<1>15. CASE ReadSnapshot
    BY <1>15 DEF ReadSnapshot
<1>16. ASSUME NEW n \in Nics, attach_filter(n) \/ detach_filter(n) \/ FilterFaults(n)
      PROVE  DataOK'
<2>1. todo' \in SUBSET Nics /\ UNCHANGED <<policy, nics, interfaces, unread, failed>>
    BY <1>16 DEF attach_filter, detach_filter, FilterFaults, FilterError, LateFilter, HandleNic
<2>2. tc[n] \cup {cur.id} \in SUBSET Ids /\ tc[n] \ {cur.id} \in SUBSET Ids
    BY <1>16, SMTT(30) DEF attach_filter, detach_filter, FilterFaults, FilterError, LateFilter, HandleNic,
       Bookkeeping, Phases, Request
<2>3. tc' \in [Nics -> SUBSET Ids]
    BY <2>2, <1>16, SMTT(30) DEF attach_filter, detach_filter, FilterFaults, FilterError, LateFilter, HandleNic
<2>. QED
    BY <2>1, <2>3
<1>17. CASE FinishApply
<2>1. failed' \in [Ids -> 0 .. kMaxRetryCount + 1]
    BY <1>0, <1>17 DEF FinishApply
<2>. QED
    BY <1>17, <2>1 DEF FinishApply
<1>18. CASE InitializeFails \/ StartWorker \/ CtorSucceeds \/ CtorFails \/ Destructor \/ JoinWorker
    BY <1>18 DEF InitializeFails, StartWorker, CtorSucceeds, CtorFails, Destructor, JoinWorker,
       LifeGoes, StartSucceeds, StartFails
<1>19. CASE RequestStop \/ NotifyAll \/ StopMonitor \/ JoinMonitor
    BY <1>19 DEF RequestStop, NotifyAll, StopMonitor, JoinMonitor, LifeGoes, Notified
<1>20. CASE CreateAttacher
    BY <1>20 DEF CreateAttacher, create_attacher
<1>21. ASSUME NEW c \in Callers, NEW i \in Ids, NEW p \in Policy, CallerPublishes(c, i, p)
      PROVE  DataOK'
    BY <1>0, <1>21 DEF CallerPublishes, publish
<1>22. ASSUME NEW n \in Nics, NicAppears(n) \/ NicDisappears(n)
      PROVE  DataOK'
    BY <1>22 DEF NicAppears, NicDisappears, NicChanges
<1>23. CASE UNCHANGED vars
    BY <1>23 DEF vars
<1>. QED
    BY <1>1, <1>2, <1>3, <1>4, <1>5, <1>6, <1>7, <1>8, <1>9, <1>10, <1>11, <1>12, <1>13, <1>14,
       <1>15, <1>16, <1>17, <1>18, <1>19, <1>20, <1>21, <1>22, <1>23
    DEF Next, CallerSteps, MonitorSteps, WorkerSteps, LifeSteps, Faults, Inputs

\* The type invariant is preserved.
LEMMA TypeStep == TypeOK /\ Bookkeeping /\ [Next]_vars => TypeOK'
BY SourceStep, SourceTypeStep, FlagsStep, PlacesStep, RequestsStep, DataStep DEF TypeOK
-----------------------------------------------------------------------------
\* What the program counters say of the data and of the requests being posted.
LEMMA PcStep == TypeOK /\ PostedFor /\ Phases /\ [Next]_vars => (PostedFor /\ Phases)'
<1> SUFFICES ASSUME TypeOK /\ PostedFor /\ Phases, [Next]_vars PROVE (PostedFor /\ Phases)'
    OBVIOUS
<1> USE ZenonT(30), ManagerAssumption, MaxAttachersAssumption
    DEF TypeOK, SourceTypeOK, PlacesOK, RequestsOK, PostedFor, Phases, Posters, Request,
       sourceVars, lifeVars, queueVars, workerData, monitorData, kernelVars, historyVars
<1>1. ASSUME NEW c \in Callers, CallerBuilds(c)
      PROVE  (PostedFor /\ Phases)'
<2>1. /\ caller' = [caller EXCEPT ![c].pc = "calling"]
      /\ \E t : posting' = [posting EXCEPT ![c] =
            [id |-> caller[c].id, retry_count |-> 0, is_immediate |-> TRUE, request_time |-> t]]
    BY <1>1 DEF CallerBuilds, EnterCallback, Builds
<2>2. UNCHANGED <<mpc, next_id, count, wpc, cur, attachers, ready, life, stop, status>>
    BY <1>1 DEF CallerBuilds, EnterCallback
<2>3. PostedFor'
    BY SMTT(30), <2>1, <2>2
<2>4. Phases'
    BY <2>2
<2>. QED
    BY <2>3, <2>4
<1>2. ASSUME NEW c \in Callers, CallerAppends(c)
      PROVE  (PostedFor /\ Phases)'
    BY <1>2 DEF CallerAppends, LeaveCallback, append_apply_request, Notified, Idle
<1>3. CASE Refresh \/ RefreshSkips
    BY <1>3, SMTT(30) DEF Refresh, RefreshSkips, RefreshTo
<1>4. CASE InterfaceChange
    BY <1>4 DEF InterfaceChange
<1>5. CASE MonitorBuilds
    BY <1>5, SMTT(30) DEF MonitorBuilds, Builds
<1>6. CASE MonitorAppends
    BY <1>6 DEF MonitorAppends, append_apply_request, Notified
<1>7. CASE MonitorReturns \/ MonitorExits \/ MonitorFails \/ RefreshFails
<2>1. /\ UNCHANGED <<caller, posting, wpc, cur, attachers, ready, life, stop>>
      /\ mpc' \in {"watch", "off", "failing"}
      /\ mpc' = "watch" => mpc \in {"watch", "posting"} /\ UNCHANGED status
    BY <1>7 DEF MonitorReturns, MonitorExits, MonitorFails, RefreshFails
<2>. QED
    BY <2>1
<1>8. CASE interface_monitor_failure_process
    BY <1>8 DEF interface_monitor_failure_process, Notified
<1>9. CASE WorkerIdles \/ WorkerDefers \/ WorkerBlocks \/ WorkerTimesOut
    BY <1>9, SMTT(30) DEF WorkerIdles, WorkerDefers, WorkerBlocks, WorkerTimesOut, WorkerGoes
<1>10. CASE WorkerRuns \/ WorkerLoops \/ SpuriousWake
    BY <1>10 DEF WorkerRuns, WorkerLoops, SpuriousWake, WorkerGoes
<1>11. CASE WorkerStops
    BY <1>11 DEF WorkerStops
<1>12. CASE WorkerTakes
    BY <1>12 DEF WorkerTakes, Immediate, Delayed
<1>13. CASE WorkerStarts(TRUE) \/ WorkerStarts(FALSE)
    BY <1>13 DEF WorkerStarts, StartSucceeds, StartFails
<1>14. CASE ReadPolicy
    BY <1>14 DEF ReadPolicy
<1>15. CASE ReadSnapshot
    BY <1>15 DEF ReadSnapshot
<1>16. ASSUME NEW n \in Nics, attach_filter(n) \/ detach_filter(n) \/ FilterFaults(n)
      PROVE  (PostedFor /\ Phases)'
    BY <1>16 DEF attach_filter, detach_filter, FilterFaults, FilterError, LateFilter, HandleNic
<1>17. CASE FinishApply
    BY <1>17 DEF FinishApply, GiveUp
<1>18. CASE InitializeFails \/ StartWorker \/ CtorSucceeds \/ CtorFails \/ Destructor \/ JoinWorker
<2>1. CASE InitializeFails \/ StartWorker
    BY <2>1 DEF InitializeFails, StartWorker, LifeGoes
<2>2. CASE CtorSucceeds \/ CtorFails
    BY <2>2 DEF CtorSucceeds, CtorFails, LifeGoes, StartSucceeds, StartFails
<2>3. CASE Destructor \/ JoinWorker
    BY <2>3 DEF Destructor, JoinWorker, LifeGoes
<2>. QED
    BY <1>18, <2>1, <2>2, <2>3
<1>19. CASE RequestStop \/ NotifyAll \/ StopMonitor \/ JoinMonitor
    BY <1>19 DEF RequestStop, NotifyAll, StopMonitor, JoinMonitor, LifeGoes, Notified
<1>20. CASE CreateAttacher
    BY <1>20, SMTT(30) DEF CreateAttacher, create_attacher
<1>21. ASSUME NEW c \in Callers, NEW i \in Ids, NEW p \in Policy, CallerPublishes(c, i, p)
      PROVE  (PostedFor /\ Phases)'
    BY <1>21 DEF CallerPublishes, publish
<1>22. ASSUME NEW n \in Nics, NicAppears(n) \/ NicDisappears(n)
      PROVE  (PostedFor /\ Phases)'
<2>1. UNCHANGED <<caller, posting, mpc, next_id, count, wpc, cur, attachers, ready, life, stop, status>>
    BY <1>22 DEF NicAppears, NicDisappears, NicChanges
<2>. QED
    BY <2>1
<1>23. CASE UNCHANGED vars
    BY <1>23 DEF vars
<1>. QED
    BY <1>1, <1>2, <1>3, <1>4, <1>5, <1>6, <1>7, <1>8, <1>9, <1>10, <1>11, <1>12, <1>13, <1>14,
       <1>15, <1>16, <1>17, <1>18, <1>19, <1>20, <1>21, <1>22, <1>23
    DEF Next, CallerSteps, MonitorSteps, WorkerSteps, LifeSteps, Faults, Inputs

\* An attacher that does not exist yet has nothing attached and wants nothing.
LEMMA UnusedStep ==
    ASSUME TypeOK, Bookkeeping, [Next]_vars, NEW a \in Ids, a >= attachers, Untouched(a)
    PROVE  Untouched(a)'
<1> USE ZenonT(30), ManagerAssumption, MaxAttachersAssumption
    DEF TypeOK, Untouched, sourceVars, lifeVars, queueVars, workerData, monitorData, kernelVars,
       historyVars
<1>1. ASSUME NEW c \in Callers, CallerBuilds(c)
      PROVE  Untouched(a)'
    BY <1>1 DEF CallerBuilds, EnterCallback, Builds
<1>2. ASSUME NEW c \in Callers, CallerAppends(c)
      PROVE  Untouched(a)'
    BY <1>2 DEF CallerAppends, LeaveCallback, append_apply_request, Notified
<1>3. CASE Refresh \/ RefreshSkips
<2>1. PICK list, changed : RefreshTo(list, changed)
    BY <1>3 DEF Refresh, RefreshSkips
<2>2. ~(a < attachers)
    BY SMTT(30) DEF SourceTypeOK, Ids
<2>3. unread' = [b \in Ids |-> IF b < attachers THEN unread[b] \cup {"nics"} ELSE unread[b]]
    BY <2>1 DEF RefreshTo
<2>4. unread'[a] = unread[a]
    BY <2>2, <2>3
<2>5. UNCHANGED <<policy_snapshot, tc>>
    BY <2>1 DEF RefreshTo
<2>. QED
    BY <2>4, <2>5
<1>4. CASE InterfaceChange
    BY <1>4 DEF InterfaceChange
<1>5. CASE MonitorBuilds
    BY <1>5 DEF MonitorBuilds, Builds
<1>6. CASE MonitorAppends
    BY <1>6 DEF MonitorAppends, append_apply_request, Notified
<1>7. CASE MonitorReturns \/ MonitorExits \/ MonitorFails \/ RefreshFails
    BY <1>7 DEF MonitorReturns, MonitorExits, MonitorFails, RefreshFails
<1>8. CASE interface_monitor_failure_process
    BY <1>8 DEF interface_monitor_failure_process, Notified
<1>9. CASE WorkerIdles \/ WorkerDefers \/ WorkerBlocks \/ WorkerTimesOut
    BY <1>9 DEF WorkerIdles, WorkerDefers, WorkerBlocks, WorkerTimesOut, WorkerGoes
<1>10. CASE WorkerRuns \/ WorkerLoops \/ SpuriousWake
    BY <1>10 DEF WorkerRuns, WorkerLoops, SpuriousWake, WorkerGoes
<1>11. CASE WorkerStops
    BY <1>11 DEF WorkerStops
<1>12. CASE WorkerTakes
    BY <1>12 DEF WorkerTakes, Immediate, Delayed
<1>13. CASE WorkerStarts(TRUE) \/ WorkerStarts(FALSE)
    BY <1>13 DEF WorkerStarts, StartSucceeds, StartFails
<1>14. CASE ReadPolicy
    BY <1>14, SMTT(30) DEF ReadPolicy, RequestsOK, DataOK, Request
<1>15. CASE ReadSnapshot
    BY <1>15 DEF ReadSnapshot, DataOK
<1>16. ASSUME NEW n \in Nics, attach_filter(n) \/ detach_filter(n) \/ FilterFaults(n)
      PROVE  Untouched(a)'
<2>1. cur.id < attachers /\ cur.id \in Nat /\ UNCHANGED <<policy_snapshot, unread>>
    BY <1>16 DEF attach_filter, detach_filter, FilterFaults, FilterError, LateFilter, HandleNic,
       Bookkeeping, Phases,
       RequestsOK, Request
<2>2. tc' \in {tc, [tc EXCEPT ![n] = tc[n] \cup {cur.id}], [tc EXCEPT ![n] = tc[n] \ {cur.id}]}
    BY <1>16 DEF attach_filter, detach_filter, FilterFaults, FilterError, LateFilter, HandleNic
<2>3. ASSUME NEW m \in Nics
      PROVE  tc'[m] \in {tc[m], tc[m] \cup {cur.id}, tc[m] \ {cur.id}}
    BY <2>2 DEF DataOK
<2>4. a \in Nat /\ attachers \in Nat
    BY SMTT(30) DEF SourceTypeOK, Ids
<2>5. a # cur.id
    BY SMTT(30), <2>1, <2>4
<2>. QED
    BY <2>1, <2>3, <2>5
<1>17. CASE FinishApply
    BY <1>17 DEF FinishApply, GiveUp
<1>18. CASE InitializeFails \/ StartWorker \/ CtorSucceeds \/ CtorFails \/ Destructor \/ JoinWorker
    BY <1>18 DEF InitializeFails, StartWorker, CtorSucceeds, CtorFails, Destructor, JoinWorker,
       LifeGoes, StartSucceeds, StartFails
<1>19. CASE RequestStop \/ NotifyAll \/ StopMonitor \/ JoinMonitor
    BY <1>19 DEF RequestStop, NotifyAll, StopMonitor, JoinMonitor, LifeGoes, Notified
<1>20. CASE CreateAttacher
    BY <1>20 DEF CreateAttacher, create_attacher
<1>21. ASSUME NEW c \in Callers, NEW i \in Ids, NEW p \in Policy, CallerPublishes(c, i, p)
      PROVE  Untouched(a)'
<2>1. attachers \in Nat /\ i \in Nat /\ a \in Nat
    BY SMTT(30) DEF SourceTypeOK, Ids
<2>2. /\ i < attachers
      /\ policy_snapshot' = [policy_snapshot EXCEPT ![i] = p]
      /\ unread' = [unread EXCEPT ![i] = @ \cup {"policy"}]
      /\ UNCHANGED tc
    BY <1>21 DEF CallerPublishes, publish
<2>3. a # i
    BY SMTT(30), <2>1, <2>2
<2>4. policy_snapshot'[a] = policy_snapshot[a] /\ unread'[a] = unread[a]
    BY <2>2, <2>3 DEF SourceTypeOK, DataOK
<2>. QED
    BY <2>2, <2>4
<1>22. ASSUME NEW n \in Nics, NicAppears(n) \/ NicDisappears(n)
      PROVE  Untouched(a)'
<2>1. tc' \in {tc, [tc EXCEPT ![n] = {}]} /\ UNCHANGED <<policy_snapshot, unread>>
    BY <1>22 DEF NicAppears, NicDisappears, NicChanges
<2>. QED
    BY <2>1 DEF DataOK
<1>23. CASE UNCHANGED vars
    BY <1>23 DEF vars
<1>. QED
    BY <1>1, <1>2, <1>3, <1>4, <1>5, <1>6, <1>7, <1>8, <1>9, <1>10, <1>11, <1>12, <1>13, <1>14,
       <1>15, <1>16, <1>17, <1>18, <1>19, <1>20, <1>21, <1>22, <1>23
    DEF Next, CallerSteps, MonitorSteps, WorkerSteps, LifeSteps, Faults, Inputs

\* The bookkeeping is preserved.
LEMMA BookStep == TypeOK /\ Bookkeeping /\ [Next]_vars => Bookkeeping'
<1> SUFFICES ASSUME TypeOK, Bookkeeping, [Next]_vars PROVE Bookkeeping'
    OBVIOUS
<1>1. (PostedFor /\ Phases)'
    BY PcStep, ZenonT(30) DEF Bookkeeping
<1>2. attachers' >= attachers
    BY SourceStep DEF SourceNext, create_attacher, publish, EnterCallback, LeaveCallback, sourceVars,
                      TypeOK, SourceTypeOK
<1>3. Unused'
  <2> SUFFICES ASSUME NEW a \in Ids, a >= attachers' PROVE Untouched(a)'
    BY ZenonT(30) DEF Unused
  <2>1. a >= attachers
    BY <1>2, TypeStep DEF TypeOK, SourceTypeOK, Ids
  <2>. QED
    BY <2>1, UnusedStep DEF Bookkeeping, Unused
<1>. QED
    BY <1>1, <1>3 DEF Bookkeeping

\* Types and bookkeeping hold when the constructor starts.
LEMMA BookInit == Init => TypeOK /\ Bookkeeping
<1> SUFFICES ASSUME Init PROVE TypeOK /\ Bookkeeping
    OBVIOUS
<1> USE ZenonT(30), ManagerAssumption, MaxAttachersAssumption DEF Init, SourceInit
<1>1. SourceTypeOK
  <2>1. NoPolicy \in Policy
    BY DEF NoPolicy, Policy
  <2>. QED
    BY <2>1, SMTT(30) DEF SourceTypeOK, Idle, Ids
<1>2. FlagsOK
    BY DEF FlagsOK
<1>3. PlacesOK
    BY SMTT(30) DEF PlacesOK
<1>4. RequestsOK
    BY SMTT(30) DEF RequestsOK, Request, Blank
<1>5. DataOK
  <2>1. interfaces \in [Nics -> {"absent", "current", "stale"}]
    OBVIOUS
  <2>2. failed \in [Ids -> 0 .. kMaxRetryCount + 1]
    <3>1. 0 \in 0 .. kMaxRetryCount + 1
      BY SMTT(30)
    <3>. QED
      BY <3>1
  <2>. QED
    BY <2>1, <2>2 DEF DataOK, Policy, NoPolicy
<1>6. Bookkeeping
    BY DEF Bookkeeping, PostedFor, Phases, Unused, Untouched, Idle
<1>. QED
    BY <1>1, <1>2, <1>3, <1>4, <1>5, <1>6 DEF TypeOK
=============================================================================
