------------------------ MODULE AttachManager_queue -------------------------
(***************************************************************************)
(* Proofs about the coalescing queue of module AttachManager and about the *)
(* restart of a failed interface monitor, for every value of the           *)
(* constants; and that the request_times make sure that no retry takes the *)
(* place of the request for an update that the worker has not read, and    *)
(* that every update gets all its attempts.                                *)
(***************************************************************************)
EXTENDS AttachManager_proofs

\* apply_requests_ is keyed by the id: the set of records that stands for it has one
\* record for each attacher at most.
OneRequestPerAttacher ==
    \A r, q \in apply_requests : r.id = q.id => r = q

\* append_apply_request keeps the queue free of a second request for an attacher.
LEMMA AppendedCoalesces ==
    ASSUME OneRequestPerAttacher, NEW request
    PROVE  \A r, q \in Appended(request) : r.id = q.id => r = q
<1>1. CASE Supersedes(request)
    BY <1>1 DEF Appended, OneRequestPerAttacher
<1>2. CASE ~Supersedes(request)
    BY <1>2, ZenonT(30) DEF Appended, OneRequestPerAttacher
<1>. QED
    BY <1>1, <1>2

\* A step takes requests out of the queue, or appends one.
LEMMA QueueStep ==
    ASSUME [Next]_vars
    PROVE  \/ apply_requests' \subseteq apply_requests
           \/ \E request : apply_requests' = Appended(request)
<1> DEFINE Goal == \/ apply_requests' \subseteq apply_requests
                   \/ \E request : apply_requests' = Appended(request)
<1> USE ZenonT(30) DEF queueVars
<1>1. ASSUME NEW c \in Callers, CallerBuilds(c)
      PROVE  Goal
    BY <1>1 DEF CallerBuilds
<1>2. ASSUME NEW c \in Callers, CallerAppends(c)
      PROVE  Goal
    BY <1>2 DEF CallerAppends, append_apply_request
<1>3. CASE Refresh \/ RefreshSkips
    BY <1>3 DEF Refresh, RefreshSkips, RefreshTo
<1>4. CASE InterfaceChange \/ MonitorBuilds
    BY <1>4 DEF InterfaceChange, MonitorBuilds
<1>5. CASE MonitorAppends
    BY <1>5 DEF MonitorAppends, append_apply_request
<1>6. CASE MonitorReturns \/ MonitorExits \/ MonitorFails \/ RefreshFails
    BY <1>6 DEF MonitorReturns, MonitorExits, MonitorFails, RefreshFails
<1>7. CASE interface_monitor_failure_process
    BY <1>7 DEF interface_monitor_failure_process
<1>8. CASE WorkerIdles \/ WorkerDefers \/ WorkerBlocks \/ WorkerTimesOut
    BY <1>8 DEF WorkerIdles, WorkerDefers, WorkerBlocks, WorkerTimesOut, WorkerGoes
<1>9. CASE WorkerRuns \/ WorkerLoops \/ SpuriousWake
    BY <1>9 DEF WorkerRuns, WorkerLoops, SpuriousWake, WorkerGoes
<1>10. CASE WorkerStops
    BY <1>10 DEF WorkerStops
<1>11. CASE WorkerTakes
    BY <1>11 DEF WorkerTakes, Immediate, Delayed
<1>12. CASE WorkerStarts(TRUE) \/ WorkerStarts(FALSE)
    BY <1>12 DEF WorkerStarts
<1>13. CASE ReadPolicy \/ ReadSnapshot
    BY <1>13 DEF ReadPolicy, ReadSnapshot
<1>14. ASSUME NEW n \in Nics, attach_filter(n) \/ detach_filter(n) \/ FilterFaults(n)
      PROVE  Goal
    BY <1>14 DEF attach_filter, detach_filter, FilterFaults, FilterError, LateFilter, HandleNic
<1>15. CASE FinishApply
    BY <1>15 DEF FinishApply
<1>16. CASE InitializeFails \/ StartWorker \/ CtorSucceeds \/ CtorFails \/ Destructor \/ JoinWorker
    BY <1>16 DEF InitializeFails, StartWorker, CtorSucceeds, CtorFails, Destructor, JoinWorker,
       LifeGoes
<1>17. CASE RequestStop \/ NotifyAll \/ StopMonitor \/ JoinMonitor
    BY <1>17 DEF RequestStop, NotifyAll, StopMonitor, JoinMonitor, LifeGoes
<1>18. CASE CreateAttacher
    BY <1>18 DEF CreateAttacher
<1>19. ASSUME NEW c \in Callers, NEW i \in Ids, NEW p \in Policy, CallerPublishes(c, i, p)
      PROVE  Goal
    BY <1>19 DEF CallerPublishes
<1>20. ASSUME NEW n \in Nics, NicAppears(n) \/ NicDisappears(n)
      PROVE  Goal
    BY <1>20 DEF NicAppears, NicDisappears, NicChanges
<1>21. CASE UNCHANGED vars
    BY <1>21 DEF vars
<1>. QED
    BY <1>1, <1>2, <1>3, <1>4, <1>5, <1>6, <1>7, <1>8, <1>9, <1>10, <1>11,
       <1>12, <1>13, <1>14, <1>15, <1>16, <1>17, <1>18, <1>19, <1>20, <1>21
    DEF Next, CallerSteps, MonitorSteps, WorkerSteps, LifeSteps, Faults, Inputs

\* No step leaves two requests for one attacher in the queue.
LEMMA CoalescedStep == OneRequestPerAttacher /\ [Next]_vars => OneRequestPerAttacher'
BY QueueStep, AppendedCoalesces DEF OneRequestPerAttacher

-----------------------------------------------------------------------------
\* What makes RestartPending inductive: the worker lets go of restart_loader only
\* in the attempt to restart, or after a stop request, and none comes while the
\* manager is usable.
RestartInv ==
    /\ RestartPending
    /\ restart_loader => wpc \in {"run", "restart"}
    /\ life = "new" => wpc = "off"
    /\ stop => life \notin {"new", "starting", "valid"}

\* Every step keeps the restart pending.
LEMMA RestartStep == FlagsOK /\ RestartInv /\ [Next]_vars => RestartInv'
<1> SUFFICES ASSUME FlagsOK, RestartInv, [Next]_vars PROVE RestartInv'
    OBVIOUS
<1> USE ZenonT(30) DEF RestartInv, RestartPending, FlagsOK, lifeVars, queueVars, workerData, monitorData
<1>1. ASSUME NEW c \in Callers, CallerBuilds(c)
      PROVE  RestartInv'
    BY <1>1 DEF CallerBuilds
<1>2. ASSUME NEW c \in Callers, CallerAppends(c)
      PROVE  RestartInv'
    BY <1>2 DEF CallerAppends, append_apply_request, Notified
<1>3. CASE Refresh \/ RefreshSkips
    BY <1>3, SMTT(30) DEF Refresh, RefreshSkips, RefreshTo
<1>4. CASE InterfaceChange \/ MonitorBuilds
    BY <1>4, SMTT(30) DEF InterfaceChange, MonitorBuilds
<1>5. CASE MonitorAppends
    BY <1>5 DEF MonitorAppends, append_apply_request, Notified
<1>6. CASE MonitorReturns \/ MonitorExits \/ MonitorFails \/ RefreshFails
    BY <1>6, SMTT(30) DEF MonitorReturns, MonitorExits, MonitorFails, RefreshFails
<1>7. CASE interface_monitor_failure_process
    BY <1>7 DEF interface_monitor_failure_process, Notified
<1>8. CASE WorkerIdles \/ WorkerDefers \/ WorkerBlocks \/ WorkerTimesOut
    BY <1>8, SMTT(30) DEF WorkerIdles, WorkerDefers, WorkerBlocks, WorkerTimesOut, WorkerGoes
<1>9. CASE WorkerRuns \/ WorkerLoops \/ SpuriousWake
    BY <1>9, SMTT(30) DEF WorkerRuns, WorkerLoops, SpuriousWake, WorkerGoes
<1>10. CASE WorkerStops
    BY <1>10 DEF WorkerStops
<1>11. CASE WorkerTakes
    BY <1>11, SMTT(30) DEF WorkerTakes, Immediate, Delayed
<1>12. CASE WorkerStarts(TRUE) \/ WorkerStarts(FALSE)
    BY <1>12, SMTT(30) DEF WorkerStarts, StartSucceeds, StartFails
<1>13. CASE ReadPolicy \/ ReadSnapshot
    BY <1>13, SMTT(30) DEF ReadPolicy, ReadSnapshot
<1>14. ASSUME NEW n \in Nics, attach_filter(n) \/ detach_filter(n) \/ FilterFaults(n)
      PROVE  RestartInv'
    BY <1>14, SMTT(30) DEF attach_filter, detach_filter, FilterFaults, FilterError, LateFilter, HandleNic
<1>15. CASE FinishApply
    BY <1>15 DEF FinishApply
<1>16. CASE InitializeFails \/ StartWorker \/ CtorSucceeds \/ CtorFails \/ Destructor \/ JoinWorker
    BY <1>16, SMTT(30) DEF InitializeFails, StartWorker, CtorSucceeds, CtorFails, Destructor, JoinWorker,
       LifeGoes, StartSucceeds, StartFails
<1>17. CASE RequestStop \/ NotifyAll \/ StopMonitor \/ JoinMonitor
    BY <1>17, SMTT(30) DEF RequestStop, NotifyAll, StopMonitor, JoinMonitor, LifeGoes, Notified
<1>18. CASE CreateAttacher
    BY <1>18 DEF CreateAttacher
<1>19. ASSUME NEW c \in Callers, NEW i \in Ids, NEW p \in Policy, CallerPublishes(c, i, p)
      PROVE  RestartInv'
    BY <1>19 DEF CallerPublishes
<1>20. ASSUME NEW n \in Nics, NicAppears(n) \/ NicDisappears(n)
      PROVE  RestartInv'
    BY <1>20, SMTT(30) DEF NicAppears, NicDisappears, NicChanges
<1>21. CASE UNCHANGED vars
    BY <1>21 DEF vars
<1>. QED
    BY <1>1, <1>2, <1>3, <1>4, <1>5, <1>6, <1>7, <1>8, <1>9, <1>10, <1>11,
       <1>12, <1>13, <1>14, <1>15, <1>16, <1>17, <1>18, <1>19, <1>20, <1>21
    DEF Next, CallerSteps, MonitorSteps, WorkerSteps, LifeSteps, Faults, Inputs

\* While the manager is usable, a monitor that does not run is going to be
\* restarted, whatever the order in which it fails, reports the failure and the
\* worker's attempts fail (:85-88, :137-149).
THEOREM MonitorRestarted == Spec => []RestartPending
<1>1. Init => FlagsOK /\ RestartInv
    BY ZenonT(30) DEF Init, FlagsOK, RestartInv, RestartPending
<1>2. FlagsOK /\ RestartInv /\ [Next]_vars => FlagsOK' /\ RestartInv'
    BY FlagsStep, RestartStep
<1>3. RestartInv => RestartPending
    BY DEF RestartInv
<1>. QED
    BY <1>1, <1>2, <1>3, PTL DEF Spec
-----------------------------------------------------------------------------
\* A thread p has built a request for a and not appended it yet.
Posts(p, a) ==
    \/ p \in Callers /\ caller[p].pc = "calling" /\ caller[p].id = a
    \/ p = "monitor" /\ mpc = "append" /\ next_id = a

\* A thread is still going to build one.
Unbuilt(a) ==
    \/ \E c \in Callers : caller[c].pc = "notify" /\ caller[c].id = a
    \/ mpc = "changed"
    \/ mpc = "posting" /\ next_id <= a /\ a < count
    \/ mpc = "append" /\ next_id < a /\ a < count

\* No retry for a, queued or yet to come from the run in progress, is as new as q.
NewerThanRetries(q, a) ==
    \/ q.request_time = MaxTime
    \/ /\ \A r \in apply_requests : r.id = a /\ ~r.is_immediate => r.request_time < q.request_time
       /\ Applying(a) => cur.request_time < q.request_time

\* Where the request that no retry can replace may be.
Posted(a) == \E p \in Posters : Posts(p, a) /\ NewerThanRetries(posting[p], a)
Waits(a) ==
    \E q \in apply_requests :
        q.id = a /\ (q.request_time = MaxTime \/ (q.is_immediate /\ NewerThanRetries(q, a)))
HalfRead(a) == wpc = "snap" /\ cur.id = a /\ unread[a] \subseteq {"nics"}

\* An update that is not read yet has such a request.
Fresh(a) == unread[a] = {} \/ Unbuilt(a) \/ Posted(a) \/ Waits(a) \/ Ready(a) \/ HalfRead(a)

\* Posted requests are immediate and no retries; the worker has one request of an attacher at a
\* time; and what is queued for that attacher meanwhile was posted, not retried.
BuiltImmediate ==
    /\ \A c \in Callers : caller[c].pc = "calling" => posting[c].is_immediate /\ posting[c].retry_count = 0
    /\ mpc = "append" => posting["monitor"].is_immediate /\ posting["monitor"].retry_count = 0
TakenOnce ==
    /\ \A r, q \in ready : r.id = q.id => r = q
    /\ wpc \in {"snap", "nics"} => \A r \in ready : r.id # cur.id
OthersImmediate ==
    \A r \in apply_requests : Ready(r.id) \/ Applying(r.id) => r.is_immediate
-----------------------------------------------------------------------------
\* A request that is being built is immediate and newer than any retry.
LEMMA BuiltNewest ==
    ASSUME TypeOK, NEW p \in Posters, NEW i \in Nat, Builds(p, i), UNCHANGED <<apply_requests, wpc, cur>>
    PROVE  /\ posting'[p].is_immediate /\ posting'[p].retry_count = 0 /\ posting'[p].id = i
           /\ NewerThanRetries(posting[p], i)'
           /\ \A r \in Posters : r # p => posting'[r] = posting[r]
<1>1. PICK t \in 1 .. MaxTime :
        /\ ClockReads(i, t)
        /\ posting' = [posting EXCEPT ![p] =
              [id |-> i, retry_count |-> 0, is_immediate |-> TRUE, request_time |-> t]]
    BY ZenonT(30) DEF Builds
<1>2. posting'[p] = [id |-> i, retry_count |-> 0, is_immediate |-> TRUE, request_time |-> t]
    BY <1>1 DEF TypeOK, RequestsOK
<1>3. \A r \in Posters : r # p => posting'[r] = posting[r]
    BY <1>1 DEF TypeOK, RequestsOK
<1>4. CASE t = MaxTime
    BY <1>2, <1>3, <1>4 DEF NewerThanRetries
<1>5. CASE \A r \in Live(i) : r.request_time < t
  <2>1. \A r \in apply_requests : r.id = i => r.request_time < t
    BY <1>5 DEF Live
  <2>2. Applying(i) => cur.request_time < t
    BY <1>5 DEF Live, Applying
  <2>. QED
    BY <1>2, <1>3, <2>1, <2>2 DEF NewerThanRetries, Applying
<1>. QED
    BY <1>1, <1>4, <1>5 DEF ClockReads

\* Appending a posted request for a keeps what is newer than the retries, and the
\* queue then has such a request if it had one or was given one.
LEMMA AppendedNewer ==
    ASSUME TypeOK, OneRequestPerAttacher, NEW a, NEW q \in Request, q.id = a, q.is_immediate,
           apply_requests' = Appended(q), cur' = cur, Applying(a)' => Applying(a)
    PROVE  /\ \A x : NewerThanRetries(x, a) => NewerThanRetries(x, a)'
           /\ NewerThanRetries(q, a) \/ Waits(a) => Waits(a)'
<1>1. \A r \in apply_requests' : r \in apply_requests \/ r = q
    BY DEF Appended
<1>2. ASSUME NEW x, NewerThanRetries(x, a) PROVE NewerThanRetries(x, a)'
    BY <1>1, <1>2 DEF NewerThanRetries
<1>3. \A r \in apply_requests : r.request_time \in 0 .. MaxTime
    BY DEF TypeOK, RequestsOK, Request
<1>4. q.request_time \in 0 .. MaxTime /\ cur.request_time \in 0 .. MaxTime /\ MaxTime \in Nat
    BY ManagerAssumption, ZenonT(30) DEF TypeOK, RequestsOK, Request
<1>5. CASE Supersedes(q)
  <2>1. q \in apply_requests' /\ \A r \in apply_requests' : r.id = a => r = q
    BY <1>5 DEF Appended
  <2>2. ASSUME NewerThanRetries(q, a) PROVE Waits(a)'
    BY <1>2, <2>1, <2>2 DEF Waits
  <2>3. ASSUME NEW w \in apply_requests, w.id = a, w.request_time = MaxTime PROVE Waits(a)'
    <3>1. q.request_time = MaxTime
      BY <1>3, <1>4, <1>5, <2>3 DEF Supersedes
    <3>. QED
      BY <2>1, <3>1 DEF Waits
  <2>4. ASSUME NEW w \in apply_requests, w.id = a, w.request_time # MaxTime, NewerThanRetries(w, a)
        PROVE  Waits(a)'
    <3>1. w.request_time <= q.request_time
      BY <1>5, <2>4, ZenonT(30) DEF Supersedes
    <3>2. Applying(a) => cur.request_time < q.request_time
      BY <1>3, <1>4, <2>4, <3>1 DEF NewerThanRetries
    <3>3. NewerThanRetries(q, a)'
      BY <2>1, <3>2 DEF NewerThanRetries
    <3>. QED
      BY <2>1, <3>3, ZenonT(30) DEF Waits
  <2>. QED
    BY <1>2, <2>2, <2>3, <2>4 DEF Waits
<1>6. CASE ~Supersedes(q)
  <2>1. apply_requests' = apply_requests
    BY <1>6, ZenonT(30) DEF Appended
  <2>2. ASSUME Waits(a) PROVE Waits(a)'
    BY <1>2, <2>1, <2>2, ZenonT(30) DEF Waits
  <2>3. ASSUME NewerThanRetries(q, a) PROVE Waits(a)'
    <3>1. PICK r \in apply_requests : r.id = a /\ r.request_time > q.request_time
      BY <1>3, <1>4, <1>6, SMTT(30) DEF Supersedes
    <3>2. /\ \A s \in apply_requests : s.id = a /\ ~s.is_immediate => s.request_time < q.request_time
          /\ Applying(a) => cur.request_time < q.request_time
      BY <1>3, <1>4, <2>3, <3>1, SMTT(30) DEF NewerThanRetries
    <3>3. r.is_immediate
      BY <1>3, <1>4, <3>1, <3>2, SMTT(30)
    <3>4. \A s \in apply_requests : s.id = a => s = r
      BY <3>1, ZenonT(30) DEF OneRequestPerAttacher
    <3>5. NewerThanRetries(r, a)
      BY <1>3, <1>4, <3>1, <3>2, <3>3, <3>4, SMTT(30) DEF NewerThanRetries
    <3>. QED
      BY <1>2, <2>1, <3>1, <3>3, <3>5, ZenonT(30) DEF Waits
  <2>. QED
    BY <1>2, <2>2, <2>3
<1>. QED
    BY <1>5, <1>6

\* A retry replaces nothing that is newer than the retries.
LEMMA RetriedNewer ==
    ASSUME TypeOK, NEW a, cur.id = a, wpc = "nics", FinishApply
    PROVE  /\ \A x : NewerThanRetries(x, a) => NewerThanRetries(x, a)'
           /\ Waits(a) => Waits(a)'
<1>1. Applying(a) /\ ~Applying(a)'
    BY DEF FinishApply, Applying
<1>2. Retry.id = a /\ Retry.request_time = cur.request_time /\ ~Retry.is_immediate
    BY DEF Retry
<1>3. apply_requests' = apply_requests \/ apply_requests' = Appended(Retry)
    BY DEF FinishApply
<1>4. \A r \in apply_requests' : r \in apply_requests \/ r = Retry
    BY <1>3, ZenonT(30) DEF Appended
<1>5. ASSUME NEW x, NewerThanRetries(x, a) PROVE NewerThanRetries(x, a)'
    BY <1>1, <1>2, <1>4, <1>5, ZenonT(30) DEF NewerThanRetries
<1>6. \A r \in apply_requests : r.request_time \in 0 .. MaxTime
    BY DEF TypeOK, RequestsOK, Request
<1>7. cur.request_time \in 0 .. MaxTime /\ MaxTime \in Nat
    BY ManagerAssumption DEF TypeOK, RequestsOK, Request
<1>8. ASSUME NEW w \in apply_requests, w.id = a, w.request_time = MaxTime PROVE Waits(a)'
  <2>1. CASE w \in apply_requests'
    BY <1>8, <2>1, ZenonT(30) DEF Waits
  <2>2. CASE w \notin apply_requests'
    <3>1. Supersedes(Retry) /\ Retry \in apply_requests'
      BY <1>3, <1>8, <2>2, ZenonT(30) DEF Appended
    <3>2. Retry.request_time = MaxTime
      BY <1>2, <1>6, <1>7, <1>8, <3>1, SMTT(30) DEF Supersedes
    <3>. QED
      BY <1>2, <3>1, <3>2 DEF Waits
  <2>. QED
    BY <2>1, <2>2
<1>9. ASSUME NEW w \in apply_requests, w.id = a, w.request_time # MaxTime, w.is_immediate,
             NewerThanRetries(w, a)
      PROVE  Waits(a)'
  <2>1. cur.request_time < w.request_time
    BY <1>1, <1>9, ZenonT(30) DEF NewerThanRetries
  <2>2. ~Supersedes(Retry)
    BY <1>2, <1>6, <1>7, <1>9, <2>1 DEF Supersedes
  <2>3. w \in apply_requests'
    BY <1>3, <2>2, ZenonT(30) DEF Appended
  <2>. QED
    BY <1>5, <1>9, <2>3, ZenonT(30) DEF Waits
<1>. QED
    BY <1>5, <1>8, <1>9, ZenonT(30) DEF Waits

\* What is queued for an attacher depends on nobody else's requests.
LEMMA OthersKept ==
    ASSUME NEW a, NEW q, q.id # a, apply_requests' = Appended(q), Applying(a)' => Applying(a) /\ cur' = cur
    PROVE  /\ \A x : NewerThanRetries(x, a) => NewerThanRetries(x, a)'
           /\ Waits(a) => Waits(a)'
<1>1. \A r : r.id = a => (r \in apply_requests <=> r \in apply_requests')
    BY ZenonT(30) DEF Appended
<1>2. ASSUME NEW x, NewerThanRetries(x, a) PROVE NewerThanRetries(x, a)'
    BY <1>1, <1>2 DEF NewerThanRetries
<1>. QED
    BY <1>1, <1>2 DEF Waits

\* Nor does taking requests out of the queue make a retry newer.
LEMMA FewerKept ==
    ASSUME NEW a, apply_requests' \subseteq apply_requests, Applying(a)' => Applying(a) /\ cur' = cur,
           NEW x, NewerThanRetries(x, a)
    PROVE  NewerThanRetries(x, a)'
BY ZenonT(30) DEF NewerThanRetries

-----------------------------------------------------------------------------
\* The steps that leave requests, posters and history alone.
Quiet ==
    /\ UNCHANGED <<caller, posting, apply_requests, ready, cur, unread, failed, next_id, count>>
    /\ wpc' = wpc \/ {wpc, wpc'} \cap {"snap", "nics"} = {}
    /\ mpc' = mpc \/ {mpc, mpc'} \subseteq {"off", "watch", "failing"}

\* All but a few steps do.
LEMMA QuietSteps ==
    ASSUME Bookkeeping, [Next]_vars,
           ~\E c \in Callers : CallerBuilds(c) \/ CallerAppends(c),
           ~\E c \in Callers, i \in Ids, p \in Policy : CallerPublishes(c, i, p),
           ~(Refresh \/ RefreshSkips \/ InterfaceChange \/ MonitorBuilds \/ MonitorAppends \/ MonitorReturns),
           ~(WorkerStops \/ WorkerTakes \/ ReadPolicy \/ ReadSnapshot \/ FinishApply)
    PROVE  Quiet
<1> USE ZenonT(30) DEF Quiet, sourceVars, queueVars, workerData, monitorData, historyVars
<1>1. CASE MonitorExits \/ MonitorFails \/ RefreshFails
    BY <1>1 DEF MonitorExits, MonitorFails, RefreshFails
<1>2. CASE interface_monitor_failure_process
    BY <1>2 DEF interface_monitor_failure_process, Notified
<1>3. CASE WorkerIdles \/ WorkerDefers \/ WorkerBlocks \/ WorkerTimesOut
    BY <1>3 DEF WorkerIdles, WorkerDefers, WorkerBlocks, WorkerTimesOut, WorkerGoes
<1>4. CASE WorkerRuns \/ WorkerLoops \/ SpuriousWake
    BY <1>4 DEF WorkerRuns, WorkerLoops, SpuriousWake, WorkerGoes
<1>5. CASE WorkerStarts(TRUE) \/ WorkerStarts(FALSE)
    BY <1>5 DEF WorkerStarts, StartSucceeds, StartFails
<1>6. ASSUME NEW n \in Nics, attach_filter(n) \/ detach_filter(n) \/ FilterFaults(n)
      PROVE  Quiet
    BY <1>6 DEF attach_filter, detach_filter, FilterFaults, FilterError, LateFilter, HandleNic
<1>7. CASE InitializeFails \/ StartWorker
    BY <1>7 DEF InitializeFails, StartWorker, LifeGoes, Bookkeeping, Phases
<1>8. CASE CtorSucceeds \/ CtorFails \/ Destructor \/ JoinWorker
    BY <1>8 DEF CtorSucceeds, CtorFails, Destructor, JoinWorker, LifeGoes, StartSucceeds, StartFails
<1>9. CASE RequestStop \/ NotifyAll \/ StopMonitor \/ JoinMonitor
    BY <1>9 DEF RequestStop, NotifyAll, StopMonitor, JoinMonitor, LifeGoes, Notified
<1>10. CASE CreateAttacher
    BY <1>10 DEF CreateAttacher, create_attacher
<1>11. ASSUME NEW n \in Nics, NicAppears(n) \/ NicDisappears(n)
      PROVE  Quiet
    BY <1>11 DEF NicAppears, NicDisappears, NicChanges
<1>12. CASE UNCHANGED vars
    BY <1>12 DEF vars
<1>. QED
    BY <1>1, <1>2, <1>3, <1>4, <1>5, <1>6, <1>7, <1>8, <1>9, <1>10, <1>11, <1>12
    DEF Next, CallerSteps, MonitorSteps, WorkerSteps, LifeSteps, Faults, Inputs

\* Posted requests are immediate.
LEMMA BuiltStep == TypeOK /\ Bookkeeping /\ BuiltImmediate /\ [Next]_vars => BuiltImmediate'
<1> SUFFICES ASSUME TypeOK, Bookkeeping, BuiltImmediate, [Next]_vars PROVE BuiltImmediate'
    BY ZenonT(30)
<1> USE ZenonT(30), ManagerAssumption DEF BuiltImmediate, Posters, sourceVars, queueVars, monitorData
<1>1. ASSUME NEW c \in Callers, CallerBuilds(c)
      PROVE  BuiltImmediate'
  <2>1. /\ caller[c].id \in Nat /\ c \in Posters
        /\ UNCHANGED <<mpc, apply_requests, wpc, cur>>
        /\ caller' = [caller EXCEPT ![c] = [pc |-> "calling", id |-> caller[c].id]]
    BY <1>1 DEF CallerBuilds, EnterCallback, TypeOK, SourceTypeOK, workerData
  <2>2. /\ posting'[c].is_immediate /\ posting'[c].retry_count = 0
        /\ \A r \in Posters : r # c => posting'[r] = posting[r]
    BY <1>1, <2>1, BuiltNewest DEF CallerBuilds
  <2>. QED
    BY <2>1, <2>2 DEF TypeOK, SourceTypeOK
<1>2. ASSUME NEW c \in Callers, CallerAppends(c)
      PROVE  BuiltImmediate'
    BY <1>2 DEF CallerAppends, LeaveCallback, append_apply_request, Idle, TypeOK, SourceTypeOK, RequestsOK
<1>3. ASSUME NEW c \in Callers, NEW i \in Ids, NEW p \in Policy, CallerPublishes(c, i, p)
      PROVE  BuiltImmediate'
    BY <1>3 DEF CallerPublishes, publish, TypeOK, SourceTypeOK
<1>4. CASE Refresh \/ RefreshSkips
    BY <1>4 DEF Refresh, RefreshSkips, RefreshTo
<1>5. CASE InterfaceChange \/ MonitorReturns
    BY <1>5 DEF InterfaceChange, MonitorReturns
<1>6. CASE MonitorBuilds
  <2>1. next_id \in Nat /\ UNCHANGED <<caller, apply_requests, wpc, cur>>
    BY <1>6 DEF MonitorBuilds, TypeOK, PlacesOK, workerData
  <2>2. /\ posting'["monitor"].is_immediate /\ posting'["monitor"].retry_count = 0
        /\ \A r \in Posters : r # "monitor" => posting'[r] = posting[r]
    BY <1>6, <2>1, BuiltNewest DEF MonitorBuilds
  <2>. QED
    BY <2>1, <2>2
<1>7. CASE MonitorAppends
    BY <1>7 DEF MonitorAppends, append_apply_request, TypeOK, RequestsOK
<1>8. CASE WorkerStops \/ WorkerTakes \/ ReadPolicy \/ ReadSnapshot \/ FinishApply
    BY <1>8 DEF WorkerStops, WorkerTakes, ReadPolicy, ReadSnapshot, FinishApply
<1>9. CASE Quiet
    BY <1>9 DEF Quiet
<1>. QED
    BY QuietSteps, <1>1, <1>2, <1>3, <1>4, <1>5, <1>6, <1>7, <1>8, <1>9

\* The worker has one request of an attacher at a time.
LEMMA TakenStep ==
    TypeOK /\ Bookkeeping /\ OneRequestPerAttacher /\ TakenOnce /\ [Next]_vars => TakenOnce'
<1> SUFFICES ASSUME TypeOK, Bookkeeping, OneRequestPerAttacher, TakenOnce, [Next]_vars PROVE TakenOnce'
    BY ZenonT(30)
<1> USE ZenonT(30) DEF TakenOnce, workerData
<1>1. ASSUME NEW c \in Callers, CallerBuilds(c) \/ CallerAppends(c)
      PROVE  TakenOnce'
    BY <1>1 DEF CallerBuilds, CallerAppends, append_apply_request, Notified
<1>2. ASSUME NEW c \in Callers, NEW i \in Ids, NEW p \in Policy, CallerPublishes(c, i, p)
      PROVE  TakenOnce'
    BY <1>2 DEF CallerPublishes
<1>3. CASE Refresh \/ RefreshSkips
    BY <1>3 DEF Refresh, RefreshSkips, RefreshTo
<1>4. CASE InterfaceChange \/ MonitorReturns \/ MonitorBuilds \/ MonitorAppends
    BY <1>4 DEF InterfaceChange, MonitorReturns, MonitorBuilds, MonitorAppends,
       append_apply_request, Notified
<1>5. CASE WorkerStops
    BY <1>5 DEF WorkerStops
<1>6. CASE WorkerTakes
  <2>1. ready' \subseteq apply_requests /\ wpc' = "run"
    BY <1>6 DEF WorkerTakes, Immediate, Delayed
  <2>. QED
    BY <2>1 DEF OneRequestPerAttacher
<1>7. CASE ReadPolicy
    BY <1>7 DEF ReadPolicy
<1>8. CASE ReadSnapshot \/ FinishApply
    BY <1>8 DEF ReadSnapshot, FinishApply
<1>9. CASE Quiet
    BY <1>9 DEF Quiet
<1>. QED
    BY QuietSteps, <1>1, <1>2, <1>3, <1>4, <1>5, <1>6, <1>7, <1>8, <1>9

\* While the worker has a request of an attacher, only posted ones join the queue.
LEMMA OthersStep ==
    ASSUME TypeOK, Bookkeeping, OneRequestPerAttacher, BuiltImmediate, TakenOnce, OthersImmediate, [Next]_vars
    PROVE  OthersImmediate'
<1> USE ZenonT(30) DEF OthersImmediate, Ready, Applying, queueVars, workerData
<1>1. ASSUME NEW q, q.is_immediate, apply_requests' = Appended(q), UNCHANGED <<ready, cur>>,
             wpc' \in {"snap", "nics"} => wpc' = wpc
      PROVE  OthersImmediate'
    BY <1>1 DEF Appended
<1>2. ASSUME NEW c \in Callers, CallerBuilds(c)
      PROVE  OthersImmediate'
    BY <1>2 DEF CallerBuilds
<1>3. ASSUME NEW c \in Callers, CallerAppends(c)
      PROVE  OthersImmediate'
  <2>1. posting[c].is_immediate
    BY <1>3 DEF CallerAppends, LeaveCallback, BuiltImmediate
  <2>. QED
    BY <1>1, <1>3, <2>1 DEF CallerAppends, append_apply_request, Notified
<1>4. ASSUME NEW c \in Callers, NEW i \in Ids, NEW p \in Policy, CallerPublishes(c, i, p)
      PROVE  OthersImmediate'
    BY <1>4 DEF CallerPublishes
<1>5. CASE Refresh \/ RefreshSkips
    BY <1>5 DEF Refresh, RefreshSkips, RefreshTo
<1>6. CASE InterfaceChange \/ MonitorReturns \/ MonitorBuilds
    BY <1>6 DEF InterfaceChange, MonitorReturns, MonitorBuilds
<1>7. CASE MonitorAppends
  <2>1. posting["monitor"].is_immediate
    BY <1>7 DEF MonitorAppends, BuiltImmediate
  <2>. QED
    BY <1>1, <1>7, <2>1 DEF MonitorAppends, append_apply_request, Notified
<1>8. CASE WorkerStops
    BY <1>8 DEF WorkerStops
<1>9. CASE WorkerTakes
  <2>1. /\ ready' \subseteq apply_requests /\ apply_requests' \subseteq apply_requests
        /\ ready' \cap apply_requests' = {} /\ wpc' = "run"
    BY <1>9 DEF WorkerTakes, Immediate, Delayed
  <2>. QED
    BY <2>1 DEF OneRequestPerAttacher
<1>10. CASE ReadPolicy
    BY <1>10 DEF ReadPolicy
<1>11. CASE ReadSnapshot
    BY <1>11 DEF ReadSnapshot
<1>12. CASE FinishApply
  <2>1. /\ wpc = "nics" /\ wpc' = "apply" /\ ready' = ready
        /\ apply_requests' = apply_requests \/ apply_requests' = Appended(Retry)
    BY <1>12 DEF FinishApply
  <2>2. \A r \in apply_requests' : r \in apply_requests \/ r.id = cur.id
    BY <2>1, SMTT(30) DEF Appended, Retry
  <2>. QED
    BY <2>1, <2>2 DEF TakenOnce
<1>13. CASE Quiet
    BY <1>13 DEF Quiet
<1>. QED
    BY QuietSteps, <1>2, <1>3, <1>4, <1>5, <1>6, <1>7, <1>8, <1>9, <1>10, <1>11, <1>12, <1>13
-----------------------------------------------------------------------------
\* The inductive invariant behind UpdateIsImmediate.
ImmediateInv ==
    /\ TypeOK /\ Bookkeeping /\ OneRequestPerAttacher
    /\ BuiltImmediate /\ TakenOnce /\ OthersImmediate
    /\ ~stop => \A a \in Ids : Fresh(a)
-----------------------------------------------------------------------------
\* Posters and queue apart, nothing that Fresh is about changes.
SameElsewhere(a) ==
    /\ unread'[a] = unread[a] /\ UNCHANGED <<ready, cur>>
    /\ wpc' = wpc \/ {wpc, wpc'} \cap {"snap", "nics"} = {}

\* Fresh is kept if whatever makes it true is.
LEMMA FreshKept ==
    ASSUME NEW a, Fresh(a), SameElsewhere(a),
           Unbuilt(a) => Unbuilt(a)' \/ Posted(a)', Posted(a) => Posted(a)' \/ Waits(a)',
           Waits(a) => Waits(a)'
    PROVE  Fresh(a)'
BY ZenonT(30) DEF Fresh, SameElsewhere, Ready, HalfRead

\* A step that changes no queue and no poster keeps it.
LEMMA QuietFresh ==
    ASSUME NEW a, Fresh(a), SameElsewhere(a), UNCHANGED <<posting, apply_requests>>,
           Unbuilt(a) => Unbuilt(a)', \A p \in Posters : Posts(p, a) => Posts(p, a)'
    PROVE  Fresh(a)'
<1>1. \A x : NewerThanRetries(x, a) => NewerThanRetries(x, a)'
    BY FewerKept, ZenonT(30) DEF SameElsewhere, Applying
<1>2. Posted(a) => Posted(a)'
    BY <1>1 DEF Posted
<1>3. Waits(a) => Waits(a)'
    BY <1>1 DEF Waits
<1>. QED
    BY <1>2, <1>3, FreshKept

\* Building a request: for a, it is one that no retry can replace.
LEMMA BuildFresh ==
    ASSUME TypeOK, NEW a \in Ids, Fresh(a), SameElsewhere(a), UNCHANGED <<apply_requests, wpc>>,
           NEW p \in Posters, NEW i \in Nat, Builds(p, i),
           i = a => Posts(p, a)',
           i # a => (Unbuilt(a) => Unbuilt(a)'),
           \A r \in Posters : Posts(r, a) => r # p /\ Posts(r, a)'
    PROVE  Fresh(a)'
<1>1. /\ NewerThanRetries(posting[p], i)'
      /\ \A r \in Posters : r # p => posting'[r] = posting[r]
    BY BuiltNewest DEF SameElsewhere
<1>2. \A x : NewerThanRetries(x, a) => NewerThanRetries(x, a)'
    BY FewerKept DEF SameElsewhere, Applying
<1>3. Posted(a) => Posted(a)'
    BY <1>1, <1>2 DEF Posted
<1>4. Waits(a) => Waits(a)'
    BY <1>2 DEF Waits
<1>5. i = a => Posted(a)'
    BY <1>1 DEF Posted
<1>. QED
    BY <1>3, <1>4, <1>5, FreshKept, ZenonT(30)

\* Appending a request: for a, the queue then has one that no retry can replace.
LEMMA AppendFresh ==
    ASSUME TypeOK, OneRequestPerAttacher, NEW a \in Ids, Fresh(a), SameElsewhere(a),
           NEW p \in Posters, append_apply_request(p), posting[p].is_immediate,
           Posts(p, a) => posting[p].id = a,
           Unbuilt(a) => Unbuilt(a)',
           \A r \in Posters : Posts(r, a) /\ r # p => Posts(r, a)'
    PROVE  Fresh(a)'
<1>1. /\ apply_requests' = Appended(posting[p])
      /\ posting[p] \in Request
      /\ \A r \in Posters : r # p => posting'[r] = posting[r]
    BY DEF append_apply_request, TypeOK, RequestsOK
<1>2. cur' = cur /\ (Applying(a)' => Applying(a))
    BY ZenonT(30) DEF SameElsewhere, Applying
<1>3. CASE posting[p].id = a
  <2>1. /\ \A x : NewerThanRetries(x, a) => NewerThanRetries(x, a)'
        /\ NewerThanRetries(posting[p], a) \/ Waits(a) => Waits(a)'
    BY <1>1, <1>2, <1>3, AppendedNewer, ZenonT(30)
  <2>2. Posted(a) => Posted(a)' \/ Waits(a)'
    BY <1>1, <2>1 DEF Posted
  <2>. QED
    BY <2>1, <2>2, FreshKept
<1>4. CASE posting[p].id # a
  <2>1. /\ \A x : NewerThanRetries(x, a) => NewerThanRetries(x, a)'
        /\ Waits(a) => Waits(a)'
    BY <1>1, <1>2, <1>4, OthersKept, ZenonT(30)
  <2>2. Posted(a) => Posted(a)'
    BY <1>1, <1>4, <2>1 DEF Posted
  <2>. QED
    BY <2>1, <2>2, FreshKept
<1>. QED
    BY <1>3, <1>4

\* Every step keeps, for every attacher, a request that no retry can replace.
LEMMA FreshStep ==
    ASSUME TypeOK, Bookkeeping, OneRequestPerAttacher, BuiltImmediate, TakenOnce, [Next]_vars, ~stop',
           NEW a \in Ids, Fresh(a)
    PROVE  Fresh(a)'
<1> USE ZenonT(30), ManagerAssumption DEF Posters
<1>1. ASSUME NEW c \in Callers, CallerBuilds(c)
      PROVE  Fresh(a)'
  <2>1. /\ caller[c].id \in Nat /\ caller[c].pc = "notify" /\ Builds(c, caller[c].id)
        /\ UNCHANGED <<apply_requests, wpc, ready, cur, unread, mpc, next_id, count>>
    BY <1>1 DEF CallerBuilds, EnterCallback, TypeOK, SourceTypeOK, workerData, monitorData, historyVars
  <2>2. /\ caller'[c] = [pc |-> "calling", id |-> caller[c].id]
        /\ \A d \in Callers : d # c => caller'[d] = caller[d]
    BY <1>1 DEF CallerBuilds, EnterCallback, TypeOK, SourceTypeOK
  <2>3. \A r \in Posters : Posts(r, a) => r # c /\ Posts(r, a)'
    BY <2>1, <2>2 DEF Posts
  <2>4. caller[c].id = a => Posts(c, a)'
    BY <2>2, SMTT(30) DEF Posts
  <2>5. caller[c].id # a => (Unbuilt(a) => Unbuilt(a)')
    BY <2>1, <2>2 DEF Unbuilt
  <2>6. SameElsewhere(a)
    BY <2>1 DEF SameElsewhere
  <2>. QED
    BY <2>1, <2>3, <2>4, <2>5, <2>6, BuildFresh
<1>2. ASSUME NEW c \in Callers, CallerAppends(c)
      PROVE  Fresh(a)'
  <2>1. /\ caller[c].pc = "calling" /\ append_apply_request(c)
        /\ UNCHANGED <<ready, cur, unread, mpc, next_id, count>>
        /\ wpc' = wpc \/ {wpc, wpc'} \cap {"snap", "nics"} = {}
    BY <1>2 DEF CallerAppends, LeaveCallback, append_apply_request, Notified, workerData, monitorData, historyVars
  <2>2. \A d \in Callers : d # c => caller'[d] = caller[d]
    BY <1>2 DEF CallerAppends, LeaveCallback, TypeOK, SourceTypeOK
  <2>3. posting[c].is_immediate /\ (Posts(c, a) => posting[c].id = a)
    BY <2>1 DEF BuiltImmediate, Posts, Bookkeeping, PostedFor
  <2>4. Unbuilt(a) => Unbuilt(a)'
    BY <2>1, <2>2 DEF Unbuilt
  <2>5. \A r \in Posters : Posts(r, a) /\ r # c => Posts(r, a)'
    BY <2>1, <2>2 DEF Posts
  <2>6. SameElsewhere(a)
    BY <2>1 DEF SameElsewhere
  <2>. QED
    BY <2>1, <2>3, <2>4, <2>5, <2>6, AppendFresh
<1>3. ASSUME NEW c \in Callers, NEW i \in Ids, NEW p \in Policy, CallerPublishes(c, i, p)
      PROVE  Fresh(a)'
  <2>1. /\ caller[c].pc = "idle" /\ caller'[c] = [pc |-> "notify", id |-> i]
        /\ \A d \in Callers : d # c => caller'[d] = caller[d]
        /\ a # i => unread'[a] = unread[a]
    BY <1>3 DEF CallerPublishes, publish, TypeOK, SourceTypeOK, DataOK
  <2>2. UNCHANGED <<posting, apply_requests, wpc, ready, cur, mpc, next_id, count>>
    BY <1>3 DEF CallerPublishes, queueVars, workerData, monitorData
  <2>3. CASE a = i
    BY <2>1, <2>3, SMTT(30) DEF Fresh, Unbuilt
  <2>4. CASE a # i
    <3>1. SameElsewhere(a) /\ (Unbuilt(a) => Unbuilt(a)') /\ \A r \in Posters : Posts(r, a) => Posts(r, a)'
      BY <2>1, <2>2, <2>4 DEF SameElsewhere, Unbuilt, Posts
    <3>. QED
      BY <2>2, <3>1, QuietFresh
  <2>. QED
    BY <2>3, <2>4
<1>4. CASE Refresh \/ RefreshSkips
    BY <1>4 DEF Refresh, RefreshSkips, RefreshTo, Fresh, Unbuilt
<1>5. CASE InterfaceChange
  <2>1. status = "kRunning"
    BY <1>5 DEF InterfaceChange, Bookkeeping, Phases, lifeVars
  <2>2. /\ mpc = "changed" /\ mpc' = "posting" /\ next_id' = 0 /\ count' = attachers
        /\ unread' = unread
    BY <1>5, <2>1 DEF InterfaceChange, historyVars
  <2>3. unread[a] # {} => a < attachers
    BY SMTT(30) DEF Bookkeeping, Unused, Untouched, TypeOK, SourceTypeOK, Ids
  <2>. QED
    BY <2>2, <2>3, MaxAttachersAssumption, SMTT(30) DEF Fresh, Unbuilt, Ids
<1>6. CASE MonitorBuilds
  <2>1. /\ next_id \in Nat /\ next_id < count /\ mpc = "posting" /\ mpc' = "append"
        /\ Builds("monitor", next_id)
        /\ UNCHANGED <<caller, apply_requests, wpc, ready, cur, unread, next_id, count>>
    BY <1>6 DEF MonitorBuilds, TypeOK, PlacesOK, sourceVars, workerData, monitorData, historyVars
  <2>2. \A r \in Posters : Posts(r, a) => r # "monitor" /\ Posts(r, a)'
    BY <2>1 DEF Posts
  <2>3. next_id = a => Posts("monitor", a)'
    BY <2>1 DEF Posts
  <2>4. next_id # a => (Unbuilt(a) => Unbuilt(a)')
    BY <2>1, MaxAttachersAssumption, SMTT(30) DEF Unbuilt, Ids
  <2>5. SameElsewhere(a)
    BY <2>1 DEF SameElsewhere
  <2>. QED
    BY <2>1, <2>2, <2>3, <2>4, <2>5, BuildFresh
<1>7. CASE MonitorAppends
  <2>1. /\ mpc = "append" /\ mpc' = "posting" /\ next_id' = next_id + 1 /\ next_id \in Nat
        /\ append_apply_request("monitor")
        /\ UNCHANGED <<caller, ready, cur, unread, count>>
        /\ wpc' = wpc \/ {wpc, wpc'} \cap {"snap", "nics"} = {}
    BY <1>7 DEF MonitorAppends, append_apply_request, Notified, TypeOK, PlacesOK, sourceVars,
       workerData, historyVars
  <2>2. posting["monitor"].is_immediate /\ (Posts("monitor", a) => posting["monitor"].id = a)
    BY <2>1 DEF BuiltImmediate, Posts, Bookkeeping, PostedFor
  <2>3. Unbuilt(a) => Unbuilt(a)'
    BY <2>1, MaxAttachersAssumption, SMTT(30) DEF Unbuilt, Ids
  <2>4. \A r \in Posters : Posts(r, a) /\ r # "monitor" => Posts(r, a)'
    BY <2>1 DEF Posts
  <2>5. SameElsewhere(a)
    BY <2>1 DEF SameElsewhere
  <2>. QED
    BY <2>1, <2>2, <2>3, <2>4, <2>5, AppendFresh
<1>8. CASE MonitorReturns
  <2>1. /\ mpc = "posting" /\ mpc' = "watch" /\ next_id >= count /\ next_id \in Nat /\ count \in Nat
        /\ UNCHANGED <<caller, posting, apply_requests, wpc, ready, cur, unread>>
    BY <1>8, MaxAttachersAssumption, SMTT(30) DEF MonitorReturns, TypeOK, PlacesOK, SourceTypeOK, sourceVars, queueVars,
       workerData, historyVars
  <2>2. (Unbuilt(a) => Unbuilt(a)') /\ \A r \in Posters : Posts(r, a) => Posts(r, a)'
    BY <2>1, MaxAttachersAssumption, SMTT(30) DEF Unbuilt, Posts, Ids
  <2>3. SameElsewhere(a)
    BY <2>1 DEF SameElsewhere
  <2>. QED
    BY <2>1, <2>2, <2>3, QuietFresh
<1>9. CASE WorkerStops
    BY <1>9 DEF WorkerStops, lifeVars
<1>10. CASE WorkerTakes
  <2>1. /\ wpc \in {"scan", "due"} /\ wpc' = "run" /\ ready = {}
        /\ apply_requests' \subseteq apply_requests
        /\ apply_requests \subseteq apply_requests' \cup ready'
        /\ UNCHANGED <<caller, posting, unread, mpc, next_id, count>>
    BY <1>10 DEF WorkerTakes, Immediate, Delayed, Bookkeeping, Phases, sourceVars, monitorData, historyVars
  <2>2. \A x : NewerThanRetries(x, a) => NewerThanRetries(x, a)'
    BY <2>1, FewerKept DEF Applying
  <2>3. Unbuilt(a) => Unbuilt(a)'
    BY <2>1 DEF Unbuilt
  <2>4. Posted(a) => Posted(a)'
    BY <2>1, <2>2 DEF Posted, Posts
  <2>5. Waits(a) => Waits(a)' \/ Ready(a)'
    BY <2>1, <2>2 DEF Waits, Ready
  <2>. QED
    BY <2>1, <2>3, <2>4, <2>5 DEF Fresh, Ready, HalfRead
<1>11. CASE ReadPolicy
  <2>1. PICK request \in ready :
          /\ wpc = "apply" /\ wpc' = "snap" /\ cur' = request /\ ready' = ready \ {request}
          /\ unread' = [unread EXCEPT ![request.id] = @ \ {"policy"}]
    BY <1>11 DEF ReadPolicy
  <2>2. UNCHANGED <<caller, posting, apply_requests, mpc, next_id, count>>
    BY <1>11 DEF ReadPolicy, sourceVars, queueVars, monitorData
  <2>3. CASE request.id = a
    BY <2>1, <2>3 DEF Fresh, HalfRead, TypeOK, DataOK
  <2>4. CASE request.id # a
    <3>1. unread'[a] = unread[a] /\ (Ready(a) => Ready(a)') /\ ~HalfRead(a)
      BY <2>1, <2>4 DEF Ready, HalfRead, TypeOK, DataOK
    <3>2. \A x : NewerThanRetries(x, a) => NewerThanRetries(x, a)'
      BY <2>1, <2>2, <2>4, FewerKept DEF Applying
    <3>3. (Unbuilt(a) => Unbuilt(a)') /\ (Posted(a) => Posted(a)') /\ (Waits(a) => Waits(a)')
      BY <2>2, <3>2 DEF Unbuilt, Posted, Posts, Waits
    <3>. QED
      BY <3>1, <3>3 DEF Fresh
  <2>. QED
    BY <2>3, <2>4
<1>12. CASE ReadSnapshot
  <2>1. /\ wpc = "snap" /\ wpc' = "nics" /\ unread' = [unread EXCEPT ![cur.id] = @ \ {"nics"}]
        /\ UNCHANGED <<caller, posting, apply_requests, ready, cur, mpc, next_id, count>>
    BY <1>12 DEF ReadSnapshot, sourceVars, queueVars, monitorData
  <2>2. unread'[a] \subseteq unread[a] /\ (HalfRead(a) => unread'[a] = {})
    BY <2>1 DEF HalfRead, TypeOK, DataOK
  <2>3. \A x : NewerThanRetries(x, a) => NewerThanRetries(x, a)'
    BY <2>1, FewerKept DEF Applying
  <2>4. Unbuilt(a) => Unbuilt(a)'
    BY <2>1 DEF Unbuilt
  <2>5. Posted(a) => Posted(a)'
    BY <2>1, <2>3 DEF Posted, Posts
  <2>6. Waits(a) => Waits(a)'
    BY <2>1, <2>3 DEF Waits
  <2>. QED
    BY <2>1, <2>2, <2>4, <2>5, <2>6 DEF Fresh, Ready
<1>13. CASE FinishApply
  <2>1. /\ wpc = "nics" /\ wpc' = "apply"
        /\ apply_requests' = apply_requests \/ apply_requests' = Appended(Retry)
        /\ UNCHANGED <<caller, posting, ready, unread, mpc, next_id, count>>
    BY <1>13 DEF FinishApply, sourceVars, monitorData
  <2>2. /\ \A x : NewerThanRetries(x, a) => NewerThanRetries(x, a)'
        /\ Waits(a) => Waits(a)'
    <3>1. CASE cur.id = a
      BY <1>13, <2>1, <3>1, RetriedNewer
    <3>2. CASE cur.id # a /\ apply_requests' = Appended(Retry)
      BY <2>1, <3>2, OthersKept DEF Retry, Applying
    <3>3. CASE apply_requests' = apply_requests
      <4>1. \A x : NewerThanRetries(x, a) => NewerThanRetries(x, a)'
        BY <2>1, <3>3, FewerKept DEF Applying
      <4>. QED
        BY <3>3, <4>1 DEF Waits
    <3>. QED
      BY <2>1, <3>1, <3>2, <3>3
  <2>3. (Unbuilt(a) => Unbuilt(a)') /\ (Posted(a) => Posted(a)')
    BY <2>1, <2>2 DEF Unbuilt, Posted, Posts
  <2>. QED
    BY <2>1, <2>2, <2>3 DEF Fresh, Ready, HalfRead
<1>14. CASE Quiet
  <2>1. /\ UNCHANGED <<caller, posting, apply_requests, ready, cur, unread, next_id, count>>
        /\ mpc' = mpc \/ {mpc, mpc'} \subseteq {"off", "watch", "failing"}
    BY <1>14 DEF Quiet
  <2>2. (Unbuilt(a) => Unbuilt(a)') /\ \A r \in Posters : Posts(r, a) => Posts(r, a)'
    BY <2>1 DEF Unbuilt, Posts
  <2>3. SameElsewhere(a)
    BY <1>14 DEF Quiet, SameElsewhere
  <2>. QED
    BY <2>1, <2>2, <2>3, QuietFresh
<1>. QED
    BY QuietSteps, <1>1, <1>2, <1>3, <1>4, <1>5, <1>6, <1>7, <1>8, <1>9, <1>10, <1>11, <1>12,
       <1>13, <1>14
-----------------------------------------------------------------------------
\* What ImmediateInv adds to the bookkeeping holds initially.
LEMMA ImmediateInit == Init => BuiltImmediate /\ TakenOnce /\ OthersImmediate /\ \A a \in Ids : Fresh(a)
<1> SUFFICES ASSUME Init PROVE BuiltImmediate /\ TakenOnce /\ OthersImmediate /\ \A a \in Ids : Fresh(a)
    BY ZenonT(30)
<1>1. BuiltImmediate
    BY ZenonT(30) DEF Init, SourceInit, BuiltImmediate, Idle
<1>2. TakenOnce /\ OthersImmediate
    BY DEF Init, TakenOnce, OthersImmediate
<1>3. \A a \in Ids : Fresh(a)
    BY DEF Init, Fresh
<1>. QED
    BY <1>1, <1>2, <1>3

\* It says what UpdateIsImmediate says.
LEMMA ImmediateImplies == ImmediateInv => UpdateIsImmediate
<1> SUFFICES ASSUME ImmediateInv, ~stop, NEW a \in Ids, unread[a] # {}, ~Owed(a),
                    NEW r \in apply_requests, r.id = a, r.request_time < MaxTime
             PROVE  r.is_immediate
    BY DEF UpdateIsImmediate
<1>1. r.request_time # MaxTime
    BY ManagerAssumption, SMTT(30) DEF ImmediateInv, TypeOK, RequestsOK, Request
<1>2. ~Unbuilt(a) /\ ~Posted(a)
    BY MaxAttachersAssumption, SMTT(30)
    DEF ImmediateInv, Bookkeeping, PostedFor, TypeOK, PlacesOK, SourceTypeOK, Ids, Owed, CallerOwes, MonitorOwes,
       Unbuilt, Posted, Posts
<1>3. Waits(a) \/ Ready(a) \/ HalfRead(a)
    BY <1>2, ZenonT(30) DEF ImmediateInv, Fresh
<1>4. CASE Waits(a)
    BY <1>1, <1>4, ZenonT(30) DEF Waits, ImmediateInv, OneRequestPerAttacher
<1>5. CASE Ready(a) \/ HalfRead(a)
    BY <1>5 DEF ImmediateInv, OthersImmediate, HalfRead, Applying
<1>. QED
    BY <1>3, <1>4, <1>5, ZenonT(30)

\* The invariant holds initially.
LEMMA ImmediateStarts == Init => ImmediateInv
BY BookInit, ImmediateInit DEF ImmediateInv, Init, OneRequestPerAttacher

\* Every step keeps it.
LEMMA ImmediateStep == ImmediateInv /\ [Next]_vars => ImmediateInv'
<1> SUFFICES ASSUME ImmediateInv, [Next]_vars PROVE ImmediateInv'
    OBVIOUS
<1>1. (TypeOK /\ Bookkeeping /\ OneRequestPerAttacher)'
    BY TypeStep, BookStep, CoalescedStep DEF ImmediateInv
<1>2. (BuiltImmediate /\ TakenOnce /\ OthersImmediate)'
    BY BuiltStep, TakenStep, OthersStep DEF ImmediateInv
<1>3. ASSUME ~stop', NEW a \in Ids PROVE Fresh(a)'
  <2>1. ~stop
    BY <1>3, StepFrames DEF StepFrame, ImmediateInv
  <2>. QED
    BY <1>3, <2>1, FreshStep, ZenonT(30) DEF ImmediateInv
<1>. QED
    BY <1>1, <1>2, <1>3 DEF ImmediateInv

\* Once the request for an update has been appended, and until the worker has read
\* the update, a queued request for the attacher is never a delayed retry,
\* whichever thread appended it and whatever the order of the request_times
\* (append_apply_request, :155-172).
THEOREM UpdatesAreImmediate == Spec => []UpdateIsImmediate
BY ImmediateStarts, ImmediateStep, ImmediateImplies, PTL, ZenonT(30) DEF Spec
-----------------------------------------------------------------------------
\* A run for a whose request was made at time t will not be the last word: a newer
\* request is still to be built, was built, or is queued.
Outdated(a, t) ==
    \/ Unbuilt(a)
    \/ \E p \in Posters : Posts(p, a) /\ t < posting[p].request_time
    \/ \E q \in apply_requests : q.id = a /\ t < q.request_time

\* Otherwise each retry it counts is a run that had read the last update and failed.
Tried(r, a) == r.request_time = MaxTime \/ r.retry_count <= failed[a] \/ Outdated(a, r.request_time)

AllTried(a) ==
    /\ \A r \in apply_requests \cup ready : r.id = a => Tried(r, a)
    /\ Applying(a) => Tried(cur, a)

\* A run that misses an update is outdated.
LEMMA MissedOutdates ==
    ASSUME TypeOK, TakenOnce, NEW a \in Ids, Fresh(a), unread[a] # {}, wpc = "nics", cur.id = a
    PROVE  cur.request_time = MaxTime \/ Outdated(a, cur.request_time)
<1>1. Applying(a) /\ ~Ready(a) /\ ~HalfRead(a)
    BY ZenonT(30) DEF Applying, TakenOnce, Ready, HalfRead
<1>2. cur.request_time \in 0 .. MaxTime /\ MaxTime \in Nat
    BY ManagerAssumption DEF TypeOK, RequestsOK, Request
<1>3. ASSUME NEW q, NewerThanRetries(q, a) \/ q.request_time = MaxTime, cur.request_time # MaxTime
      PROVE  cur.request_time < q.request_time
  <2>1. CASE q.request_time = MaxTime
    BY <1>2, <1>3, <2>1, SMTT(30)
  <2>2. CASE q.request_time # MaxTime
    BY <1>1, <1>3, <2>2, ZenonT(30) DEF NewerThanRetries
  <2>. QED
    BY <2>1, <2>2
<1>4. Unbuilt(a) \/ Posted(a) \/ Waits(a)
    BY <1>1, ZenonT(30) DEF Fresh
<1>. QED
    BY <1>3, <1>4, ZenonT(30) DEF Posted, Waits, Outdated

\* A request stays tried while the failures are counted and what outdates it stays.
LEMMA TriedKept ==
    ASSUME NEW a, NEW r, Tried(r, a), failed'[a] = failed[a],
           Outdated(a, r.request_time) => Outdated(a, r.request_time)'
    PROVE  r.request_time = MaxTime \/ r.retry_count <= failed'[a] \/ Outdated(a, r.request_time)'
BY ZenonT(30) DEF Tried

\* The requests of a that the worker has, and the count of its failures, stay.
SameTried(a) ==
    /\ failed'[a] = failed[a] /\ UNCHANGED <<ready, cur>>
    /\ wpc' = wpc \/ {wpc, wpc'} \cap {"snap", "nics"} = {}

\* They stay tried, and so do those of the queue, if nothing that outdates them goes.
LEMMA AllTriedKept ==
    ASSUME TypeOK, NEW a, AllTried(a), SameTried(a),
           \A r \in apply_requests' : r.id = a => r \in apply_requests \/ r.retry_count <= failed[a],
           \A t \in Nat : Outdated(a, t) => Outdated(a, t)'
    PROVE  AllTried(a)'
<1>0. cur.request_time \in Nat /\ \A r \in apply_requests \cup ready : r.request_time \in Nat
    BY ManagerAssumption, SMTT(30) DEF TypeOK, RequestsOK, Request
<1>1. ASSUME NEW r \in apply_requests' \cup ready', r.id = a
      PROVE  r.request_time = MaxTime \/ r.retry_count <= failed'[a] \/ Outdated(a, r.request_time)'
  <2>1. CASE r \in apply_requests \cup ready
    BY <1>0, <1>1, <2>1, TriedKept, ZenonT(30) DEF AllTried, SameTried
  <2>2. CASE r \notin apply_requests \cup ready
    BY <1>1, <2>2, ZenonT(30) DEF SameTried
  <2>. QED
    BY <2>1, <2>2
<1>2. ASSUME Applying(a)'
      PROVE  cur'.request_time = MaxTime \/ cur'.retry_count <= failed'[a] \/ Outdated(a, cur.request_time)'
  <2>1. Applying(a) /\ cur' = cur
    BY <1>2, ZenonT(30) DEF Applying, SameTried
  <2>2. cur.request_time = MaxTime \/ cur.retry_count <= failed'[a] \/ Outdated(a, cur.request_time)'
    BY <1>0, <2>1, TriedKept, ZenonT(30) DEF AllTried, SameTried
  <2>. QED
    BY <2>1, <2>2, ZenonT(30) DEF Outdated
<1>. QED
    BY <1>1, <1>2, ZenonT(30) DEF AllTried, Tried

\* If every request of a is outdated after a step, there is nothing to count.
LEMMA AllOutdated ==
    ASSUME NEW a, Unbuilt(a)'
    PROVE  AllTried(a)'
BY ZenonT(30) DEF AllTried, Tried, Outdated

\* Building a request outdates those that the attacher has.
LEMMA BuildTried ==
    ASSUME TypeOK, NEW a \in Ids, AllTried(a), SameTried(a), UNCHANGED <<apply_requests, wpc>>,
           NEW p \in Posters, NEW i \in Nat, Builds(p, i),
           i = a => Posts(p, a)',
           i # a => (Unbuilt(a) => Unbuilt(a)'),
           \A r \in Posters : Posts(r, a) => r # p /\ Posts(r, a)'
    PROVE  AllTried(a)'
<1>1. PICK t \in 1 .. MaxTime :
        /\ ClockReads(i, t)
        /\ posting' = [posting EXCEPT ![p] =
              [id |-> i, retry_count |-> 0, is_immediate |-> TRUE, request_time |-> t]]
    BY ZenonT(30) DEF Builds
<1>2. posting'[p].request_time = t /\ \A r \in Posters : r # p => posting'[r] = posting[r]
    BY <1>1 DEF TypeOK, RequestsOK
<1>3. CASE i = a
  <2>1. \A r \in Live(a) : r \in Request
    BY ZenonT(30) DEF Live, TypeOK, RequestsOK
  <2>2. \A r \in Live(a) : r.request_time = MaxTime \/ r.request_time < t
    BY <1>1, <1>3, <2>1, ManagerAssumption, SMTT(30) DEF ClockReads, Request
  <2>3. \A r \in Live(a) : r.request_time = MaxTime \/ Outdated(a, r.request_time)'
    BY <1>2, <1>3, <2>2, ZenonT(30) DEF Outdated
  <2>4. \A r \in apply_requests \cup ready : r.id = a => r \in Live(a)
    BY ZenonT(30) DEF Live
  <2>5. Applying(a) => cur \in Live(a)
    BY ZenonT(30) DEF Live, Applying
  <2>6. \A r \in apply_requests' \cup ready' : r.id = a => Tried(r, a)'
    BY <2>3, <2>4, ZenonT(30) DEF SameTried, Tried, Outdated
  <2>7. Applying(a)' => Tried(cur, a)'
    BY <2>3, <2>5, ZenonT(30) DEF SameTried, Tried, Outdated, Applying
  <2>. QED
    BY <2>6, <2>7, ZenonT(30) DEF AllTried
<1>4. CASE i # a
  <2>1. ASSUME NEW u, Outdated(a, u) PROVE Outdated(a, u)'
    BY <1>2, <1>4, <2>1, ZenonT(30) DEF Outdated
  <2>. QED
    BY <2>1, AllTriedKept, ZenonT(30)
<1>. QED
    BY <1>3, <1>4

\* Appending a request leaves no tried one less tried.
LEMMA AppendTried ==
    ASSUME TypeOK, NEW a \in Ids, AllTried(a), SameTried(a),
           NEW p \in Posters, append_apply_request(p), posting[p].retry_count = 0,
           Posts(p, a) => posting[p].id = a,
           Unbuilt(a) => Unbuilt(a)',
           \A r \in Posters : Posts(r, a) /\ r # p => Posts(r, a)'
    PROVE  AllTried(a)'
<1> DEFINE q == posting[p]
<1>1. /\ apply_requests' = Appended(q) /\ q \in Request
      /\ \A r \in Posters : r # p => posting'[r] = posting[r]
    BY DEF append_apply_request, TypeOK, RequestsOK
<1>2. \A r \in apply_requests' : r \in apply_requests \/ r = q
    BY <1>1, ZenonT(30) DEF Appended
<1>3. q.retry_count <= failed[a]
    BY SMTT(30) DEF TypeOK, DataOK
<1>4. \A r \in apply_requests : r.request_time \in 0 .. MaxTime
    BY DEF TypeOK, RequestsOK, Request
<1>5. q.request_time \in 0 .. MaxTime /\ MaxTime \in Nat
    BY <1>1, ManagerAssumption DEF Request
<1>6. ASSUME NEW r \in apply_requests, r.id = a
      PROVE  \E w \in apply_requests' : w.id = a /\ r.request_time <= w.request_time
  <2>1. CASE r \in apply_requests'
    BY <1>4, <1>6, <2>1, SMTT(30)
  <2>2. CASE r \notin apply_requests'
    BY <1>1, <1>6, <2>2, ZenonT(30) DEF Appended, Supersedes
  <2>. QED
    BY <2>1, <2>2
<1>7. ASSUME q.id = a
      PROVE  \E w \in apply_requests' : w.id = a /\ q.request_time <= w.request_time
  <2>1. CASE Supersedes(q)
    BY <1>1, <1>5, <1>7, <2>1, SMTT(30) DEF Appended
  <2>2. CASE ~Supersedes(q)
    <3>1. apply_requests' = apply_requests
      BY <1>1, <2>2, ZenonT(30) DEF Appended
    <3>. QED
      BY <1>4, <1>5, <1>7, <2>2, <3>1, SMTT(30) DEF Supersedes
  <2>. QED
    BY <2>1, <2>2
<1>8. \A r \in apply_requests' : r.request_time \in 0 .. MaxTime
    BY <1>2, <1>4, <1>5, ZenonT(30)
<1>9. ASSUME NEW u \in Nat, Outdated(a, u) PROVE Outdated(a, u)'
  <2>1. CASE Unbuilt(a)
    BY <2>1, ZenonT(30) DEF Outdated
  <2>2. ASSUME NEW r \in Posters, Posts(r, a), u < posting[r].request_time, r # p
        PROVE  Outdated(a, u)'
    BY <1>1, <2>2, ZenonT(30) DEF Outdated
  <2>3. ASSUME Posts(p, a), u < q.request_time
        PROVE  Outdated(a, u)'
    <3>1. PICK w \in apply_requests' : w.id = a /\ q.request_time <= w.request_time
      BY <1>7, <2>3, ZenonT(30)
    <3>2. u < w.request_time
      BY <1>5, <1>8, <1>9, <2>3, <3>1, SMTT(30)
    <3>. QED
      BY <3>1, <3>2, ZenonT(30) DEF Outdated
  <2>4. ASSUME NEW r \in apply_requests, r.id = a, u < r.request_time
        PROVE  Outdated(a, u)'
    <3>1. PICK w \in apply_requests' : w.id = a /\ r.request_time <= w.request_time
      BY <1>6, <2>4, ZenonT(30)
    <3>2. u < w.request_time
      BY <1>4, <1>8, <1>9, <2>4, <3>1, SMTT(30)
    <3>. QED
      BY <3>1, <3>2, ZenonT(30) DEF Outdated
  <2>. QED
    BY <1>9, <2>1, <2>2, <2>3, <2>4, ZenonT(30) DEF Outdated
<1>. QED
    BY <1>2, <1>3, <1>9, AllTriedKept, ZenonT(30)

\* Counting a failure, or putting back the run that failed, keeps every request tried.
LEMMA FinishTried ==
    ASSUME TypeOK, Bookkeeping, TakenOnce, NEW a \in Ids, Fresh(a), AllTried(a), FinishApply
    PROVE  AllTried(a)'
<1>1. /\ wpc = "nics" /\ wpc' = "apply"
      /\ UNCHANGED <<caller, posting, ready, mpc, next_id, count>>
      /\ apply_requests' = apply_requests \/ (~GiveUp /\ ~is_apply_success /\ apply_requests' = Appended(Retry))
    BY ZenonT(30) DEF FinishApply, sourceVars, monitorData
<1>2. /\ failed \in [Ids -> 0 .. kMaxRetryCount + 1] /\ kMaxRetryCount \in Nat /\ MaxTime \in Nat
      /\ apply_requests \subseteq Request /\ ready \subseteq Request /\ cur \in Request
    BY ManagerAssumption, ZenonT(30) DEF TypeOK, DataOK, RequestsOK
<1>3. ~Applying(a)'
    BY <1>1, ZenonT(30) DEF Applying
<1>4. \A t : (Unbuilt(a) \/ \E p \in Posters : Posts(p, a) /\ t < posting[p].request_time) => Outdated(a, t)'
    BY <1>1, ZenonT(30) DEF Outdated, Unbuilt, Posts
<1>5. CASE cur.id # a
  <2>1. \A r : r.id = a => (r \in apply_requests <=> r \in apply_requests')
    <3>1. Retry.id # a
      BY <1>5 DEF Retry
    <3>. QED
      BY <1>1, <3>1, ZenonT(30) DEF Appended
  <2>2. failed'[a] = failed[a]
    BY <1>2, <1>5, ZenonT(30) DEF FinishApply
  <2>3. ASSUME NEW t, Outdated(a, t) PROVE Outdated(a, t)'
    BY <1>4, <2>1, <2>3, ZenonT(30) DEF Outdated
  <2>4. \A r \in apply_requests' \cup ready' : r.id = a => Tried(r, a)'
    BY <1>1, <2>1, <2>2, <2>3, TriedKept, ZenonT(30) DEF AllTried, Tried
  <2>. QED
    BY <1>3, <2>4, ZenonT(30) DEF AllTried
<1>6. CASE cur.id = a
  <2>1. \A r \in ready : r.id # a
    BY <1>1, <1>6, ZenonT(30) DEF TakenOnce
  <2>2. failed'[a] = IF is_apply_success \/ unread[a] # {} \/ failed[a] > kMaxRetryCount
                     THEN failed[a] ELSE failed[a] + 1
    BY <1>2, <1>6, ZenonT(30) DEF FinishApply
  <2>3. failed[a] \in Nat /\ failed[a] <= failed'[a] /\ failed'[a] \in Nat
    BY <1>2, <2>2, SMTT(30)
  <2>4. CASE apply_requests' = apply_requests
    <3>1. ASSUME NEW t, Outdated(a, t) PROVE Outdated(a, t)'
      BY <1>4, <2>4, <3>1, ZenonT(30) DEF Outdated
    <3>2. ASSUME NEW r \in apply_requests, r.id = a PROVE Tried(r, a)'
      <4>1. Tried(r, a) /\ r.retry_count \in Nat
        BY <1>2, <3>2, SMTT(30) DEF AllTried, Request
      <4>2. r.request_time = MaxTime \/ r.retry_count <= failed'[a] \/ Outdated(a, r.request_time)'
        BY <2>3, <3>1, <4>1, SMTT(30) DEF Tried
      <4>. QED
        BY <4>2, ZenonT(30) DEF Tried
    <3>. QED
      BY <1>1, <1>3, <2>1, <2>4, <3>2, ZenonT(30) DEF AllTried
  <2>5. CASE apply_requests' # apply_requests
    <3>1. /\ ~GiveUp /\ ~is_apply_success /\ Supersedes(Retry)
          /\ \A r \in apply_requests' : r.id = a => r = Retry
      BY <1>1, <1>6, <2>5, ZenonT(30) DEF Appended, Retry
    <3>2. Retry.retry_count = cur.retry_count + 1 /\ Retry.request_time = cur.request_time /\ Retry.id = a
      BY <1>6 DEF Retry
    <3>3. /\ cur.retry_count \in Nat /\ cur.request_time \in 0 .. MaxTime /\ cur.retry_count < kMaxRetryCount
          /\ \A r \in apply_requests : r.request_time \in 0 .. MaxTime
      BY <1>2, <3>1, SMTT(30) DEF GiveUp, Request
    <3>4. PICK t \in 0 .. MaxTime : t = cur.request_time
      BY <3>3
    <3>5. ASSUME Outdated(a, t) PROVE Outdated(a, t)'
      <4>1. ~\E q \in apply_requests : q.id = a /\ t < q.request_time
        BY <3>1, <3>2, <3>3, <3>4, SMTT(30) DEF Supersedes
      <4>. QED
        BY <1>4, <3>5, <4>1, ZenonT(30) DEF Outdated
    <3>6. t = MaxTime \/ cur.retry_count <= failed[a] \/ Outdated(a, t)
      <4>1. Tried(cur, a)
        BY <1>1, <1>6, ZenonT(30) DEF AllTried, Applying
      <4>. QED
        BY <3>4, <4>1, ZenonT(30) DEF Tried
    <3>7. t = MaxTime \/ unread[a] = {} \/ Outdated(a, t)
      BY <1>1, <1>6, <3>4, MissedOutdates, ZenonT(30)
    <3>8. t = MaxTime \/ Retry.retry_count <= failed'[a] \/ Outdated(a, t)'
      BY <1>2, <2>2, <2>3, <3>1, <3>2, <3>3, <3>5, <3>6, <3>7, SMTT(30)
    <3>9. ASSUME NEW r \in apply_requests', r.id = a PROVE Tried(r, a)'
      <4>1. r = Retry /\ r.request_time = t
        BY <3>1, <3>2, <3>4, <3>9, ZenonT(30)
      <4>. QED
        BY <3>8, <4>1, ZenonT(30) DEF Tried
    <3>. QED
      BY <1>1, <1>3, <2>1, <3>9, ZenonT(30) DEF AllTried
  <2>. QED
    BY <2>4, <2>5
<1>. QED
    BY <1>5, <1>6

\* A step that changes no queue and no poster keeps every request tried.
LEMMA QuietTried ==
    ASSUME TypeOK, NEW a, AllTried(a), SameTried(a), UNCHANGED <<posting, apply_requests>>,
           Unbuilt(a) => Unbuilt(a)', \A p \in Posters : Posts(p, a) => Posts(p, a)'
    PROVE  AllTried(a)'
<1>1. \A t : Outdated(a, t) => Outdated(a, t)'
    BY ZenonT(30) DEF Outdated
<1>. QED
    BY <1>1, AllTriedKept, ZenonT(30)

\* Every step keeps every request of every attacher tried.
LEMMA TriedStep ==
    ASSUME ImmediateInv, [Next]_vars, ~stop, ~stop', NEW a \in Ids, AllTried(a)
    PROVE  AllTried(a)'
<1> USE ZenonT(30), ManagerAssumption DEF Posters
<1>0. /\ TypeOK /\ Bookkeeping /\ OneRequestPerAttacher /\ BuiltImmediate /\ TakenOnce /\ Fresh(a)
    BY DEF ImmediateInv
<1>1. ASSUME NEW c \in Callers, CallerBuilds(c)
      PROVE  AllTried(a)'
  <2>1. /\ caller[c].id \in Nat /\ caller[c].pc = "notify" /\ Builds(c, caller[c].id)
        /\ UNCHANGED <<apply_requests, wpc, ready, cur, failed, mpc, next_id, count>>
    BY <1>0, <1>1 DEF CallerBuilds, EnterCallback, TypeOK, SourceTypeOK, workerData, monitorData, historyVars
  <2>2. /\ caller'[c] = [pc |-> "calling", id |-> caller[c].id]
        /\ \A d \in Callers : d # c => caller'[d] = caller[d]
    BY <1>0, <1>1 DEF CallerBuilds, EnterCallback, TypeOK, SourceTypeOK
  <2>3. \A r \in Posters : Posts(r, a) => r # c /\ Posts(r, a)'
    BY <2>1, <2>2 DEF Posts
  <2>4. caller[c].id = a => Posts(c, a)'
    BY <2>2, SMTT(30) DEF Posts
  <2>5. caller[c].id # a => (Unbuilt(a) => Unbuilt(a)')
    BY <2>1, <2>2 DEF Unbuilt
  <2>6. SameTried(a)
    BY <2>1 DEF SameTried
  <2>. QED
    BY <1>0, <2>1, <2>3, <2>4, <2>5, <2>6, BuildTried
<1>2. ASSUME NEW c \in Callers, CallerAppends(c)
      PROVE  AllTried(a)'
  <2>1. /\ caller[c].pc = "calling" /\ append_apply_request(c)
        /\ UNCHANGED <<ready, cur, failed, mpc, next_id, count>>
        /\ wpc' = wpc \/ {wpc, wpc'} \cap {"snap", "nics"} = {}
    BY <1>2 DEF CallerAppends, LeaveCallback, append_apply_request, Notified, workerData, monitorData, historyVars
  <2>2. \A d \in Callers : d # c => caller'[d] = caller[d]
    BY <1>0, <1>2 DEF CallerAppends, LeaveCallback, TypeOK, SourceTypeOK
  <2>3. posting[c].retry_count = 0 /\ (Posts(c, a) => posting[c].id = a)
    BY <1>0, <2>1 DEF BuiltImmediate, Posts, Bookkeeping, PostedFor
  <2>4. Unbuilt(a) => Unbuilt(a)'
    BY <2>1, <2>2 DEF Unbuilt
  <2>5. \A r \in Posters : Posts(r, a) /\ r # c => Posts(r, a)'
    BY <2>1, <2>2 DEF Posts
  <2>6. SameTried(a)
    BY <2>1 DEF SameTried
  <2>. QED
    BY <1>0, <2>1, <2>3, <2>4, <2>5, <2>6, AppendTried
<1>3. ASSUME NEW c \in Callers, NEW i \in Ids, NEW p \in Policy, CallerPublishes(c, i, p)
      PROVE  AllTried(a)'
  <2>1. /\ caller[c].pc = "idle" /\ caller'[c] = [pc |-> "notify", id |-> i]
        /\ \A d \in Callers : d # c => caller'[d] = caller[d]
        /\ a # i => failed'[a] = failed[a]
    BY <1>0, <1>3 DEF CallerPublishes, publish, TypeOK, SourceTypeOK, DataOK
  <2>2. UNCHANGED <<posting, apply_requests, wpc, ready, cur, mpc, next_id, count>>
    BY <1>3 DEF CallerPublishes, queueVars, workerData, monitorData
  <2>3. CASE a = i
    <3>1. Unbuilt(a)'
      BY <2>1, <2>3, SMTT(30) DEF Unbuilt
    <3>. QED
      BY <3>1, AllOutdated
  <2>4. CASE a # i
    <3>1. SameTried(a) /\ (Unbuilt(a) => Unbuilt(a)') /\ \A r \in Posters : Posts(r, a) => Posts(r, a)'
      BY <2>1, <2>2, <2>4 DEF SameTried, Unbuilt, Posts
    <3>. QED
      BY <1>0, <2>2, <3>1, QuietTried
  <2>. QED
    BY <2>3, <2>4
<1>4. CASE Refresh \/ RefreshSkips
  <2>1. Unbuilt(a)'
    BY <1>4 DEF Refresh, RefreshSkips, RefreshTo, Unbuilt
  <2>. QED
    BY <2>1, AllOutdated
<1>5. CASE InterfaceChange
  <2>1. status = "kRunning"
    BY <1>0, <1>5 DEF InterfaceChange, Bookkeeping, Phases, lifeVars
  <2>2. /\ mpc = "changed" /\ mpc' = "posting" /\ next_id' = 0 /\ count' = attachers
        /\ UNCHANGED <<apply_requests, ready, cur, wpc>>
    BY <1>5, <2>1 DEF InterfaceChange, queueVars, workerData
  <2>3. CASE a < attachers
    <3>1. Unbuilt(a)'
      BY <2>2, <2>3, MaxAttachersAssumption, SMTT(30) DEF Unbuilt, Ids
    <3>. QED
      BY <3>1, AllOutdated
  <2>4. CASE ~(a < attachers)
    <3>1. ~Applying(a) /\ \A r \in apply_requests \cup ready : r.id # a
      BY <1>0, <2>4 DEF TypeOK, RequestsOK, Bookkeeping, Phases, Applying
    <3>. QED
      BY <2>2, <3>1 DEF AllTried, Applying
  <2>. QED
    BY <2>3, <2>4
<1>6. CASE MonitorBuilds
  <2>1. /\ next_id \in Nat /\ next_id < count /\ mpc = "posting" /\ mpc' = "append"
        /\ Builds("monitor", next_id)
        /\ UNCHANGED <<caller, apply_requests, wpc, ready, cur, failed, next_id, count>>
    BY <1>0, <1>6 DEF MonitorBuilds, TypeOK, PlacesOK, sourceVars, workerData, monitorData, historyVars
  <2>2. \A r \in Posters : Posts(r, a) => r # "monitor" /\ Posts(r, a)'
    BY <2>1 DEF Posts
  <2>3. next_id = a => Posts("monitor", a)'
    BY <2>1 DEF Posts
  <2>4. next_id # a => (Unbuilt(a) => Unbuilt(a)')
    BY <2>1, MaxAttachersAssumption, SMTT(30) DEF Unbuilt, Ids
  <2>5. SameTried(a)
    BY <2>1 DEF SameTried
  <2>. QED
    BY <1>0, <2>1, <2>2, <2>3, <2>4, <2>5, BuildTried
<1>7. CASE MonitorAppends
  <2>1. /\ mpc = "append" /\ mpc' = "posting" /\ next_id' = next_id + 1 /\ next_id \in Nat
        /\ append_apply_request("monitor")
        /\ UNCHANGED <<caller, ready, cur, failed, count>>
        /\ wpc' = wpc \/ {wpc, wpc'} \cap {"snap", "nics"} = {}
    BY <1>0, <1>7 DEF MonitorAppends, append_apply_request, Notified, TypeOK, PlacesOK, sourceVars,
       workerData, historyVars
  <2>2. posting["monitor"].retry_count = 0 /\ (Posts("monitor", a) => posting["monitor"].id = a)
    BY <1>0, <2>1 DEF BuiltImmediate, Posts, Bookkeeping, PostedFor
  <2>3. Unbuilt(a) => Unbuilt(a)'
    BY <2>1, MaxAttachersAssumption, SMTT(30) DEF Unbuilt, Ids
  <2>4. \A r \in Posters : Posts(r, a) /\ r # "monitor" => Posts(r, a)'
    BY <2>1 DEF Posts
  <2>5. SameTried(a)
    BY <2>1 DEF SameTried
  <2>. QED
    BY <1>0, <2>1, <2>2, <2>3, <2>4, <2>5, AppendTried
<1>8. CASE MonitorReturns
  <2>1. /\ mpc = "posting" /\ mpc' = "watch" /\ next_id >= count /\ next_id \in Nat /\ count \in Nat
        /\ UNCHANGED <<caller, posting, apply_requests, wpc, ready, cur, failed>>
    BY <1>0, <1>8, MaxAttachersAssumption, SMTT(30) DEF MonitorReturns, TypeOK, PlacesOK, SourceTypeOK, sourceVars,
       queueVars, workerData, historyVars
  <2>2. (Unbuilt(a) => Unbuilt(a)') /\ \A r \in Posters : Posts(r, a) => Posts(r, a)'
    BY <2>1, MaxAttachersAssumption, SMTT(30) DEF Unbuilt, Posts, Ids
  <2>3. SameTried(a)
    BY <2>1 DEF SameTried
  <2>. QED
    BY <1>0, <2>1, <2>2, <2>3, QuietTried
<1>9. CASE WorkerStops
    BY <1>9 DEF WorkerStops
<1>10. CASE WorkerTakes
  <2>1. /\ wpc' = "run" /\ apply_requests' \cup ready' \subseteq apply_requests
        /\ UNCHANGED <<caller, posting, failed, mpc, next_id, count>>
    BY <1>10 DEF WorkerTakes, Immediate, Delayed, sourceVars, monitorData, historyVars
  <2>2. ASSUME NEW r \in apply_requests, r.id = a PROVE Tried(r, a)'
    <3>1. ~\E q \in apply_requests : q.id = a /\ r.request_time < q.request_time
      <4>1. \A q \in apply_requests : q.id = a => q = r
        BY <1>0, <2>2 DEF OneRequestPerAttacher
      <4>2. ~(r.request_time < r.request_time)
        BY <1>0, <2>2, SMTT(30) DEF TypeOK, RequestsOK, Request
      <4>. QED
        BY <4>1, <4>2
    <3>2. Outdated(a, r.request_time) => Outdated(a, r.request_time)'
      BY <2>1, <3>1 DEF Outdated, Unbuilt, Posts
    <3>. QED
      BY <2>1, <2>2, <3>2 DEF AllTried, Tried
  <2>. QED
    BY <2>1, <2>2 DEF AllTried, Applying
<1>11. CASE ReadPolicy
  <2>1. PICK request \in ready :
          wpc = "apply" /\ wpc' = "snap" /\ cur' = request /\ ready' = ready \ {request}
    BY <1>11 DEF ReadPolicy
  <2>2. UNCHANGED <<caller, posting, apply_requests, failed, mpc, next_id, count>>
    BY <1>11 DEF ReadPolicy, sourceVars, queueVars, monitorData
  <2>3. ASSUME NEW r \in apply_requests \cup ready, r.id = a PROVE Tried(r, a)'
    <3>1. Outdated(a, r.request_time) => Outdated(a, r.request_time)'
      BY <2>2 DEF Outdated, Unbuilt, Posts
    <3>. QED
      BY <2>2, <2>3, <3>1 DEF AllTried, Tried
  <2>4. request.id = a => Tried(request, a)'
    BY <2>3
  <2>5. Applying(a)' => Tried(cur, a)'
    BY <2>1, <2>4 DEF Applying, Tried, Outdated
  <2>. QED
    BY <2>1, <2>2, <2>3, <2>5 DEF AllTried
<1>12. CASE ReadSnapshot
  <2>1. /\ wpc = "snap" /\ wpc' = "nics"
        /\ UNCHANGED <<caller, posting, apply_requests, ready, cur, failed, mpc, next_id, count>>
    BY <1>12 DEF ReadSnapshot, sourceVars, queueVars, monitorData
  <2>2. \A t : Outdated(a, t) => Outdated(a, t)'
    BY <2>1 DEF Outdated, Unbuilt, Posts
  <2>3. Applying(a)' => Applying(a)
    BY <2>1 DEF Applying
  <2>. QED
    BY <2>1, <2>2, <2>3 DEF AllTried, Tried, Outdated, Unbuilt, Posts
<1>13. CASE FinishApply
    BY <1>0, <1>13, FinishTried
<1>14. CASE Quiet
  <2>1. /\ UNCHANGED <<caller, posting, apply_requests, ready, cur, failed, next_id, count>>
        /\ mpc' = mpc \/ {mpc, mpc'} \subseteq {"off", "watch", "failing"}
    BY <1>14 DEF Quiet
  <2>2. (Unbuilt(a) => Unbuilt(a)') /\ \A r \in Posters : Posts(r, a) => Posts(r, a)'
    BY <2>1 DEF Unbuilt, Posts
  <2>3. SameTried(a)
    BY <1>14 DEF Quiet, SameTried
  <2>. QED
    BY <1>0, <2>1, <2>2, <2>3, QuietTried
<1>. QED
    BY <1>0, QuietSteps, <1>1, <1>2, <1>3, <1>4, <1>5, <1>6, <1>7, <1>8, <1>9, <1>10, <1>11, <1>12,
       <1>13, <1>14

\* The inductive invariant behind GivesUpLast.
TriesInv == ImmediateInv /\ (~stop => \A a \in Ids : AllTried(a))

\* A run that gives up with nothing on its way is the last of its attempts.
LEMMA LastAttempt ==
    ASSUME TriesInv, FinishApply, gave_up'[cur.id], ~stop, ~Pending(cur.id), cur.request_time < MaxTime
    PROVE  failed'[cur.id] > kMaxRetryCount
<1> DEFINE a == cur.id
<1>1. /\ TypeOK /\ Bookkeeping /\ TakenOnce /\ wpc = "nics"
    BY ZenonT(30) DEF TriesInv, ImmediateInv, FinishApply
<1>2. a \in Ids
    BY <1>1, MaxAttachersAssumption, SMTT(30)
    DEF TypeOK, SourceTypeOK, RequestsOK, Request, Bookkeeping, Phases, Ids
<1>3. Fresh(a) /\ Tried(cur, a)
    BY <1>1, <1>2, ZenonT(30) DEF TriesInv, ImmediateInv, AllTried, Applying
<1>4. ~Unbuilt(a) /\ \A p \in Posters : ~Posts(p, a)
    BY <1>1, <1>2, MaxAttachersAssumption, SMTT(30)
    DEF Bookkeeping, PostedFor, TypeOK, PlacesOK, SourceTypeOK, Ids, Pending, Owed, CallerOwes, MonitorOwes,
       Unbuilt, Posts
<1>5. ~Outdated(a, cur.request_time)
    BY <1>4, ZenonT(30) DEF Outdated, Pending, Queued
<1>6. /\ failed \in [Ids -> 0 .. kMaxRetryCount + 1] /\ kMaxRetryCount \in Nat /\ gave_up \in [Ids -> BOOLEAN]
      /\ cur.retry_count \in 0 .. kMaxRetryCount /\ cur.request_time # MaxTime
    BY <1>1, ManagerAssumption, SMTT(30) DEF TypeOK, FlagsOK, DataOK, RequestsOK, Request
<1>7. ~is_apply_success /\ GiveUp
    BY <1>2, <1>6, ZenonT(30) DEF FinishApply
<1>8. unread[a] = {}
    BY <1>1, <1>2, <1>3, <1>5, <1>6, MissedOutdates, ZenonT(30)
<1>9. failed'[a] = IF failed[a] > kMaxRetryCount THEN failed[a] ELSE failed[a] + 1
    BY <1>2, <1>6, <1>7, <1>8, ZenonT(30) DEF FinishApply
<1>10. cur.retry_count <= failed[a] /\ cur.retry_count >= kMaxRetryCount
    BY <1>3, <1>5, <1>6, <1>7, ZenonT(30) DEF Tried, GiveUp
<1>. QED
    BY <1>2, <1>6, <1>9, <1>10, SMTT(30)

\* The worker gives an attacher up only after kMaxRetryCount + 1 runs that had read
\* its latest policy and interface list, whenever updates come while older requests
\* are retried, and whichever thread appends its request first (:155-172, :206-216).
THEOREM AllAttemptsMade == Spec => GivesUpLast
<1>1. Init => TriesInv
    BY ImmediateStarts, ZenonT(30) DEF TriesInv, Init, AllTried, Applying
<1>2. TriesInv /\ [Next]_vars => TriesInv'
  <2> SUFFICES ASSUME TriesInv, [Next]_vars PROVE TriesInv'
    OBVIOUS
  <2>1. ImmediateInv'
    BY ImmediateStep DEF TriesInv
  <2>2. ASSUME ~stop', NEW a \in Ids PROVE AllTried(a)'
    <3>1. ~stop
      BY <2>2, StepFrames DEF StepFrame, TriesInv, ImmediateInv
    <3>. QED
      BY <2>2, <3>1, TriedStep, ZenonT(30) DEF TriesInv
  <2>. QED
    BY <2>1, <2>2 DEF TriesInv
<1>3. TriesInv /\ [Next]_vars =>
        [FinishApply /\ gave_up'[cur.id] /\ ~stop /\ ~Pending(cur.id) /\ cur.request_time < MaxTime
         => failed'[cur.id] > kMaxRetryCount]_vars
    BY LastAttempt, ZenonT(30)
<1>. QED
    BY <1>1, <1>2, <1>3, PTL DEF Spec, GivesUpLast
=============================================================================
