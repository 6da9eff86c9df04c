---------------------------- MODULE AttachManager ----------------------------
(***************************************************************************)
(* bpf_tool::BpfAttachManager (bpf_attach_manager.h, .cpp): the worker     *)
(* that reconciles TC filters with the attachers' policies, its coalescing *)
(* request queue, the retries, the restart of a failed interface monitor,  *)
(* and the construction and destruction of the manager.                    *)
(*                                                                         *)
(* Threads: the API callers (module PolicySource), the worker, the         *)
(* loader's monitor thread, and the thread that constructs and destroys    *)
(* the manager.  The loader appears by what the manager sees of it; module     *)
(* InterfaceLoader has its inside.                                         *)
(*                                                                         *)
(* Time.  Only the order of the request_times of one attacher matters: a   *)
(* clock reading is later than those of its live requests.  Whether a      *)
(* delay has elapsed is decided when the worker scans the queue.           *)
(***************************************************************************)
EXTENDS PolicySource

CONSTANTS kMaxRetryCount,  \* 5 in the code
          MaxTime          \* bound on the clock readings of an attacher's live requests

ASSUME ManagerAssumption ==
    kMaxRetryCount \in Nat /\ MaxTime \in Nat \ {0} /\ "monitor" \notin Callers

VARIABLES
    life,              \* where the constructing or destroying thread is
    stop,              \* the worker's stop_requested()
    apply_requests,    \* apply_requests_
    restart,           \* loader_restart_requested_
    posting,           \* the request each thread has built and not appended yet
    wpc,               \* the worker's program counter
    ready,             \*   its ready
    restart_loader,    \*   its restart_loader
    cur,               \*   request of apply_targets_policy_per_attacher
    policy,            \*   *policy_ptr
    todo,              \*   interfaces of the snapshot not handled yet
    is_apply_success,
    mpc,               \* the monitor thread's program counter
    pending,           \*   a change it has not refreshed for
    next_id,           \*   i of interface_change_process
    count,             \*   and its count
    status,            \* monitor_status_
    nics,              \* interfaces the kernel has
    interfaces,        \* the loader's snapshot: for each name, whether it is there and, if
                       \*   so, whether the ifindex it records is the kernel's
    tc,                \* per interface, the attachers whose program sits in its slot
    unread,            \* history: inputs of an attacher that changed since the worker read them
    gave_up,           \* history: the last run for an attacher hit the retry limit
    failed             \* history: failed runs for an attacher that had read its last update, counted
                       \*   up to one more than the retries

lifeVars == <<life, stop>>
queueVars == <<apply_requests, restart, posting>>
workerData == <<ready, restart_loader, cur, policy, todo, is_apply_success>>
monitorData == <<pending, next_id, count, status>>
kernelVars == <<nics, interfaces, tc>>
historyVars == <<unread, gave_up, failed>>
vars == <<sourceVars, lifeVars, queueVars, wpc, workerData, mpc, monitorData, kernelVars, historyVars>>

Posters == Callers \cup {"monitor"}
Request == [id : Nat, retry_count : 0 .. kMaxRetryCount, is_immediate : BOOLEAN, request_time : 0 .. MaxTime]
Blank == [id |-> 0, retry_count |-> 0, is_immediate |-> FALSE, request_time |-> 0]

Init ==
    /\ SourceInit
    /\ life = "new" /\ stop = FALSE
    /\ apply_requests = {} /\ restart = FALSE /\ posting = [p \in Posters |-> Blank]
    /\ wpc = "off" /\ ready = {} /\ restart_loader = FALSE
    /\ cur = Blank /\ policy = NoPolicy /\ todo = {} /\ is_apply_success = TRUE
    /\ mpc = "off" /\ pending = FALSE /\ next_id = 0 /\ count = 0 /\ status = "kStopped"
    /\ nics \in SUBSET Nics
    \* the loader's constructor has refreshed, or failed to
    /\ \E loaded \in {{}, nics} : interfaces = [n \in Nics |-> IF n \in loaded THEN "current" ELSE "absent"]
    /\ tc = [n \in Nics |-> {}]
    /\ unread = [a \in Ids |-> {}] /\ gave_up = [a \in Ids |-> FALSE] /\ failed = [a \in Ids |-> 0]
-----------------------------------------------------------------------------
\* The queue and its condition variable.

\* Requests of attacher i that exist: queued, in the worker's hands, or being posted.
Live(i) ==
    {r \in apply_requests \cup ready \cup {cur} \cup {posting[p] : p \in Posters} : r.id = i}

\* Clock::now() in the constructor of ApplyRequest: the least time that will do.
\* At the bound, readings tie.
ClockReads(i, t) ==
    \/ /\ \A r \in Live(i) : r.request_time < t
       /\ t = 1 \/ \E r \in Live(i) : r.request_time = t - 1
    \/ t = MaxTime /\ \E r \in Live(i) : r.request_time = t

\* ApplyRequest(i, true), built before the queue's mutex is taken.
Builds(p, i) ==
    \E t \in 1 .. MaxTime :
        /\ ClockReads(i, t)
        /\ posting' = [posting EXCEPT ![p] =
              [id |-> i, retry_count |-> 0, is_immediate |-> TRUE, request_time |-> t]]

\* The worker holds retry_cv_mutex_ from its test of the predicate until it is
\* blocked; every other critical section is a single action.
MutexFree == wpc \notin {"parking", "dparking"}

\* Mutant: nobody is notified.
MutantNotified == wpc

\* notify_one, notify_all: only a worker that is already blocked wakes up.
Notified == IF wpc \in {"parked", "dparked"} THEN "scan" ELSE wpc

\* Mutant: the request_time of the queued request is not looked at.
MutantSupersedes(request) == TRUE

\* A request takes the place of a queued one unless that one is newer.
Supersedes(request) ==
    \A queued \in apply_requests : queued.id = request.id => queued.request_time <= request.request_time

\* find, erase and insert.  apply_requests_ is an unordered_set keyed by the id: the
\* set of records has one for each id at most, because the erase comes first.
Appended(request) ==
    IF Supersedes(request)
    THEN {queued \in apply_requests : queued.id # request.id} \cup {request}
    ELSE apply_requests

\* append_apply_request by a thread p other than the worker.
append_apply_request(p) ==
    /\ MutexFree
    /\ apply_requests' = Appended(posting[p])
    /\ wpc' = IF Supersedes(posting[p]) THEN Notified ELSE wpc
    /\ posting' = [posting EXCEPT ![p] = Blank]
-----------------------------------------------------------------------------
\* API callers.  They use the manager only between its construction and its
\* destruction.  A program that fails the checks of create_attacher changes
\* nothing.
CreateAttacher ==
    /\ life = "valid"
    /\ create_attacher
    /\ UNCHANGED <<lifeVars, queueVars, wpc, workerData, mpc, monitorData, kernelVars, historyVars>>

CallerPublishes(c, a, p) ==
    /\ life = "valid"
    /\ publish(c, a, p)
    /\ unread' = [unread EXCEPT ![a] = @ \cup {"policy"}]
    /\ failed' = [failed EXCEPT ![a] = 0]
    /\ UNCHANGED <<lifeVars, queueVars, wpc, workerData, mpc, monitorData, kernelVars, gave_up>>

\* attacher_policy_change_process builds the request, then appends it.
CallerBuilds(c) ==
    /\ EnterCallback(c)
    /\ Builds(c, caller[c].id)
    /\ UNCHANGED <<lifeVars, apply_requests, restart, wpc, workerData, mpc, monitorData, kernelVars, historyVars>>

CallerAppends(c) ==
    /\ LeaveCallback(c)
    /\ append_apply_request(c)
    /\ UNCHANGED <<lifeVars, restart, workerData, mpc, monitorData, kernelVars, historyVars>>
-----------------------------------------------------------------------------
\* The loader's monitor thread, as far as the manager sees it.

\* start_monitor: it cleans up after a failed monitor, whose thread it joins,
\* and has the new one refresh at once.
StartSucceeds ==
    /\ status \in {"kStopped", "kFailed"}
    /\ mpc = "off"
    /\ status' = "kRunning"
    /\ mpc' = "watch"
    /\ pending' = TRUE

StartFails ==
    \/ status = "kRunning" /\ UNCHANGED <<status, mpc, pending>>
    \/ status \in {"kStopped", "kFailed"} /\ mpc = "off" /\ status' = "kStopped" /\ UNCHANGED <<mpc, pending>>

\* refresh_interface_list publishes the list it has read; pending is set again by
\* changes that come meanwhile.
RefreshTo(list, changed) ==
    /\ mpc = "watch"
    /\ pending
    /\ interfaces' = list
    /\ pending' = changed
    /\ mpc' = "changed"
    /\ unread' = [a \in Ids |-> IF a < attachers THEN unread[a] \cup {"nics"} ELSE unread[a]]
    /\ failed' = [a \in Ids |-> IF a < attachers THEN 0 ELSE failed[a]]
    /\ UNCHANGED <<sourceVars, lifeVars, queueVars, wpc, workerData, next_id, count, status, nics, tc, gave_up>>

Refresh == RefreshTo([n \in Nics |-> IF n \in nics THEN "current" ELSE "absent"], FALSE)

\* An interface whose index or address cannot be read is skipped, and the list is
\* stale already where the kernel has changed since it was read.
RefreshSkips ==
    \E list \in [Nics -> {"absent", "current", "stale"}], changed \in BOOLEAN :
        /\ \A n \in Nics : list[n] = "current" => n \in nics
        /\ changed \/ \A n \in Nics : list[n] # "stale"
        /\ RefreshTo(list, changed)

\* getifaddrs fails: nothing is published, and pending is cleared already.
RefreshFails ==
    /\ mpc = "watch"
    /\ pending
    /\ pending' = FALSE
    /\ UNCHANGED <<sourceVars, lifeVars, queueVars, wpc, workerData, mpc, next_id, count, status, kernelVars, historyVars>>

\* Mutant: the last attacher gets no request.
MutantInterfaceChange ==
    /\ mpc = "changed"
    /\ mpc' = "posting" /\ next_id' = 0 /\ count' = IF attachers = 0 THEN 0 ELSE attachers - 1
    /\ UNCHANGED <<sourceVars, lifeVars, queueVars, wpc, workerData, pending, status, kernelVars, historyVars>>

\* notify_change calls interface_change_process, which reads attachers_.size(),
\* unless the monitor is being stopped; then its loop ends too.
InterfaceChange ==
    /\ mpc = "changed"
    /\ IF status = "kRunning"
       THEN mpc' = "posting" /\ next_id' = 0 /\ count' = attachers /\ UNCHANGED pending
       ELSE mpc' = "off" /\ pending' = FALSE /\ UNCHANGED <<next_id, count>>
    /\ UNCHANGED <<sourceVars, lifeVars, queueVars, wpc, workerData, status, kernelVars, historyVars>>

MonitorBuilds ==
    /\ mpc = "posting" /\ next_id < count
    /\ mpc' = "append"
    /\ Builds("monitor", next_id)
    /\ UNCHANGED <<sourceVars, lifeVars, apply_requests, restart, wpc, workerData, monitorData, kernelVars, historyVars>>

MonitorAppends ==
    /\ mpc = "append"
    /\ append_apply_request("monitor")
    /\ next_id' = next_id + 1
    /\ mpc' = "posting"
    /\ UNCHANGED <<sourceVars, lifeVars, restart, workerData, pending, count, status, kernelVars, historyVars>>

MonitorReturns ==
    /\ mpc = "posting" /\ next_id >= count
    /\ mpc' = "watch" /\ next_id' = 0 /\ count' = 0
    /\ UNCHANGED <<sourceVars, lifeVars, queueVars, wpc, workerData, pending, status, kernelVars, historyVars>>

\* monitor_loop ends with a failure, and the failure handler asks for a restart.
MonitorFails ==
    /\ mpc = "watch" /\ status = "kRunning"
    /\ mpc' = "failing" /\ status' = "kFailed" /\ pending' = FALSE
    /\ UNCHANGED <<sourceVars, lifeVars, queueVars, wpc, workerData, next_id, count, kernelVars, historyVars>>

interface_monitor_failure_process ==
    /\ mpc = "failing"
    /\ MutexFree
    /\ restart' = TRUE
    /\ wpc' = Notified
    /\ mpc' = "off"
    /\ UNCHANGED <<sourceVars, lifeVars, apply_requests, posting, workerData, monitorData, kernelVars, historyVars>>

\* Mutant: a stop request does not wake the poll of the monitor thread.
MutantMonitorExits ==
    /\ mpc = "watch" /\ status = "kStopping" /\ pending
    /\ mpc' = "off" /\ pending' = FALSE
    /\ UNCHANGED <<sourceVars, lifeVars, queueVars, wpc, workerData, next_id, count, status, kernelVars, historyVars>>

\* The stop token of the monitor thread is set.
MonitorExits ==
    /\ mpc = "watch" /\ status = "kStopping"
    /\ mpc' = "off" /\ pending' = FALSE
    /\ UNCHANGED <<sourceVars, lifeVars, queueVars, wpc, workerData, next_id, count, status, kernelVars, historyVars>>
-----------------------------------------------------------------------------
\* The worker.

\* A step that only moves the worker's program counter.
WorkerGoes(pc) ==
    /\ wpc' = pc
    /\ UNCHANGED <<sourceVars, lifeVars, queueVars, workerData, mpc, monitorData, kernelVars, historyVars>>

Immediate == {r \in apply_requests : r.is_immediate}
Delayed == apply_requests \ Immediate

\* The loop conditions, and the test once the mutex is released again.
WorkerStops ==
    /\ wpc \in {"scan", "due", "run"} /\ stop
    /\ wpc' = "done" /\ ready' = {} /\ restart_loader' = FALSE
    /\ UNCHANGED <<sourceVars, lifeVars, queueVars, cur, policy, todo, is_apply_success, mpc, monitorData,
                   kernelVars, historyVars>>

\* The predicate of wait is false; the mutex stays held until WorkerBlocks.
WorkerIdles ==
    /\ wpc \in {"scan", "due"} /\ ~stop
    /\ apply_requests = {} /\ ~restart
    /\ WorkerGoes("parking")

\* Every immediate request, and the delayed ones that are due, leave the queue.
WorkerTakes ==
    /\ wpc \in {"scan", "due"} /\ ~stop
    /\ \E due \in SUBSET Delayed, restart_due \in {FALSE, restart} :
          /\ Immediate \cup due # {} \/ restart_due
          /\ ready' = Immediate \cup due
          /\ apply_requests' = Delayed \ due
          /\ restart_loader' = restart_due
          /\ restart' = (restart /\ ~restart_due)
    /\ wpc' = "run"
    /\ UNCHANGED <<sourceVars, lifeVars, posting, cur, policy, todo, is_apply_success, mpc, monitorData,
                   kernelVars, historyVars>>

\* Nothing is due: wait_until the earliest deadline.
WorkerDefers ==
    /\ wpc = "scan" /\ ~stop
    /\ Immediate = {} /\ (Delayed # {} \/ restart)
    /\ WorkerGoes("dparking")

WorkerBlocks ==
    /\ wpc \in {"parking", "dparking"}
    /\ WorkerGoes(IF wpc = "parking" THEN "parked" ELSE "dparked")

WorkerTimesOut == wpc = "dparked" /\ WorkerGoes("due")
SpuriousWake == wpc \in {"parked", "dparked"} /\ WorkerGoes("scan")

WorkerRuns ==
    /\ wpc = "run" /\ ~stop
    /\ WorkerGoes(IF restart_loader THEN "restart" ELSE "apply")

WorkerLoops == wpc = "apply" /\ ready = {} /\ WorkerGoes("scan")

\* Mutant: a failed attempt is not rescheduled.
MutantWorkerStarts(started) ==
    /\ wpc = "restart"
    /\ IF started THEN StartSucceeds ELSE StartFails
    /\ wpc' = "apply" /\ restart_loader' = FALSE
    /\ UNCHANGED <<sourceVars, lifeVars, queueVars, ready, cur, policy, todo, is_apply_success,
                   next_id, count, kernelVars, historyVars>>

\* start_interface_monitor; a failure schedules the next attempt.
WorkerStarts(started) ==
    /\ wpc = "restart"
    /\ IF started THEN StartSucceeds /\ UNCHANGED restart ELSE StartFails /\ restart' = TRUE
    /\ wpc' = "apply" /\ restart_loader' = FALSE
    /\ UNCHANGED <<sourceVars, lifeVars, apply_requests, posting, ready, cur, policy, todo, is_apply_success,
                   next_id, count, kernelVars, historyVars>>

\* apply_targets_policy_per_attacher: the attacher, under attacher_mutex_ ...
ReadPolicy ==
    /\ wpc = "apply"
    /\ \E request \in ready :
          /\ cur' = request
          /\ ready' = ready \ {request}
          /\ policy' = policy_snapshot[request.id]
          /\ unread' = [unread EXCEPT ![request.id] = @ \ {"policy"}]
    /\ wpc' = "snap"
    /\ UNCHANGED <<sourceVars, lifeVars, queueVars, restart_loader, todo, is_apply_success, mpc, monitorData,
                   kernelVars, gave_up, failed>>

\* ... then the interface snapshot ...
ReadSnapshot ==
    /\ wpc = "snap"
    /\ todo' = {n \in Nics : interfaces[n] # "absent"}
    /\ unread' = [unread EXCEPT ![cur.id] = @ \ {"nics"}]
    /\ wpc' = "nics"
    /\ UNCHANGED <<sourceVars, lifeVars, queueVars, ready, restart_loader, cur, policy, is_apply_success, mpc,
                   monitorData, kernelVars, gave_up, failed>>

\* ... then every interface of it.  The ifindex is looked up again, in the
\* latest snapshot, and a stale one is refused by the kernel.
Wants(p, n) == p.is_all \/ n \in p.policy
Reachable(n) == interfaces[n] = "current"

\* Mutant: a success forgets the failure on an interface handled before.
MutantHandleNic(n, success, slots) ==
    /\ wpc = "nics" /\ n \in todo
    /\ todo' = todo \ {n}
    /\ is_apply_success' = success
    /\ tc' = IF success THEN [tc EXCEPT ![n] = slots] ELSE tc
    /\ UNCHANGED <<sourceVars, lifeVars, queueVars, wpc, ready, restart_loader, cur, policy, mpc, monitorData,
                   nics, interfaces, historyVars>>

HandleNic(n, success, slots) ==
    /\ wpc = "nics" /\ n \in todo
    /\ todo' = todo \ {n}
    /\ is_apply_success' = (is_apply_success /\ success)
    /\ tc' = IF success THEN [tc EXCEPT ![n] = slots] ELSE tc
    /\ UNCHANGED <<sourceVars, lifeVars, queueVars, wpc, ready, restart_loader, cur, policy, mpc, monitorData,
                   nics, interfaces, historyVars>>

attach_filter(n) == Wants(policy, n) /\ HandleNic(n, Reachable(n), tc[n] \cup {cur.id})
detach_filter(n) == ~Wants(policy, n) /\ HandleNic(n, Reachable(n), tc[n] \ {cur.id})
\* The kernel refuses one of the calls on an interface that is there.
FilterError(n) == Reachable(n) /\ HandleNic(n, FALSE, tc[n])
\* The index was read before a refresh skipped the interface, and is still good.
LateFilter(n) ==
    /\ n \in nics /\ interfaces[n] = "absent"
    /\ HandleNic(n, TRUE, IF Wants(policy, n) THEN tc[n] \cup {cur.id} ELSE tc[n] \ {cur.id})
FilterFaults(n) == FilterError(n) \/ LateFilter(n)

\* The retry keeps the request_time of the request it repeats.
Retry == [id |-> cur.id, retry_count |-> cur.retry_count + 1, is_immediate |-> FALSE,
          request_time |-> cur.request_time]

\* Mutant: one retry too many.
MutantGiveUp == cur.retry_count > kMaxRetryCount

\* Mutant: ++request.retry_count >= kMaxRetryCount.
MutantGiveUpEarly == cur.retry_count + 1 >= kMaxRetryCount

\* ++request.retry_count > kMaxRetryCount
GiveUp == cur.retry_count >= kMaxRetryCount

FinishApply ==
    /\ wpc = "nics" /\ todo = {}
    /\ apply_requests' = IF is_apply_success \/ GiveUp THEN apply_requests ELSE Appended(Retry)
    /\ gave_up' = [gave_up EXCEPT ![cur.id] = ~is_apply_success /\ GiveUp]
    /\ failed' = [failed EXCEPT ![cur.id] =
          IF is_apply_success \/ unread[cur.id] # {} \/ @ > kMaxRetryCount THEN @ ELSE @ + 1]
    /\ wpc' = "apply"
    /\ cur' = Blank /\ policy' = NoPolicy /\ is_apply_success' = TRUE
    /\ UNCHANGED <<sourceVars, lifeVars, restart, posting, ready, restart_loader, todo, mpc, monitorData,
                   kernelVars, unread>>
-----------------------------------------------------------------------------
\* Construction and destruction.  A failed initialize leaves no thread behind.
LifeGoes(from, to) ==
    /\ life = from /\ life' = to
    /\ UNCHANGED <<sourceVars, queueVars, workerData, next_id, count, kernelVars, historyVars>>

InitializeFails == LifeGoes("new", "destroyed") /\ UNCHANGED <<stop, wpc, mpc, pending, status>>
StartWorker == LifeGoes("new", "starting") /\ wpc' = "scan" /\ UNCHANGED <<stop, mpc, pending, status>>
CtorSucceeds == LifeGoes("starting", "valid") /\ StartSucceeds /\ UNCHANGED <<stop, wpc>>
CtorFails == LifeGoes("starting", "stopping") /\ StartFails /\ UNCHANGED <<stop, wpc>>

\* request_stop and notify_all, by the destructor or a constructor that failed.
\* Neither takes the mutex of the condition variable.
Destructor ==
    /\ \A c \in Callers : caller[c].pc = "idle"
    /\ LifeGoes("valid", "stopping")
    /\ UNCHANGED <<stop, wpc, mpc, pending, status>>
RequestStop == LifeGoes("stopping", "notifying") /\ stop' = TRUE /\ UNCHANGED <<wpc, mpc, pending, status>>
NotifyAll == LifeGoes("notifying", "joining") /\ wpc' = Notified /\ UNCHANGED <<stop, mpc, pending, status>>
JoinWorker == wpc = "done" /\ LifeGoes("joining", "joined") /\ UNCHANGED <<stop, wpc, mpc, pending, status>>

\* loader_.stop_monitor(): the monitor thread is told to stop, then joined.
StopMonitor ==
    /\ LifeGoes("joined", "stop_monitor")
    /\ status' = "kStopping"
    /\ UNCHANGED <<stop, wpc, mpc, pending>>
JoinMonitor ==
    /\ mpc = "off"
    /\ LifeGoes("stop_monitor", "destroyed")
    /\ status' = "kStopped"
    /\ UNCHANGED <<stop, wpc, mpc, pending>>
-----------------------------------------------------------------------------
\* The kernel.  A new interface has a new ifindex; with an interface go its
\* filters.  Events reach the monitor while its thread runs.
NicChanges(present, snapshot, slots) ==
    /\ nics' = present /\ interfaces' = snapshot /\ tc' = slots
    /\ pending' = (pending \/ mpc \notin {"off", "failing"})
    /\ UNCHANGED <<sourceVars, lifeVars, queueVars, wpc, workerData, mpc, next_id, count, status, historyVars>>

NicAppears(n) == n \notin nics /\ NicChanges(nics \cup {n}, interfaces, tc)
NicDisappears(n) ==
    /\ n \in nics
    /\ NicChanges(nics \ {n},
                  [interfaces EXCEPT ![n] = IF @ = "absent" THEN "absent" ELSE "stale"],
                  [tc EXCEPT ![n] = {}])
-----------------------------------------------------------------------------
CallerSteps(c) == CallerBuilds(c) \/ CallerAppends(c)

MonitorSteps ==
    \/ Refresh \/ InterfaceChange \/ MonitorBuilds \/ MonitorAppends \/ MonitorReturns
    \/ interface_monitor_failure_process \/ MonitorExits

WorkerSteps ==
    \/ WorkerStops \/ WorkerIdles \/ WorkerTakes \/ WorkerDefers \/ WorkerBlocks \/ WorkerTimesOut
    \/ WorkerRuns \/ WorkerLoops \/ WorkerStarts(TRUE) \/ ReadPolicy \/ ReadSnapshot \/ FinishApply
    \/ \E n \in Nics : attach_filter(n) \/ detach_filter(n)

LifeSteps ==
    \/ StartWorker \/ CtorSucceeds \/ RequestStop \/ NotifyAll \/ JoinWorker \/ StopMonitor \/ JoinMonitor

Faults ==
    \/ InitializeFails \/ CtorFails \/ RefreshSkips \/ RefreshFails \/ MonitorFails \/ WorkerStarts(FALSE)
    \/ \E n \in Nics : FilterFaults(n)

\* What users and the kernel do, when they like.
Inputs ==
    \/ CreateAttacher \/ Destructor
    \/ \E c \in Callers, a \in Ids, p \in Policy : CallerPublishes(c, a, p)
    \/ \E n \in Nics : NicAppears(n) \/ NicDisappears(n)

Next ==
    \/ \E c \in Callers : CallerSteps(c)
    \/ MonitorSteps \/ WorkerSteps \/ LifeSteps \/ Faults \/ Inputs \/ SpuriousWake

Spec == Init /\ [][Next]_vars

\* A thread that can run runs.  Strong fairness where a step needs the mutex,
\* which the worker may take and release again and again.  Nothing is assumed
\* of inputs, faults and spurious wake-ups.
Fairness ==
    /\ WF_vars(WorkerSteps)
    /\ WF_vars(LifeSteps)
    /\ SF_vars(MonitorSteps)
    /\ \A c \in Callers : SF_vars(CallerSteps(c))

FairSpec == Spec /\ Fairness
-----------------------------------------------------------------------------
\* The Boolean variables.
FlagsOK ==
    /\ stop \in BOOLEAN /\ restart \in BOOLEAN /\ restart_loader \in BOOLEAN
    /\ is_apply_success \in BOOLEAN /\ pending \in BOOLEAN
    /\ gave_up \in [Ids -> BOOLEAN]

\* Program counters and indices.
PlacesOK ==
    /\ life \in {"new", "starting", "valid", "stopping", "notifying", "joining", "joined", "stop_monitor", "destroyed"}
    /\ wpc \in {"off", "scan", "parking", "parked", "dparking", "dparked", "due", "run", "restart", "apply",
                "snap", "nics", "done"}
    /\ mpc \in {"off", "watch", "changed", "posting", "append", "failing"}
    /\ next_id \in Nat /\ count \in 0 .. attachers
    /\ status \in {"kStopped", "kRunning", "kFailed", "kStopping"}

\* Every identifier the worker will look up is that of an attacher that exists.
RequestsOK ==
    /\ apply_requests \in SUBSET Request /\ ready \in SUBSET Request /\ cur \in Request
    /\ posting \in [Posters -> Request]
    /\ \A r \in apply_requests \cup ready : r.id < attachers

\* The worker's data, the kernel and the history.
DataOK ==
    /\ policy \in Policy /\ todo \in SUBSET Nics
    /\ nics \in SUBSET Nics /\ interfaces \in [Nics -> {"absent", "current", "stale"}]
    /\ tc \in [Nics -> SUBSET Ids]
    /\ unread \in [Ids -> SUBSET {"policy", "nics"}] /\ failed \in [Ids -> 0 .. kMaxRetryCount + 1]

\* Every variable has its type, and the request identifiers and retry counts of
\* the queue stay in range (attachers_[request.id], bpf_attach_manager.cpp:180;
\* the retry limit, :208).
TypeOK == SourceTypeOK /\ FlagsOK /\ PlacesOK /\ RequestsOK /\ DataOK

Queued(a) == \E r \in apply_requests : r.id = a
Ready(a) == \E r \in ready : r.id = a
Applying(a) == wpc \in {"snap", "nics"} /\ cur.id = a
CallerOwes(a) == \E c \in Callers : caller[c].pc \in {"notify", "calling"} /\ caller[c].id = a
MonitorOwes(a) == mpc = "changed" \/ (mpc \in {"posting", "append"} /\ next_id <= a /\ a < count)
\* A request for a will still be appended, or waits for the worker.
Owed(a) == CallerOwes(a) \/ MonitorOwes(a)
Pending(a) == Owed(a) \/ Queued(a) \/ Ready(a)

\* What became unread will be read.  The worker reads the policy before the
\* interface list, so while it is between the two only the policy is certain.
Accounted(a) ==
    /\ "policy" \in unread[a] => Pending(a)
    /\ "nics" \in unread[a] => Pending(a) \/ (wpc = "snap" /\ cur.id = a)

\* No update is lost: until shutdown, whenever a published policy or interface
\* list has not been read by the worker, a request for that attacher is being
\* posted, queued or taken, however posting, coalescing (:155-172), retries
\* (:206-216) and the worker's two reads (:179-186) interleave.
NoLostUpdate == ~stop => \A a \in Ids : Accounted(a)

\* A stale retry never takes the place of a newer request: once the request for
\* an unread update has been appended, whatever is queued for the attacher is
\* immediate, not a delayed retry (:159-167).  Readings that tie at the clock
\* bound are left out.
UpdateIsImmediate ==
    ~stop => \A a \in Ids : unread[a] # {} /\ ~Owed(a) =>
        \A r \in apply_requests : r.id = a /\ r.request_time < MaxTime => r.is_immediate

\* The filters of a are what its policy asks for, on every interface whose
\* recorded ifindex is the kernel's.
Reconciled(a) ==
    \A n \in Nics : Reachable(n) => (Wants(policy_snapshot[a], n) <=> a \in tc[n])

\* The worker's purpose: until shutdown, an attacher for which nothing is pending
\* or running, and whose last run did not hit the retry limit, is reconciled
\* (apply_targets_policy_per_attacher, :174-218).
Settled(a) == Pending(a) \/ Applying(a) \/ gave_up[a] \/ Reconciled(a)
Converged == ~stop => \A a \in Ids : Settled(a)

\* Every update gets all its attempts: when the worker gives an attacher up and no
\* request for it is on its way, kMaxRetryCount + 1 runs that had read the latest
\* policy and interface list have failed, though the update may have come while an
\* older request was being retried (:206-216, :159-167).  Readings that tie at the
\* clock bound are left out.
GivesUpLast ==
    [][FinishApply /\ gave_up'[cur.id] /\ ~stop /\ ~Pending(cur.id) /\ cur.request_time < MaxTime
       => failed'[cur.id] > kMaxRetryCount]_vars

\* While the manager is usable, a monitor that does not run is going to be
\* restarted: the failure callback is on its way, or the restart is scheduled or
\* in the worker's hands (:85-88, :137-149).
RestartPending ==
    life = "valid" /\ status # "kRunning" => restart \/ mpc = "failing" \/ restart_loader

\* If from some point on nobody changes anything and no call fails, then from
\* some point on every attacher that was not given up is reconciled (:39-95).
EventuallyReconciled ==
    <>[][~(Faults \/ Inputs)]_vars =>
        <>[](life # "valid" \/ \A a \in 0 .. attachers - 1 : gave_up[a] \/ Reconciled(a))

\* Destruction, and a construction that failed, end: both join the worker
\* (:101-103, :111-113).
ShutdownCompletes == life = "stopping" ~> life = "destroyed"

\* They do if the worker has something queued or a restart scheduled, because
\* then it only ever waits with a deadline (:69-78).
BusyShutdownCompletes ==
    life = "notifying" /\ (apply_requests # {} \/ restart) ~> life = "destroyed"
-----------------------------------------------------------------------------
\* What makes NoLostUpdate and Converged inductive.

\* A built request names what its builder was called for.
PostedFor ==
    /\ \A c \in Callers : caller[c].pc = "calling" => posting[c].id = caller[c].id
    /\ mpc = "append" => posting["monitor"].id = next_id /\ next_id < count

\* What the program counters say of the data.
Phases ==
    /\ wpc \in {"snap", "nics"} => cur.id < attachers
    /\ wpc \in {"off", "scan", "due", "parking", "parked", "dparking", "dparked"} => ready = {}
    /\ life = "new" => wpc = "off"
    /\ life \in {"notifying", "joining", "joined", "stop_monitor"} => stop
    /\ ~stop /\ mpc \notin {"off", "failing"} => status = "kRunning"

\* Nothing is wanted by, or attached for, an attacher that does not exist yet.
Untouched(a) == policy_snapshot[a] = NoPolicy /\ unread[a] = {} /\ \A n \in Nics : a \notin tc[n]
Unused == \A a \in Ids : a >= attachers => Untouched(a)

Bookkeeping == PostedFor /\ Phases /\ Unused

\* Unless a newer request for the attacher is on its way, the worker applies
\* the current policy, and what it has handled without a failure is as wanted.
InSync(a) ==
    /\ policy = policy_snapshot[a]
    /\ wpc = "nics" /\ is_apply_success =>
          \A n \in Nics \ todo : Reachable(n) => (Wants(policy, n) <=> a \in tc[n])
WorkerInSync == ~stop => \A a \in Ids : Applying(a) /\ ~Pending(a) => InSync(a)

\* The inductive invariant of module AttachManager_proofs: the invariants above,
\* the bookkeeping, and that the worker is in sync (:174-204).
IndInv == TypeOK /\ Bookkeeping /\ NoLostUpdate /\ WorkerInSync /\ Converged
=============================================================================
