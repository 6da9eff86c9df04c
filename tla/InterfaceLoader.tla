--------------------------- MODULE InterfaceLoader ---------------------------
(***************************************************************************)
(* nic_check::InterfaceLoader (interface_loader.h, .cpp): the snapshot of  *)
(* the interface list, the netlink monitor thread that keeps it fresh, and *)
(* start_monitor, stop_monitor and request_refresh.                        *)
(*                                                                         *)
(* Threads: users, who call request_refresh at any time; one controller,   *)
(* who calls start_monitor and stop_monitor (the class allows no two of    *)
(* these at once); and the monitor thread.                                 *)
(*                                                                         *)
(* Data.  An interface list is the number of changes the kernel had made   *)
(* when it was read; 0 is the empty list of a constructor whose refresh    *)
(* failed.  A list read while the kernel changes it counts as the older    *)
(* one.                                                                    *)
(***************************************************************************)
EXTENDS Integers

CONSTANTS Users,       \* threads that call request_refresh
          MaxChanges   \* bound on the changes of the kernel's interface list

ASSUME LoaderAssumption ==
    MaxChanges \in Nat /\ {"monitor", "control"} \cap Users = {}

VARIABLES
    pc,           \* per thread, where it is
    status,       \* monitor_status_
    interfaces,   \* interfaces_, as the number of the list
    got,          \* per thread, the list reload_snapshot has read
    dirty,        \* dirty_
    wake_fd,      \* wake_fd_: "none" is -1; "closed" a number that has been closed
    wake,         \* the eventfd's counter is not zero
    nl_sock,      \* nl_sock_ is open
    handlers,     \* on_change_ and on_failure_ are set
    joinable,     \* monitor_thread_.joinable()
    stop,         \* its stop_requested()
    starting,     \* stop_monitor was called by start_monitor
    pending,      \* monitor_loop: pending
    due,          \*   its deadline has passed
    revents,      \*   what poll reported
    kernel,       \* the kernel's interface list
    events,       \* messages wait on the netlink socket
    overrun,      \* the socket dropped one and holds ENOBUFS
    told,         \* history: the change handler was called since the snapshot was replaced
    unrecovered   \* history: the last refresh failed

fdVars == <<wake_fd, wake, nl_sock>>
controlVars == <<handlers, joinable, starting>>
loopVars == <<pending, due, revents>>
kernelVars == <<kernel, events, overrun>>
snapshotVars == <<interfaces, got, told, unrecovered>>
vars == <<pc, status, dirty, stop, fdVars, controlVars, loopVars, kernelVars, snapshotVars>>

Threads == Users \cup {"monitor", "control"}
Lists == 0 .. MaxChanges + 1

\* The constructor has refreshed, or failed to.
Init ==
    /\ pc = [t \in Threads |-> IF t = "monitor" THEN "off" ELSE "idle"]
    /\ status = "kStopped" /\ dirty = FALSE /\ stop = FALSE
    /\ wake_fd = "none" /\ wake = FALSE /\ nl_sock = FALSE
    /\ handlers = FALSE /\ joinable = FALSE /\ starting = FALSE
    /\ pending = FALSE /\ due = FALSE /\ revents = {}
    /\ kernel = 1 /\ events = FALSE /\ overrun = FALSE
    /\ interfaces \in {0, 1} /\ got = [t \in Threads |-> 0]
    /\ told = FALSE /\ unrecovered = (interfaces = 0)

Moves(t, from, to) == pc[t] = from /\ pc' = [pc EXCEPT ![t] = to]
-----------------------------------------------------------------------------
\* wake_monitor holds fd_mutex_ from its test of wake_fd_ until it has written.
FdMutexFree == \A t \in Threads : pc[t] # "write"

\* Where wake_monitor returns to: request_refresh, the loop of the monitor
\* thread, start_monitor or the request_stop of stop_monitor.
AfterWake(t) ==
    CASE t \in Users -> "idle"
      [] t = "monitor" -> "top"
      [] t = "control" -> IF status = "kStarting" THEN "run" ELSE "join"

WakeTests(t) ==
    /\ FdMutexFree
    /\ Moves(t, "wake", IF wake_fd = "none" THEN AfterWake(t) ELSE "write")
    /\ UNCHANGED <<status, dirty, stop, fdVars, controlVars, loopVars, kernelVars, snapshotVars>>

WakeWrites(t) ==
    /\ Moves(t, "write", AfterWake(t))
    /\ wake' = (wake \/ wake_fd = "open")
    /\ UNCHANGED <<status, dirty, stop, wake_fd, nl_sock, controlVars, loopVars, kernelVars, snapshotVars>>

\* Mutant: start_monitor does not ask for the initial refresh.
MutantSetDirty(t) ==
    /\ Moves(t, "dirty", "wake")
    /\ dirty' = (dirty \/ t \in Users)
    /\ UNCHANGED <<status, stop, fdVars, controlVars, loopVars, kernelVars, snapshotVars>>

\* request_refresh and start_monitor mark the list dirty, then wake the monitor.
SetDirty(t) ==
    /\ Moves(t, "dirty", "wake")
    /\ dirty' = TRUE
    /\ UNCHANGED <<status, stop, fdVars, controlVars, loopVars, kernelVars, snapshotVars>>

request_refresh(u) ==
    /\ Moves(u, "idle", IF status = "kRunning" THEN "dirty" ELSE "lock")
    /\ UNCHANGED <<status, dirty, stop, fdVars, controlVars, loopVars, kernelVars, snapshotVars>>
-----------------------------------------------------------------------------
\* refresh_interface_list: reload_snapshot under refresh_mutex_, then notify_change.
RefreshMutexFree == \A t \in Threads : pc[t] # "publish"

\* Mutant: the monitor thread does not return to its loop.
MutantAfterRefresh(t) == "idle"

AfterRefresh(t) == IF t = "monitor" THEN "top" ELSE "idle"

\* Mutant: refreshes are not serialised.
MutantReadList(t) ==
    /\ Moves(t, "lock", "publish")
    /\ got' = [got EXCEPT ![t] = kernel]
    /\ UNCHANGED <<status, dirty, stop, fdVars, controlVars, loopVars, kernelVars, interfaces, told, unrecovered>>

ReadList(t) ==
    /\ RefreshMutexFree
    /\ Moves(t, "lock", "publish")
    /\ got' = [got EXCEPT ![t] = kernel]
    /\ UNCHANGED <<status, dirty, stop, fdVars, controlVars, loopVars, kernelVars, interfaces, told, unrecovered>>

\* There is no ioctl socket, or getifaddrs fails.
RefreshFails(t) ==
    /\ RefreshMutexFree
    /\ Moves(t, "lock", AfterRefresh(t))
    /\ unrecovered' = TRUE
    /\ UNCHANGED <<status, dirty, stop, fdVars, controlVars, loopVars, kernelVars, interfaces, got, told>>

Publish(t) ==
    /\ Moves(t, "publish", "notify")
    /\ interfaces' = got[t]
    /\ got' = [got EXCEPT ![t] = 0]
    /\ told' = FALSE /\ unrecovered' = FALSE
    /\ UNCHANGED <<status, dirty, stop, fdVars, controlVars, loopVars, kernelVars>>

\* notify_change copies the handler under handler_mutex_ and calls it without.
NotifyChange(t) ==
    /\ Moves(t, "notify", IF status = "kRunning" /\ handlers THEN "call" ELSE AfterRefresh(t))
    /\ UNCHANGED <<status, dirty, stop, fdVars, controlVars, loopVars, kernelVars, snapshotVars>>

CallHandler(t) ==
    /\ Moves(t, "call", AfterRefresh(t))
    /\ told' = TRUE
    /\ UNCHANGED <<status, dirty, stop, fdVars, controlVars, loopVars, kernelVars, interfaces, got, unrecovered>>
-----------------------------------------------------------------------------
\* monitor_loop.

\* Its stop_callback runs at once if the stop was requested before.
RegisterCallback ==
    /\ Moves("monitor", "start", IF stop THEN "wake" ELSE "top")
    /\ UNCHANGED <<status, dirty, stop, fdVars, controlVars, loopVars, kernelVars, snapshotVars>>

\* The thread's locals end with it.
LoopEnds(from) ==
    /\ Moves("monitor", from, "off")
    /\ pending' = FALSE /\ due' = FALSE /\ revents' = {}

\* stop_requested(), before and after the poll.
TestStop ==
    /\ \/ /\ stop
          /\ LoopEnds("top") \/ LoopEnds("polled")
       \/ /\ ~stop
          /\ Moves("monitor", "top", "poll") \/ Moves("monitor", "polled", "handle")
          /\ UNCHANGED loopVars
    /\ UNCHANGED <<status, dirty, stop, fdVars, controlVars, kernelVars, snapshotVars>>

\* A netlink socket that dropped a message reports POLLERR as well as POLLIN.
Ready ==
    {e \in {"wake", "nl", "err"} :
        CASE e = "wake" -> wake
          [] e = "nl" -> events \/ overrun
          [] e = "err" -> overrun}

\* Mutant: poll never times out.
MutantPoll ==
    /\ Ready # {}
    /\ Moves("monitor", "poll", "polled")
    /\ revents' = Ready
    /\ UNCHANGED <<status, dirty, stop, fdVars, controlVars, pending, due, kernelVars, snapshotVars>>

\* poll blocks until there is something, or the deadline of a pending refresh.
Poll ==
    /\ Ready # {} \/ (pending /\ due)
    /\ Moves("monitor", "poll", "polled")
    /\ revents' = Ready
    /\ UNCHANGED <<status, dirty, stop, fdVars, controlVars, pending, due, kernelVars, snapshotVars>>

PollFails ==
    /\ Moves("monitor", "poll", "fail")
    /\ UNCHANGED <<status, dirty, stop, fdVars, controlVars, loopVars, kernelVars, snapshotVars>>

DebounceElapses ==
    /\ pending /\ ~due
    /\ due' = TRUE
    /\ UNCHANGED <<pc, status, dirty, stop, fdVars, controlVars, pending, revents, kernelVars, snapshotVars>>

\* pending = true with a new deadline, if something changed.
Schedule(changed) ==
    /\ pending' = (pending \/ changed)
    /\ due' = (due /\ ~changed)

\* Mutant: the dirty mark is not looked at.
MutantDrainWake ==
    /\ "wake" \in revents
    /\ Moves("monitor", "handle", "handle")
    /\ wake' = FALSE
    /\ revents' = revents \ {"wake"}
    /\ UNCHANGED <<status, dirty, stop, wake_fd, nl_sock, controlVars, pending, due, kernelVars, snapshotVars>>

\* The wake-up is drained before the dirty mark is exchanged.
DrainWake ==
    /\ "wake" \in revents
    /\ Moves("monitor", "handle", "exchange")
    /\ wake' = FALSE
    /\ revents' = revents \ {"wake"}
    /\ UNCHANGED <<status, dirty, stop, wake_fd, nl_sock, controlVars, pending, due, kernelVars, snapshotVars>>

ExchangeDirty ==
    /\ Moves("monitor", "exchange", "handle")
    /\ dirty' = FALSE
    /\ Schedule(dirty)
    /\ UNCHANGED <<status, stop, fdVars, controlVars, revents, kernelVars, snapshotVars>>

\* POLLERR, POLLHUP and POLLNVAL are fatal, and looked at before POLLIN.
SocketFails ==
    /\ "wake" \notin revents /\ "err" \in revents
    /\ Moves("monitor", "handle", "fail")
    /\ UNCHANGED <<status, dirty, stop, fdVars, controlVars, loopVars, kernelVars, snapshotVars>>

\* Mutant: only a dropped message counts as a change.
MutantDrainNetlink ==
    /\ revents = {"nl"}
    /\ Moves("monitor", "handle", "handle")
    /\ revents' = {}
    /\ events' = FALSE /\ overrun' = FALSE /\ Schedule(overrun)
    /\ UNCHANGED <<status, dirty, stop, fdVars, controlVars, kernel, snapshotVars>>

\* drain_netlink receives until the socket is empty; a dropped or a truncated
\* message counts as a change.  It receives nothing unless the status is kRunning.
DrainNetlink ==
    /\ revents = {"nl"}
    /\ Moves("monitor", "handle", "handle")
    /\ revents' = {}
    /\ IF status = "kRunning"
       THEN events' = FALSE /\ overrun' = FALSE /\ Schedule(events \/ overrun)
       ELSE UNCHANGED <<events, overrun, pending, due>>
    /\ UNCHANGED <<status, dirty, stop, fdVars, controlVars, kernel, snapshotVars>>

\* recvmsg fails at once; the loop goes on.
ReceiveFails ==
    /\ revents = {"nl"}
    /\ Moves("monitor", "handle", "handle")
    /\ revents' = {}
    /\ UNCHANGED <<status, dirty, stop, fdVars, controlVars, pending, due, kernelVars, snapshotVars>>

\* pending is cleared, then the list is refreshed.
TestDeadline ==
    /\ revents = {}
    /\ Moves("monitor", "handle", IF pending /\ due THEN "lock" ELSE "top")
    /\ pending' = (pending /\ ~due) /\ due' = FALSE
    /\ UNCHANGED <<status, dirty, stop, fdVars, controlVars, revents, kernelVars, snapshotVars>>

\* The exchange of kRunning for kFailed fails if a stop is under way.
Fail ==
    /\ IF status = "kRunning"
       THEN /\ status' = "kFailed"
            /\ Moves("monitor", "fail", "report")
            /\ UNCHANGED loopVars
       ELSE LoopEnds("fail") /\ UNCHANGED status
    /\ UNCHANGED <<dirty, stop, fdVars, controlVars, kernelVars, snapshotVars>>

\* notify_failure
Report ==
    /\ LoopEnds("report")
    /\ UNCHANGED <<status, dirty, stop, fdVars, controlVars, kernelVars, snapshotVars>>
-----------------------------------------------------------------------------
\* start_monitor.  A failed monitor is cleaned up first.  If the status is
\* neither kStopped nor kFailed nothing happens.
start_monitor ==
    \/ /\ status = "kFailed"
       /\ Moves("control", "idle", "stop")
       /\ status' = "kStopping" /\ starting' = TRUE
       /\ UNCHANGED <<dirty, stop, fdVars, handlers, joinable, loopVars, kernelVars, snapshotVars>>
    \/ /\ status = "kStopped"
       /\ Moves("control", "idle", "eventfd")
       /\ status' = "kStarting"
       /\ UNCHANGED <<dirty, stop, fdVars, controlVars, loopVars, kernelVars, snapshotVars>>

OpenWakeFd ==
    /\ Moves("control", "eventfd", "netlink")
    /\ wake_fd' = "open" /\ wake' = FALSE
    /\ UNCHANGED <<status, dirty, stop, nl_sock, controlVars, loopVars, kernelVars, snapshotVars>>

WakeFdFails ==
    /\ Moves("control", "eventfd", "idle")
    /\ status' = "kStopped"
    /\ UNCHANGED <<dirty, stop, fdVars, controlVars, loopVars, kernelVars, snapshotVars>>

OpenNetlink ==
    /\ Moves("control", "netlink", "handlers")
    /\ nl_sock' = TRUE
    /\ UNCHANGED <<status, dirty, stop, wake_fd, wake, controlVars, loopVars, kernelVars, snapshotVars>>

\* close_fd(wake_fd_), here without fd_mutex_: the close, then the -1.
NetlinkFails ==
    /\ Moves("control", "netlink", "undo")
    /\ wake_fd' = "closed" /\ wake' = FALSE
    /\ UNCHANGED <<status, dirty, stop, nl_sock, controlVars, loopVars, kernelVars, snapshotVars>>

UndoStart ==
    /\ Moves("control", "undo", "idle")
    /\ wake_fd' = "none"
    /\ status' = "kStopped"
    /\ UNCHANGED <<dirty, stop, wake, nl_sock, controlVars, loopVars, kernelVars, snapshotVars>>

SetHandlers ==
    /\ Moves("control", "handlers", "dirty")
    /\ handlers' = TRUE
    /\ UNCHANGED <<status, dirty, stop, fdVars, joinable, starting, loopVars, kernelVars, snapshotVars>>

SetRunning ==
    /\ Moves("control", "run", "thread")
    /\ status' = "kRunning"
    /\ UNCHANGED <<dirty, stop, fdVars, controlVars, loopVars, kernelVars, snapshotVars>>

StartThread ==
    /\ pc["control"] = "thread"
    /\ pc' = [pc EXCEPT !["control"] = "idle", !["monitor"] = "start"]
    /\ joinable' = TRUE /\ stop' = FALSE
    /\ UNCHANGED <<status, dirty, fdVars, handlers, starting, loopVars, kernelVars, snapshotVars>>

ThreadFails ==
    /\ Moves("control", "thread", "stop")
    /\ status' = "kStopping"
    /\ UNCHANGED <<dirty, stop, fdVars, controlVars, loopVars, kernelVars, snapshotVars>>
-----------------------------------------------------------------------------
\* stop_monitor.  Nothing happens if the monitor is stopped already.
stop_monitor ==
    /\ status # "kStopped" \/ joinable
    /\ Moves("control", "idle", "stop")
    /\ status' = "kStopping"
    /\ UNCHANGED <<dirty, stop, fdVars, controlVars, loopVars, kernelVars, snapshotVars>>

\* Mutant: the monitor is not woken up.
MutantRequestStop ==
    /\ Moves("control", "stop", IF joinable THEN "join" ELSE "close")
    /\ stop' = (stop \/ joinable)
    /\ UNCHANGED <<status, dirty, fdVars, controlVars, loopVars, kernelVars, snapshotVars>>

\* request_stop runs the stop_callback of monitor_loop, if it is registered.
RequestStop ==
    /\ Moves("control", "stop",
             CASE ~joinable -> "close"
               [] joinable /\ pc["monitor"] \in {"off", "start"} -> "join"
               [] OTHER -> "wake")
    /\ stop' = (stop \/ joinable)
    /\ UNCHANGED <<status, dirty, fdVars, controlVars, loopVars, kernelVars, snapshotVars>>

\* Mutant: the thread is detached, not joined.
MutantJoin ==
    /\ Moves("control", "join", "close")
    /\ joinable' = FALSE
    /\ UNCHANGED <<status, dirty, stop, fdVars, handlers, starting, loopVars, kernelVars, snapshotVars>>

Join ==
    /\ pc["monitor"] = "off"
    /\ Moves("control", "join", "close")
    /\ joinable' = FALSE
    /\ UNCHANGED <<status, dirty, stop, fdVars, handlers, starting, loopVars, kernelVars, snapshotVars>>

CloseNetlink ==
    /\ Moves("control", "close", "close_wake")
    /\ nl_sock' = FALSE /\ events' = FALSE /\ overrun' = FALSE
    /\ UNCHANGED <<status, dirty, stop, wake_fd, wake, controlVars, loopVars, kernel, snapshotVars>>

CloseWakeFd ==
    /\ FdMutexFree
    /\ Moves("control", "close_wake", "clear")
    /\ wake_fd' = "none" /\ wake' = FALSE
    /\ UNCHANGED <<status, dirty, stop, nl_sock, controlVars, loopVars, kernelVars, snapshotVars>>

\* Then stop_monitor returns, or start_monitor goes on.
ClearHandlers ==
    /\ Moves("control", "clear", IF starting THEN "eventfd" ELSE "idle")
    /\ handlers' = FALSE
    /\ status' = IF starting THEN "kStarting" ELSE "kStopped"
    /\ starting' = FALSE
    /\ UNCHANGED <<dirty, stop, fdVars, joinable, loopVars, kernelVars, snapshotVars>>
-----------------------------------------------------------------------------
\* The kernel.  A change sends a message to an open socket, or finds its
\* buffer full.
KernelChanges ==
    /\ kernel <= MaxChanges
    /\ kernel' = kernel + 1
    /\ \/ events' = nl_sock /\ UNCHANGED overrun
       \/ events /\ overrun' = TRUE /\ UNCHANGED events
    /\ UNCHANGED <<pc, status, dirty, stop, fdVars, controlVars, loopVars, snapshotVars>>
-----------------------------------------------------------------------------
WakeSteps(t) == WakeTests(t) \/ WakeWrites(t)
RefreshSteps(t) == ReadList(t) \/ Publish(t) \/ NotifyChange(t) \/ CallHandler(t)

UserSteps(u) == SetDirty(u) \/ WakeSteps(u) \/ RefreshSteps(u)

MonitorSteps ==
    \/ RegisterCallback \/ TestStop \/ Poll \/ DrainWake \/ ExchangeDirty \/ SocketFails \/ DrainNetlink
    \/ TestDeadline \/ Fail \/ Report \/ WakeSteps("monitor") \/ RefreshSteps("monitor")

ControlSteps ==
    \/ OpenWakeFd \/ OpenNetlink \/ UndoStart \/ SetHandlers \/ SetDirty("control") \/ WakeSteps("control")
    \/ SetRunning \/ StartThread \/ RequestStop \/ Join \/ CloseNetlink \/ CloseWakeFd \/ ClearHandlers

Faults ==
    \/ \E t \in Threads : RefreshFails(t)
    \/ PollFails \/ ReceiveFails \/ WakeFdFails \/ NetlinkFails \/ ThreadFails

\* What users and the kernel do, when they like.
Inputs == start_monitor \/ stop_monitor \/ KernelChanges \/ \E u \in Users : request_refresh(u)

Next ==
    \/ \E u \in Users : UserSteps(u)
    \/ MonitorSteps \/ ControlSteps \/ DebounceElapses \/ Faults \/ Inputs

Spec == Init /\ [][Next]_vars

\* A thread that can run runs, one that waits for a mutex gets it, and time passes.
Fairness ==
    /\ \A u \in Users : SF_vars(UserSteps(u))
    /\ SF_vars(MonitorSteps)
    /\ SF_vars(ControlSteps)
    /\ WF_vars(DebounceElapses)

FairSpec == Spec /\ Fairness
-----------------------------------------------------------------------------
RefreshPlaces == {"lock", "publish", "notify", "call"}
UserPlaces == {"idle", "dirty", "wake", "write"} \cup RefreshPlaces
MonitorPlaces ==
    {"off", "start", "wake", "write", "top", "poll", "polled", "handle", "exchange", "fail", "report"} \cup RefreshPlaces
ControlPlaces ==
    {"idle", "eventfd", "netlink", "undo", "handlers", "dirty", "wake", "write", "run", "thread",
     "stop", "join", "close", "close_wake", "clear"}

\* Every thread stays in its own code.
PlacesOK ==
    /\ pc \in [Threads -> UserPlaces \cup MonitorPlaces \cup ControlPlaces]
    /\ \A u \in Users : pc[u] \in UserPlaces
    /\ pc["monitor"] \in MonitorPlaces /\ pc["control"] \in ControlPlaces

FlagsOK ==
    /\ dirty \in BOOLEAN /\ stop \in BOOLEAN /\ wake \in BOOLEAN /\ nl_sock \in BOOLEAN
    /\ handlers \in BOOLEAN /\ joinable \in BOOLEAN /\ starting \in BOOLEAN
    /\ pending \in BOOLEAN /\ due \in BOOLEAN /\ events \in BOOLEAN /\ overrun \in BOOLEAN
    /\ told \in BOOLEAN /\ unrecovered \in BOOLEAN

\* Every variable has its type, and every thread stays in its own code: the calls
\* it shares with others return to where they were made (interface_loader.cpp:260-288, :477-483).
LoaderTypeOK ==
    /\ PlacesOK /\ FlagsOK
    /\ status \in {"kStopped", "kStarting", "kRunning", "kStopping", "kFailed"}
    /\ wake_fd \in {"none", "open", "closed"}
    /\ revents \in SUBSET {"wake", "nl", "err"}
    /\ kernel \in Lists /\ interfaces \in Lists /\ got \in [Threads -> Lists]

\* The monitor is going to read the list, or to give up.
MonitorWillRead == dirty \/ pending \/ pc["monitor"] \in {"lock", "fail"}

\* No change of the interfaces is missed: while the status is kRunning and the
\* snapshot is not the kernel's list, a message waits, the monitor is going to
\* read, or the list is about to be published, unless the last refresh failed:
\* then nothing is retried (interface_loader.cpp:210-212, :399-426).
StaleIsNoticed ==
    status = "kRunning" /\ interfaces # kernel =>
        \/ events \/ overrun \/ MonitorWillRead \/ unrecovered
        \/ \E t \in Threads : pc[t] = "publish" /\ got[t] = kernel

\* No request is missed: while the monitor polls, a dirty mark comes with a
\* wake-up that is pending or on its way (:260-288, :399-406).
RequestIsNoticed ==
    status = "kRunning" /\ dirty =>
        \/ wake
        \/ pc["monitor"] = "exchange"
        \/ \E t \in Threads \ {"monitor"} : pc[t] \in {"wake", "write"}

\* A refresh that finishes late does not overwrite a newer snapshot (:486-488).
SnapshotNeverOlder == [][interfaces' >= interfaces]_vars

\* The change handler hears of every snapshot: while the status is kRunning, the
\* current one has been announced, is being announced, or will be replaced
\* (:436-456, :477-483).
ChangeIsTold ==
    status = "kRunning" /\ ~told =>
        \/ MonitorWillRead \/ unrecovered
        \/ \E t \in Threads : pc[t] \in {"publish", "notify", "call"}

\* The descriptors live as long as the thread and no longer: the monitor thread polls
\* and reads descriptors that are open (:384-385, :273-279), and when no start or stop
\* is running a stopped monitor has no thread, holds no descriptor and keeps no
\* handler, whichever step of start_monitor failed (:179-254).
DescriptorsMatchThread ==
    /\ pc["monitor"] # "off" => nl_sock /\ wake_fd = "open"
    /\ status = "kStopped" /\ pc["control"] = "idle" =>
        pc["monitor"] = "off" /\ ~joinable /\ wake_fd = "none" /\ ~nl_sock /\ ~handlers

\* stop_monitor returns: the monitor thread, wherever it is, is woken up and
\* ends (:230-254, :366-368).
StopReturns == pc["control"] = "stop" ~> pc["control"] \in {"idle", "eventfd"}

\* If from some point on nothing changes, nobody asks and nothing fails, a
\* running monitor has, from some point on, the kernel's list, unless the last
\* refresh failed (:366-434).
EventuallyFresh ==
    <>[][~(Inputs \/ Faults)]_vars =>
        <>[](status # "kRunning" \/ interfaces = kernel \/ unrecovered)

\* request_refresh may be called from any thread (interface_loader.h:137): it
\* never writes to a descriptor that has been closed (:260-271).
WakeHitsOpenFd == \A t \in Threads : pc[t] = "write" => wake_fd = "open"

\* A dropped netlink message leads to a full resynchronisation, after which the
\* snapshot is the kernel's list (:316-323).
OverrunResyncs == overrun ~> interfaces = kernel
=============================================================================
