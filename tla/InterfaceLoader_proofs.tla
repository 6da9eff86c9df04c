----------------------- MODULE InterfaceLoader_proofs -----------------------
(***************************************************************************)
(* Proofs about module InterfaceLoader, for any number of API threads and  *)
(* any number of changes of the interfaces.                                *)
(*                                                                         *)
(* NoticeInv is inductive.  That no change is missed is not inductive by   *)
(* itself: it rests on what start_monitor and stop_monitor have done where *)
(* they are (Lifetime), on refresh_mutex_ (OneRefresh) and on a list that  *)
(* is outdated before it is published being noticed too (LateIsNoticed).   *)
(***************************************************************************)
EXTENDS InterfaceLoader, TLAPS

\* What start_monitor and stop_monitor have done where they are.
At(places) == pc["control"] \in places
Stopped == pc["control"] = "idle" /\ status = "kStopped"

\* The status tells how far they are; only the monitor thread exchanges it besides them.
StatusOK ==
    /\ At({"idle"}) => status \in {"kStopped", "kRunning", "kFailed"}
    /\ At({"eventfd", "netlink", "undo", "handlers", "dirty", "run"}) => status = "kStarting"
    /\ At({"wake", "write"}) => status \in {"kStarting", "kStopping"}
    /\ At({"thread"}) => status = "kRunning"
    /\ At({"stop", "join", "close", "close_wake", "clear"}) => status = "kStopping"
    /\ starting => status = "kStopping"

\* The monitor thread runs only while it can be joined, and is told to stop only by a
\* stop_monitor that waits for it.
ThreadOK ==
    /\ ~joinable => pc["monitor"] = "off"
    /\ joinable => At({"idle", "stop", "wake", "write", "join"})
    /\ joinable => status \in {"kRunning", "kFailed", "kStopping"}
    /\ At({"idle"}) => (joinable <=> status # "kStopped")
    /\ At({"wake", "write", "join"}) /\ status = "kStopping" => joinable
    /\ joinable /\ status = "kRunning" => ~stop /\ pc["monitor"] \notin {"off", "report"}
    /\ joinable /\ stop => status = "kStopping"

\* Which descriptors are open, and whether the handlers are set.
DescriptorsOK ==
    /\ wake_fd = IF Stopped \/ At({"eventfd", "clear"}) THEN "none" ELSE IF At({"undo"}) THEN "closed" ELSE "open"
    /\ (nl_sock <=> ~(Stopped \/ At({"eventfd", "netlink", "undo", "close_wake", "clear"})))
    /\ (handlers <=> ~(Stopped \/ At({"eventfd", "netlink", "undo", "handlers"})))
    /\ events \/ overrun => nl_sock

\* start_monitor has asked for the first refresh before the status becomes kRunning,
\* and the wake-up for it waits in the eventfd.
FirstRefresh ==
    /\ At({"wake", "write", "run", "thread"}) /\ status # "kStopping" => dirty
    /\ At({"run", "thread"}) => wake

\* The life of the monitor.
Lifetime == StatusOK /\ ThreadOK /\ DescriptorsOK /\ FirstRefresh

\* refresh_mutex_: one refresh at a time, and what it has read is no older than the snapshot.
OneRefresh ==
    /\ \A t, u \in Threads : pc[t] = "publish" /\ pc[u] = "publish" => t = u
    /\ \A t \in Threads : pc[t] = "publish" => interfaces <= got[t] /\ got[t] <= kernel
    /\ interfaces <= kernel

\* The monitor has a reason to read the list again.
Noticed == events \/ overrun \/ MonitorWillRead

\* It has one when a list is outdated before it is published.
LateIsNoticed ==
    status = "kRunning" => \A t \in Threads : pc[t] = "publish" /\ got[t] # kernel => Noticed

\* The inductive invariant.
NoticeInv ==
    /\ LoaderTypeOK /\ Lifetime /\ OneRefresh
    /\ LateIsNoticed /\ StaleIsNoticed /\ RequestIsNoticed /\ ChangeIsTold
-----------------------------------------------------------------------------
\* The calls that the threads share, and the steps of one thread alone.
SharedSteps(t) ==
    SetDirty(t) \/ WakeTests(t) \/ WakeWrites(t) \/ ReadList(t) \/ RefreshFails(t) \/ Publish(t)
    \/ NotifyChange(t) \/ CallHandler(t)
LoopSteps ==
    RegisterCallback \/ TestStop \/ Poll \/ PollFails \/ DrainWake \/ ExchangeDirty \/ SocketFails \/ DrainNetlink
    \/ ReceiveFails \/ TestDeadline \/ Fail \/ Report
StartSteps ==
    start_monitor \/ OpenWakeFd \/ WakeFdFails \/ OpenNetlink \/ NetlinkFails \/ UndoStart \/ SetHandlers
    \/ SetRunning \/ StartThread \/ ThreadFails
StopSteps == stop_monitor \/ RequestStop \/ Join \/ CloseNetlink \/ CloseWakeFd \/ ClearHandlers

\* Every step is one of these, or a step of the clock or the kernel.
LEMMA StepKinds ==
    ASSUME Next
    PROVE  \/ \E t \in Threads : SharedSteps(t)
           \/ \E u \in Users : request_refresh(u)
           \/ LoopSteps \/ StartSteps \/ StopSteps \/ DebounceElapses \/ KernelChanges
BY Zenon DEF Next, UserSteps, MonitorSteps, ControlSteps, Faults, Inputs, WakeSteps, RefreshSteps, Threads, SharedSteps,
       LoopSteps, StartSteps, StopSteps

\* The Boolean variables of the loader.
flagVars ==
    <<dirty, stop, wake, nl_sock, handlers, joinable, starting, pending, due, events, overrun, told, unrecovered>>

\* They stay Boolean.
LEMMA FlagsStep == FlagsOK /\ [Next]_vars => FlagsOK'
<1> SUFFICES ASSUME FlagsOK PROVE [Next]_vars => FlagsOK'
    OBVIOUS
<1> USE ZenonT(30) DEF FlagsOK, fdVars, controlVars, loopVars, kernelVars, snapshotVars
<1>1. CASE UNCHANGED flagVars
    BY <1>1 DEF flagVars
<1>2. ASSUME NEW t \in Threads
      PROVE  SharedSteps(t) => FlagsOK'
  <2>1. CASE SetDirty(t)
    BY <2>1 DEF SetDirty
  <2>2. CASE WakeWrites(t)
    BY <2>2 DEF WakeWrites
  <2>3. CASE RefreshFails(t)
    BY <2>3 DEF RefreshFails
  <2>4. CASE Publish(t)
    BY <2>4 DEF Publish
  <2>5. CASE CallHandler(t)
    BY <2>5 DEF CallHandler
  <2>6. CASE WakeTests(t) \/ ReadList(t) \/ NotifyChange(t)
    BY <1>1, <2>6 DEF WakeTests, ReadList, NotifyChange, flagVars
  <2>. QED
    BY <2>1, <2>2, <2>3, <2>4, <2>5, <2>6 DEF SharedSteps
<1>3. ASSUME NEW u \in Users, request_refresh(u)
      PROVE  FlagsOK'
    BY <1>3, SMT DEF request_refresh
<1>4. CASE LoopSteps
  <2>1. CASE DrainWake
    BY <2>1 DEF DrainWake, Schedule, LoopEnds
  <2>2. CASE ExchangeDirty
    BY <2>2 DEF ExchangeDirty, Schedule, LoopEnds
  <2>3. CASE TestDeadline
    BY <2>3 DEF TestDeadline, Schedule, LoopEnds
  <2>4. CASE Report
    BY <2>4 DEF Report, Schedule, LoopEnds
  <2>5. CASE TestStop
    <3>1. CASE stop
      BY <2>5, <3>1 DEF TestStop, Schedule, LoopEnds
    <3>2. CASE ~stop
      BY <2>5, <3>2 DEF TestStop, Schedule, LoopEnds
    <3>. QED
      BY <2>5, <3>1, <3>2 DEF TestStop
  <2>6. CASE DrainNetlink
    <3>1. CASE status = "kRunning"
      BY <2>6, <3>1 DEF DrainNetlink, Schedule, LoopEnds
    <3>2. CASE status # "kRunning"
      BY <2>6, <3>2 DEF DrainNetlink, Schedule, LoopEnds
    <3>. QED
      BY <2>6, <3>1, <3>2 DEF DrainNetlink
  <2>7. CASE Fail
    <3>1. CASE status = "kRunning"
      BY <2>7, <3>1 DEF Fail, Schedule, LoopEnds
    <3>2. CASE status # "kRunning"
      BY <2>7, <3>2 DEF Fail, Schedule, LoopEnds
    <3>. QED
      BY <2>7, <3>1, <3>2 DEF Fail
  <2>8. CASE RegisterCallback \/ Poll \/ PollFails \/ SocketFails \/ ReceiveFails
    BY <1>1, <2>8 DEF RegisterCallback, Poll, PollFails, SocketFails, ReceiveFails, flagVars
  <2>. QED
    BY <1>4, <2>1, <2>2, <2>3, <2>4, <2>5, <2>6, <2>7, <2>8 DEF LoopSteps
<1>5. CASE StartSteps
  <2>1. CASE OpenWakeFd
    BY <2>1 DEF OpenWakeFd
  <2>2. CASE OpenNetlink
    BY <2>2 DEF OpenNetlink
  <2>3. CASE NetlinkFails
    BY <2>3 DEF NetlinkFails
  <2>4. CASE SetHandlers
    BY <2>4 DEF SetHandlers
  <2>5. CASE StartThread
    BY <2>5 DEF StartThread
  <2>6. CASE start_monitor
    <3>1. CASE status = "kFailed"
      BY <2>6, <3>1 DEF start_monitor
    <3>2. CASE status # "kFailed"
      BY <2>6, <3>2 DEF start_monitor
    <3>. QED
      BY <2>6, <3>1, <3>2 DEF start_monitor
  <2>7. CASE WakeFdFails \/ UndoStart \/ SetRunning \/ ThreadFails
    BY <1>1, <2>7 DEF WakeFdFails, UndoStart, SetRunning, ThreadFails, flagVars
  <2>. QED
    BY <1>5, <2>1, <2>2, <2>3, <2>4, <2>5, <2>6, <2>7 DEF StartSteps
<1>6. CASE StopSteps
  <2>1. CASE RequestStop
    BY <2>1 DEF RequestStop
  <2>2. CASE Join
    BY <2>2 DEF Join
  <2>3. CASE CloseNetlink
    BY <2>3 DEF CloseNetlink
  <2>4. CASE CloseWakeFd
    BY <2>4 DEF CloseWakeFd
  <2>5. CASE ClearHandlers
    BY <2>5 DEF ClearHandlers
  <2>6. CASE stop_monitor
    BY <1>1, <2>6 DEF stop_monitor, flagVars
  <2>. QED
    BY <1>6, <2>1, <2>2, <2>3, <2>4, <2>5, <2>6 DEF StopSteps
<1>7. CASE DebounceElapses
    BY <1>7 DEF DebounceElapses
<1>8. CASE KernelChanges
  <2>1. CASE events' = nl_sock /\ UNCHANGED overrun
    BY <1>8, <2>1 DEF KernelChanges
  <2>2. CASE overrun' = TRUE /\ UNCHANGED events
    BY <1>8, <2>2 DEF KernelChanges
  <2>. QED
    BY <1>8, <2>1, <2>2 DEF KernelChanges
<1>. QED
    BY <1>1, <1>2, <1>3, <1>4, <1>5, <1>6, <1>7, <1>8, StepKinds DEF vars, flagVars

\* Every thread stays within its own code.
LEMMA PlacesStep == PlacesOK /\ [Next]_vars => PlacesOK'
<1> SUFFICES ASSUME PlacesOK PROVE [Next]_vars => PlacesOK'
    OBVIOUS
<1> USE LoaderAssumption
    DEF PlacesOK, Threads, RefreshPlaces, UserPlaces, MonitorPlaces, ControlPlaces, Moves,
        fdVars, controlVars, loopVars, kernelVars, snapshotVars
<1>1. ASSUME NEW t \in Threads, SetDirty(t) \/ WakeTests(t) \/ WakeWrites(t)
      PROVE PlacesOK'
    BY <1>1 DEF SetDirty, WakeTests, WakeWrites, AfterWake
<1>2. ASSUME NEW t \in Threads, ReadList(t) \/ RefreshFails(t) \/ Publish(t) \/ NotifyChange(t) \/ CallHandler(t)
      PROVE PlacesOK'
    BY <1>2 DEF ReadList, RefreshFails, Publish, NotifyChange, CallHandler, AfterRefresh
<1>3. ASSUME NEW u \in Users, request_refresh(u)
      PROVE PlacesOK'
    BY <1>3 DEF request_refresh
<1>4. CASE LoopSteps
  <2>1. CASE TestStop \/ Fail \/ Report
    BY <2>1 DEF TestStop, Fail, Report, LoopEnds
  <2>2. CASE RegisterCallback \/ Poll \/ PollFails \/ SocketFails \/ TestDeadline
    BY <2>2 DEF RegisterCallback, Poll, PollFails, SocketFails, TestDeadline
  <2>3. CASE DrainWake \/ ExchangeDirty \/ DrainNetlink \/ ReceiveFails
    BY <2>3 DEF DrainWake, ExchangeDirty, DrainNetlink, ReceiveFails
  <2>. QED
    BY <1>4, <2>1, <2>2, <2>3, Zenon DEF LoopSteps
<1>5. CASE StartSteps
    BY <1>5 DEF StartSteps, start_monitor, OpenWakeFd, WakeFdFails, OpenNetlink, NetlinkFails, UndoStart, SetHandlers,
       SetRunning, StartThread, ThreadFails
<1>6. CASE StopSteps
    BY <1>6 DEF StopSteps, stop_monitor, RequestStop, Join, CloseNetlink, CloseWakeFd, ClearHandlers
<1>7. CASE DebounceElapses \/ KernelChanges
    BY <1>7 DEF DebounceElapses, KernelChanges
<1>8. CASE UNCHANGED vars
    BY <1>8 DEF vars
<1>. QED
    BY <1>1, <1>2, <1>3, <1>4, <1>5, <1>6, <1>7, <1>8, StepKinds, Zenon DEF SharedSteps

\* start_monitor, stop_monitor and a monitor thread that fails agree on the status,
\* the thread and the descriptors at every step.
LEMMA LifetimeStep == PlacesOK /\ Lifetime /\ [Next]_vars => Lifetime'
<1> SUFFICES ASSUME PlacesOK, Lifetime PROVE [Next]_vars => Lifetime'
    OBVIOUS
<1> USE LoaderAssumption
    DEF PlacesOK, Threads, UserPlaces, MonitorPlaces, ControlPlaces, RefreshPlaces, Moves,
        Lifetime, StatusOK, ThreadOK, DescriptorsOK, FirstRefresh, At, Stopped,
        fdVars, controlVars, loopVars, kernelVars, snapshotVars
<1>1. ASSUME NEW t \in Threads, SetDirty(t)
      PROVE  Lifetime'
    BY <1>1 DEF SetDirty
<1>2. ASSUME NEW t \in Threads, WakeTests(t)
      PROVE  Lifetime'
    BY <1>2 DEF WakeTests, AfterWake
<1>3. ASSUME NEW t \in Threads, WakeWrites(t)
      PROVE  Lifetime'
    BY <1>3, ZenonT(30) DEF WakeWrites, AfterWake
<1>4. ASSUME NEW t \in Threads, ReadList(t) \/ RefreshFails(t) \/ Publish(t) \/ NotifyChange(t) \/ CallHandler(t)
      PROVE  Lifetime'
    BY <1>4 DEF ReadList, RefreshFails, Publish, NotifyChange, CallHandler, AfterRefresh
<1>5. ASSUME NEW u \in Users, request_refresh(u)
      PROVE  Lifetime'
    BY <1>5 DEF request_refresh
<1>6. CASE LoopSteps
  <2>1. CASE TestStop \/ Fail \/ Report
    BY <2>1 DEF TestStop, Fail, Report, LoopEnds
  <2>2. CASE RegisterCallback \/ Poll \/ PollFails \/ SocketFails \/ TestDeadline
    BY <2>2 DEF RegisterCallback, Poll, PollFails, SocketFails, TestDeadline
  <2>3. CASE DrainWake \/ ExchangeDirty \/ ReceiveFails
    BY <2>3 DEF DrainWake, ExchangeDirty, ReceiveFails
  <2>4. CASE DrainNetlink
    BY <2>4 DEF DrainNetlink
  <2>. QED
    BY <1>6, <2>1, <2>2, <2>3, <2>4, Zenon DEF LoopSteps
<1>7. CASE StartSteps
  <2>1. CASE start_monitor \/ OpenWakeFd \/ WakeFdFails \/ OpenNetlink \/ NetlinkFails \/ UndoStart \/ SetHandlers
    BY <2>1 DEF start_monitor, OpenWakeFd, WakeFdFails, OpenNetlink, NetlinkFails, UndoStart, SetHandlers
  <2>2. CASE SetRunning \/ StartThread \/ ThreadFails
    BY <2>2 DEF SetRunning, StartThread, ThreadFails
  <2>. QED
    BY <1>7, <2>1, <2>2, Zenon DEF StartSteps
<1>8. CASE StopSteps
    BY <1>8 DEF StopSteps, stop_monitor, RequestStop, Join, CloseNetlink, CloseWakeFd, ClearHandlers
<1>9. CASE DebounceElapses \/ KernelChanges
    BY <1>9 DEF DebounceElapses, KernelChanges
<1>10. CASE UNCHANGED vars
    BY <1>10 DEF vars
<1>. QED
    BY <1>1, <1>2, <1>3, <1>4, <1>5, <1>6, <1>7, <1>8, <1>9, <1>10, StepKinds, Zenon DEF SharedSteps

\* A refresh reads and publishes under refresh_mutex_.
LEMMA OneRefreshStep == LoaderTypeOK /\ OneRefresh /\ [Next]_vars => OneRefresh'
<1> SUFFICES ASSUME LoaderTypeOK, OneRefresh PROVE [Next]_vars => OneRefresh'
    OBVIOUS
<1> USE LoaderAssumption
    DEF LoaderTypeOK, PlacesOK, Threads, Lists, Moves, OneRefresh, fdVars, controlVars, loopVars, kernelVars, snapshotVars
<1>1. ASSUME NEW t \in Threads, SetDirty(t)
      PROVE  OneRefresh'
    BY <1>1 DEF SetDirty
<1>2. ASSUME NEW t \in Threads, WakeTests(t)
      PROVE  OneRefresh'
    BY <1>2 DEF WakeTests, AfterWake
<1>3. ASSUME NEW t \in Threads, WakeWrites(t)
      PROVE  OneRefresh'
    BY <1>3 DEF WakeWrites, AfterWake
<1>4. ASSUME NEW t \in Threads,
             ReadList(t) \/ RefreshFails(t) \/ Publish(t) \/ NotifyChange(t) \/ CallHandler(t)
      PROVE  OneRefresh'
  <2>1. CASE ReadList(t)
    BY <2>1 DEF ReadList, RefreshMutexFree
  <2>2. CASE RefreshFails(t) \/ NotifyChange(t) \/ CallHandler(t)
    BY <2>2 DEF RefreshFails, NotifyChange, CallHandler, AfterRefresh, RefreshMutexFree
  <2>3. CASE Publish(t)
    BY <2>3 DEF Publish
  <2>. QED
    BY <1>4, <2>1, <2>2, <2>3
<1>5. ASSUME NEW u \in Users, request_refresh(u)
      PROVE  OneRefresh'
    BY <1>5 DEF request_refresh
<1>6. CASE LoopSteps
  <2>1. CASE TestStop \/ Fail \/ Report
    BY <2>1 DEF TestStop, Fail, Report, LoopEnds
  <2>2. CASE RegisterCallback \/ Poll \/ PollFails \/ SocketFails \/ TestDeadline
    BY <2>2 DEF RegisterCallback, Poll, PollFails, SocketFails, TestDeadline
  <2>3. CASE DrainWake \/ ExchangeDirty \/ ReceiveFails
    BY <2>3 DEF DrainWake, ExchangeDirty, ReceiveFails
  <2>4. CASE DrainNetlink
    BY <2>4 DEF DrainNetlink
  <2>. QED
    BY <1>6, <2>1, <2>2, <2>3, <2>4, Zenon DEF LoopSteps
<1>7. CASE StartSteps
  <2>1. CASE start_monitor \/ OpenWakeFd \/ WakeFdFails \/ OpenNetlink \/ NetlinkFails \/ UndoStart \/ SetHandlers
    BY <2>1 DEF start_monitor, OpenWakeFd, WakeFdFails, OpenNetlink, NetlinkFails, UndoStart, SetHandlers
  <2>2. CASE SetRunning \/ StartThread \/ ThreadFails
    BY <2>2 DEF SetRunning, StartThread, ThreadFails
  <2>. QED
    BY <1>7, <2>1, <2>2, Zenon DEF StartSteps
<1>8. CASE StopSteps
    BY <1>8 DEF StopSteps, stop_monitor, RequestStop, Join, CloseNetlink, CloseWakeFd, ClearHandlers
<1>9. CASE DebounceElapses \/ KernelChanges
    BY <1>9 DEF DebounceElapses, KernelChanges
<1>10. CASE UNCHANGED vars
    BY <1>10 DEF vars
<1>. QED
    BY <1>1, <1>2, <1>3, <1>4, <1>5, <1>6, <1>7, <1>8, <1>9, <1>10, StepKinds, Zenon DEF SharedSteps

\* The kernel's message comes after the change it tells of, and the mark of a request
\* is taken before the list is read.
LEMMA LateStep == LoaderTypeOK /\ Lifetime /\ OneRefresh /\ LateIsNoticed /\ [Next]_vars => LateIsNoticed'
<1> SUFFICES ASSUME LoaderTypeOK, Lifetime, OneRefresh, LateIsNoticed PROVE [Next]_vars => LateIsNoticed'
    OBVIOUS
<1> USE LoaderAssumption
    DEF LoaderTypeOK, PlacesOK, FlagsOK, Threads, Lists, Moves, UserPlaces, MonitorPlaces, ControlPlaces, RefreshPlaces,
        Lifetime, StatusOK, ThreadOK, DescriptorsOK, FirstRefresh, At, Stopped, MonitorWillRead, Schedule,
        LateIsNoticed, Noticed, OneRefresh,
        fdVars, controlVars, loopVars, kernelVars, snapshotVars
<1>1. ASSUME NEW t \in Threads, SetDirty(t)
      PROVE  LateIsNoticed'
    BY <1>1 DEF SetDirty
<1>2. ASSUME NEW t \in Threads, WakeTests(t)
      PROVE  LateIsNoticed'
    BY <1>2 DEF WakeTests, AfterWake
<1>3. ASSUME NEW t \in Threads, WakeWrites(t)
      PROVE  LateIsNoticed'
    BY <1>3 DEF WakeWrites, AfterWake
<1>4. ASSUME NEW t \in Threads,
             ReadList(t) \/ RefreshFails(t) \/ Publish(t) \/ NotifyChange(t) \/ CallHandler(t)
      PROVE  LateIsNoticed'
  <2>1. CASE ReadList(t)
    BY <2>1 DEF ReadList, RefreshMutexFree
  <2>2. CASE RefreshFails(t) \/ NotifyChange(t) \/ CallHandler(t)
    BY <2>2 DEF RefreshFails, NotifyChange, CallHandler, AfterRefresh, RefreshMutexFree
  <2>3. CASE Publish(t)
    BY <2>3 DEF Publish
  <2>. QED
    BY <1>4, <2>1, <2>2, <2>3
<1>5. ASSUME NEW u \in Users, request_refresh(u)
      PROVE  LateIsNoticed'
    BY <1>5 DEF request_refresh
<1>6. CASE LoopSteps
  <2>1. CASE TestStop \/ Fail \/ Report
    BY <2>1 DEF TestStop, Fail, Report, LoopEnds
  <2>2. CASE RegisterCallback \/ Poll \/ PollFails \/ SocketFails \/ TestDeadline
    BY <2>2 DEF RegisterCallback, Poll, PollFails, SocketFails, TestDeadline
  <2>3. CASE DrainWake \/ ExchangeDirty \/ ReceiveFails
    BY <2>3 DEF DrainWake, ExchangeDirty, ReceiveFails
  <2>4. CASE DrainNetlink
    BY <2>4 DEF DrainNetlink
  <2>. QED
    BY <1>6, <2>1, <2>2, <2>3, <2>4, Zenon DEF LoopSteps
<1>7. CASE StartSteps
  <2>1. CASE start_monitor \/ OpenWakeFd \/ WakeFdFails \/ OpenNetlink \/ NetlinkFails \/ UndoStart \/ SetHandlers
    BY <2>1 DEF start_monitor, OpenWakeFd, WakeFdFails, OpenNetlink, NetlinkFails, UndoStart, SetHandlers
  <2>2. CASE SetRunning \/ StartThread \/ ThreadFails
    BY <2>2 DEF SetRunning, StartThread, ThreadFails
  <2>. QED
    BY <1>7, <2>1, <2>2, Zenon DEF StartSteps
<1>8. CASE StopSteps
    BY <1>8 DEF StopSteps, stop_monitor, RequestStop, Join, CloseNetlink, CloseWakeFd, ClearHandlers
<1>9. CASE DebounceElapses \/ KernelChanges
    BY <1>9 DEF DebounceElapses, KernelChanges
<1>10. CASE UNCHANGED vars
    BY <1>10 DEF vars
<1>. QED
    BY <1>1, <1>2, <1>3, <1>4, <1>5, <1>6, <1>7, <1>8, <1>9, <1>10, StepKinds, Zenon DEF SharedSteps

\* So a published list that is outdated is noticed.
LEMMA StaleStep ==
    LoaderTypeOK /\ Lifetime /\ OneRefresh /\ LateIsNoticed /\ StaleIsNoticed /\ [Next]_vars => StaleIsNoticed'
<1> SUFFICES ASSUME LoaderTypeOK, Lifetime, OneRefresh, LateIsNoticed, StaleIsNoticed PROVE [Next]_vars => StaleIsNoticed'
    OBVIOUS
<1> USE LoaderAssumption
    DEF LoaderTypeOK, PlacesOK, FlagsOK, Threads, Lists, Moves, UserPlaces, MonitorPlaces, ControlPlaces, RefreshPlaces,
        Lifetime, StatusOK, ThreadOK, DescriptorsOK, FirstRefresh, At, Stopped, MonitorWillRead, Schedule,
        StaleIsNoticed, Noticed, OneRefresh, LateIsNoticed,
        fdVars, controlVars, loopVars, kernelVars, snapshotVars
<1>1. ASSUME NEW t \in Threads, SetDirty(t)
      PROVE  StaleIsNoticed'
    BY <1>1 DEF SetDirty
<1>2. ASSUME NEW t \in Threads, WakeTests(t)
      PROVE  StaleIsNoticed'
    BY <1>2 DEF WakeTests, AfterWake
<1>3. ASSUME NEW t \in Threads, WakeWrites(t)
      PROVE  StaleIsNoticed'
    BY <1>3 DEF WakeWrites, AfterWake
<1>4. ASSUME NEW t \in Threads, ReadList(t) \/ RefreshFails(t) \/ Publish(t) \/ NotifyChange(t) \/ CallHandler(t)
      PROVE  StaleIsNoticed'
    BY <1>4 DEF ReadList, RefreshFails, Publish, NotifyChange, CallHandler, AfterRefresh
<1>5. ASSUME NEW u \in Users, request_refresh(u)
      PROVE  StaleIsNoticed'
    BY <1>5 DEF request_refresh
<1>6. CASE LoopSteps
  <2>1. CASE TestStop \/ Fail \/ Report
    BY <2>1 DEF TestStop, Fail, Report, LoopEnds
  <2>2. CASE RegisterCallback \/ Poll \/ PollFails \/ SocketFails \/ TestDeadline
    BY <2>2 DEF RegisterCallback, Poll, PollFails, SocketFails, TestDeadline
  <2>3. CASE DrainWake \/ ExchangeDirty \/ ReceiveFails
    BY <2>3 DEF DrainWake, ExchangeDirty, ReceiveFails
  <2>4. CASE DrainNetlink
    BY <2>4 DEF DrainNetlink
  <2>. QED
    BY <1>6, <2>1, <2>2, <2>3, <2>4, Zenon DEF LoopSteps
<1>7. CASE StartSteps
  <2>1. CASE start_monitor \/ OpenWakeFd \/ WakeFdFails \/ OpenNetlink \/ NetlinkFails \/ UndoStart \/ SetHandlers
    BY <2>1 DEF start_monitor, OpenWakeFd, WakeFdFails, OpenNetlink, NetlinkFails, UndoStart, SetHandlers
  <2>2. CASE SetRunning \/ StartThread \/ ThreadFails
    BY <2>2 DEF SetRunning, StartThread, ThreadFails
  <2>. QED
    BY <1>7, <2>1, <2>2, Zenon DEF StartSteps
<1>8. CASE StopSteps
    BY <1>8 DEF StopSteps, stop_monitor, RequestStop, Join, CloseNetlink, CloseWakeFd, ClearHandlers
<1>9. CASE DebounceElapses \/ KernelChanges
    BY <1>9 DEF DebounceElapses, KernelChanges
<1>10. CASE UNCHANGED vars
    BY <1>10 DEF vars
<1>. QED
    BY <1>1, <1>2, <1>3, <1>4, <1>5, <1>6, <1>7, <1>8, <1>9, <1>10, StepKinds, Zenon DEF SharedSteps

\* A mark that has just been set comes with a wake-up; the monitor takes the wake-up
\* before it takes the mark.
LEMMA RequestStep == LoaderTypeOK /\ Lifetime /\ RequestIsNoticed /\ [Next]_vars => RequestIsNoticed'
<1> SUFFICES ASSUME LoaderTypeOK, Lifetime, RequestIsNoticed PROVE [Next]_vars => RequestIsNoticed'
    OBVIOUS
<1> USE LoaderAssumption
    DEF LoaderTypeOK, PlacesOK, FlagsOK, Threads, Lists, Moves, UserPlaces, MonitorPlaces, ControlPlaces, RefreshPlaces,
        Lifetime, StatusOK, ThreadOK, DescriptorsOK, FirstRefresh, At, Stopped, MonitorWillRead, Schedule, RequestIsNoticed,
        fdVars, controlVars, loopVars, kernelVars, snapshotVars
<1>1. ASSUME NEW t \in Threads, SetDirty(t)
      PROVE  RequestIsNoticed'
    BY <1>1 DEF SetDirty
<1>2. ASSUME NEW t \in Threads, WakeTests(t)
      PROVE  RequestIsNoticed'
    BY <1>2 DEF WakeTests, AfterWake
<1>3. ASSUME NEW t \in Threads, WakeWrites(t)
      PROVE  RequestIsNoticed'
    BY <1>3 DEF WakeWrites, AfterWake
<1>4. ASSUME NEW t \in Threads, ReadList(t) \/ RefreshFails(t) \/ Publish(t) \/ NotifyChange(t) \/ CallHandler(t)
      PROVE  RequestIsNoticed'
    BY <1>4, Zenon DEF ReadList, RefreshFails, Publish, NotifyChange, CallHandler, AfterRefresh
<1>5. ASSUME NEW u \in Users, request_refresh(u)
      PROVE  RequestIsNoticed'
    BY <1>5 DEF request_refresh
<1>6. CASE LoopSteps
  <2>1. CASE TestStop \/ Fail \/ Report
    BY <2>1, Zenon DEF TestStop, Fail, Report, LoopEnds
  <2>2. CASE RegisterCallback \/ Poll \/ PollFails \/ SocketFails \/ TestDeadline
    BY <2>2, Zenon DEF RegisterCallback, Poll, PollFails, SocketFails, TestDeadline
  <2>3. CASE DrainWake \/ ExchangeDirty \/ ReceiveFails
    BY <2>3, Zenon DEF DrainWake, ExchangeDirty, ReceiveFails
  <2>4. CASE DrainNetlink
    BY <2>4 DEF DrainNetlink
  <2>. QED
    BY <1>6, <2>1, <2>2, <2>3, <2>4, Zenon DEF LoopSteps
<1>7. CASE StartSteps
  <2>1. CASE start_monitor \/ OpenWakeFd \/ WakeFdFails \/ OpenNetlink \/ NetlinkFails \/ UndoStart \/ SetHandlers
    BY <2>1, Zenon DEF start_monitor, OpenWakeFd, WakeFdFails, OpenNetlink, NetlinkFails, UndoStart, SetHandlers
  <2>2. CASE SetRunning \/ StartThread \/ ThreadFails
    BY <2>2, Zenon DEF SetRunning, StartThread, ThreadFails
  <2>. QED
    BY <1>7, <2>1, <2>2, Zenon DEF StartSteps
<1>8. CASE StopSteps
    BY <1>8, Zenon DEF StopSteps, stop_monitor, RequestStop, Join, CloseNetlink, CloseWakeFd, ClearHandlers
<1>9. CASE DebounceElapses \/ KernelChanges
    BY <1>9, Zenon DEF DebounceElapses, KernelChanges
<1>10. CASE UNCHANGED vars
    BY <1>10 DEF vars
<1>. QED
    BY <1>1, <1>2, <1>3, <1>4, <1>5, <1>6, <1>7, <1>8, <1>9, <1>10, StepKinds, Zenon DEF SharedSteps

\* Whoever publishes a list goes on to notify.
LEMMA TellStep == LoaderTypeOK /\ Lifetime /\ ChangeIsTold /\ [Next]_vars => ChangeIsTold'
<1> SUFFICES ASSUME LoaderTypeOK, Lifetime, ChangeIsTold PROVE [Next]_vars => ChangeIsTold'
    OBVIOUS
<1> USE LoaderAssumption
    DEF LoaderTypeOK, PlacesOK, FlagsOK, Threads, Lists, Moves, UserPlaces, MonitorPlaces, ControlPlaces, RefreshPlaces,
        Lifetime, StatusOK, ThreadOK, DescriptorsOK, FirstRefresh, At, Stopped, MonitorWillRead, Schedule, ChangeIsTold,
        fdVars, controlVars, loopVars, kernelVars, snapshotVars
<1>1. ASSUME NEW t \in Threads, SetDirty(t)
      PROVE  ChangeIsTold'
    BY <1>1 DEF SetDirty
<1>2. ASSUME NEW t \in Threads, WakeTests(t)
      PROVE  ChangeIsTold'
    BY <1>2 DEF WakeTests, AfterWake
<1>3. ASSUME NEW t \in Threads, WakeWrites(t)
      PROVE  ChangeIsTold'
    BY <1>3 DEF WakeWrites, AfterWake
<1>4. ASSUME NEW t \in Threads, ReadList(t) \/ RefreshFails(t) \/ Publish(t) \/ NotifyChange(t) \/ CallHandler(t)
      PROVE  ChangeIsTold'
    BY <1>4 DEF ReadList, RefreshFails, Publish, NotifyChange, CallHandler, AfterRefresh
<1>5. ASSUME NEW u \in Users, request_refresh(u)
      PROVE  ChangeIsTold'
    BY <1>5 DEF request_refresh
<1>6. CASE LoopSteps
  <2>1. CASE TestStop \/ Fail \/ Report
    BY <2>1 DEF TestStop, Fail, Report, LoopEnds
  <2>2. CASE RegisterCallback \/ Poll \/ PollFails \/ SocketFails \/ TestDeadline
    BY <2>2 DEF RegisterCallback, Poll, PollFails, SocketFails, TestDeadline
  <2>3. CASE DrainWake \/ ExchangeDirty \/ ReceiveFails
    BY <2>3 DEF DrainWake, ExchangeDirty, ReceiveFails
  <2>4. CASE DrainNetlink
    BY <2>4 DEF DrainNetlink
  <2>. QED
    BY <1>6, <2>1, <2>2, <2>3, <2>4, Zenon DEF LoopSteps
<1>7. CASE StartSteps
  <2>1. CASE start_monitor \/ OpenWakeFd \/ WakeFdFails \/ OpenNetlink \/ NetlinkFails \/ UndoStart \/ SetHandlers
    BY <2>1 DEF start_monitor, OpenWakeFd, WakeFdFails, OpenNetlink, NetlinkFails, UndoStart, SetHandlers
  <2>2. CASE SetRunning \/ StartThread \/ ThreadFails
    BY <2>2 DEF SetRunning, StartThread, ThreadFails
  <2>. QED
    BY <1>7, <2>1, <2>2, Zenon DEF StartSteps
<1>8. CASE StopSteps
    BY <1>8 DEF StopSteps, stop_monitor, RequestStop, Join, CloseNetlink, CloseWakeFd, ClearHandlers
<1>9. CASE DebounceElapses \/ KernelChanges
    BY <1>9 DEF DebounceElapses, KernelChanges
<1>10. CASE UNCHANGED vars
    BY <1>10 DEF vars
<1>. QED
    BY <1>1, <1>2, <1>3, <1>4, <1>5, <1>6, <1>7, <1>8, <1>9, <1>10, StepKinds, Zenon DEF SharedSteps

\* The types of the other variables.
DataOK ==
    /\ status \in {"kStopped", "kStarting", "kRunning", "kStopping", "kFailed"}
    /\ wake_fd \in {"none", "open", "closed"}
    /\ revents \in SUBSET {"wake", "nl", "err"}
    /\ kernel \in Lists /\ interfaces \in Lists /\ got \in [Threads -> Lists]

\* They stay within them: no list is read that the kernel has not had.
LEMMA DataStep == DataOK /\ [Next]_vars => DataOK'
<1> SUFFICES ASSUME DataOK PROVE [Next]_vars => DataOK'
    OBVIOUS
<1> USE LoaderAssumption DEF DataOK, Lists, fdVars, controlVars, loopVars, kernelVars, snapshotVars
<1>1. ASSUME NEW t \in Threads
      PROVE  SharedSteps(t) => DataOK'
  <2>1. CASE SetDirty(t) \/ WakeTests(t) \/ WakeWrites(t) \/ RefreshFails(t) \/ NotifyChange(t) \/ CallHandler(t)
    BY <2>1, Zenon DEF SetDirty, WakeTests, WakeWrites, RefreshFails, NotifyChange, CallHandler
  <2>2. CASE ReadList(t)
    BY <2>2 DEF ReadList
  <2>3. CASE Publish(t)
    BY <2>3 DEF Publish
  <2>. QED
    BY <2>1, <2>2, <2>3, Zenon DEF SharedSteps
<1>2. ASSUME NEW u \in Users, request_refresh(u)
      PROVE  DataOK'
    BY <1>2 DEF request_refresh
<1>3. CASE LoopSteps
  <2>1. CASE TestStop \/ Fail \/ Report
    BY <2>1, Zenon DEF TestStop, Fail, Report, LoopEnds
  <2>2. CASE Poll \/ PollFails \/ DrainWake \/ DrainNetlink
    BY <2>2, Zenon DEF Poll, PollFails, DrainWake, DrainNetlink, Ready
  <2>3. CASE RegisterCallback \/ SocketFails \/ TestDeadline \/ ExchangeDirty \/ ReceiveFails
    BY <2>3, Zenon DEF RegisterCallback, SocketFails, TestDeadline, ExchangeDirty, ReceiveFails
  <2>. QED
    BY <1>3, <2>1, <2>2, <2>3, Zenon DEF LoopSteps
<1>4. CASE StartSteps
    BY <1>4, Zenon DEF StartSteps, start_monitor, OpenWakeFd, WakeFdFails, OpenNetlink, NetlinkFails, UndoStart, SetHandlers,
       SetRunning, StartThread, ThreadFails
<1>5. CASE StopSteps
    BY <1>5 DEF StopSteps, stop_monitor, RequestStop, Join, CloseNetlink, CloseWakeFd, ClearHandlers
<1>6. CASE KernelChanges
  <2>1. kernel <= MaxChanges /\ kernel' = kernel + 1 /\ UNCHANGED <<status, wake_fd, revents, interfaces, got>>
    BY <1>6, Zenon DEF KernelChanges
  <2>. QED
    BY <2>1
<1>7. CASE DebounceElapses \/ UNCHANGED vars
    BY <1>7, Zenon DEF DebounceElapses, vars
<1>. QED
    BY <1>1, <1>2, <1>3, <1>4, <1>5, <1>6, <1>7, StepKinds, Zenon

\* The constructor leaves the monitor stopped.
LEMMA InitOK == Init => NoticeInv
<1> SUFFICES ASSUME Init PROVE NoticeInv
    OBVIOUS
<1> USE LoaderAssumption DEF Init, Threads
<1>1. PlacesOK /\ DataOK
    BY DEF PlacesOK, UserPlaces, MonitorPlaces, ControlPlaces, RefreshPlaces, DataOK, Lists
<1>2. FlagsOK
    BY Zenon DEF FlagsOK
<1>3. Lifetime
    BY DEF Lifetime, StatusOK, ThreadOK, DescriptorsOK, FirstRefresh, At, Stopped
<1>4. OneRefresh
  <2>1. interfaces \in {0, 1} /\ kernel = 1 /\ \A t \in Threads : pc[t] # "publish"
    BY Zenon
  <2> HIDE DEF Init
  <2>. QED
    BY <2>1 DEF OneRefresh
<1>5. LateIsNoticed /\ StaleIsNoticed /\ RequestIsNoticed /\ ChangeIsTold
    BY DEF LateIsNoticed, StaleIsNoticed, RequestIsNoticed, ChangeIsTold
<1>. QED
    BY <1>1, <1>2, <1>3, <1>4, <1>5 DEF NoticeInv, LoaderTypeOK, DataOK

\* The invariant holds throughout.
LEMMA LoaderInvariant == Spec => []NoticeInv
<1>1. NoticeInv /\ [Next]_vars => NoticeInv'
    BY PlacesStep, FlagsStep, DataStep, LifetimeStep, OneRefreshStep, LateStep, StaleStep, RequestStep, TellStep, Zenon
    DEF NoticeInv, LoaderTypeOK, DataOK
<1>. QED
    BY <1>1, InitOK, PTL DEF Spec

\* The loader keeps its types, for any number of users and changes.
THEOREM LoaderTypeCorrect == Spec => []LoaderTypeOK
<1>1. NoticeInv => LoaderTypeOK
    BY DEF NoticeInv
<1>. QED
    BY <1>1, LoaderInvariant, PTL

\* No change of the interfaces is missed while the status is kRunning
\* (interface_loader.cpp:210-212, :399-426): whatever requests, refreshes, overruns,
\* starts and stops interleave, an outdated snapshot has a message, a mark or a
\* deadline behind it, unless the last refresh failed.
THEOREM ChangesAreNoticed == Spec => []StaleIsNoticed
<1>1. NoticeInv => StaleIsNoticed
    BY DEF NoticeInv
<1>. QED
    BY <1>1, LoaderInvariant, PTL

\* No call of request_refresh is missed while the status is kRunning
\* (interface_loader.cpp:260-288, :399-406): a mark that the monitor has not taken has
\* a wake-up in the eventfd or on its way.
THEOREM RequestsAreNoticed == Spec => []RequestIsNoticed
<1>1. NoticeInv => RequestIsNoticed
    BY DEF NoticeInv
<1>. QED
    BY <1>1, LoaderInvariant, PTL

\* The change handler hears of every snapshot that stays (interface_loader.cpp:436-456,
\* :477-483), whichever thread published it.
THEOREM ChangesAreTold == Spec => []ChangeIsTold
<1>1. NoticeInv => ChangeIsTold
    BY DEF NoticeInv
<1>. QED
    BY <1>1, LoaderInvariant, PTL

\* The monitor thread never polls or reads a closed descriptor, and a stopped monitor
\* holds none, whichever step of start_monitor failed (interface_loader.cpp:179-254,
\* :273-279, :384-385).
THEOREM DescriptorsLiveWithThread == Spec => []DescriptorsMatchThread
<1>1. NoticeInv => DescriptorsMatchThread
    BY DEF NoticeInv, LoaderTypeOK, PlacesOK, ControlPlaces, Lifetime, StatusOK, ThreadOK, DescriptorsOK, At,
           Stopped, DescriptorsMatchThread
<1>. QED
    BY <1>1, LoaderInvariant, PTL

\* A refresh that finishes late never replaces a newer snapshot
\* (interface_loader.cpp:486-488), whichever threads refresh at the same time.
THEOREM SnapshotsInOrder == Spec => SnapshotNeverOlder
<1>1. NoticeInv /\ [Next]_vars => [interfaces' >= interfaces]_vars
  <2> SUFFICES ASSUME DataOK, OneRefresh PROVE [Next]_vars => interfaces' >= interfaces
    BY DEF NoticeInv, LoaderTypeOK, DataOK
  <2> USE DEF DataOK, Lists, fdVars, controlVars, loopVars, kernelVars, snapshotVars
  <2>1. CASE UNCHANGED interfaces
    BY <2>1, LoaderAssumption
  <2>2. ASSUME NEW t \in Threads, SharedSteps(t)
        PROVE  interfaces' >= interfaces
    <3>1. CASE Publish(t)
      BY <3>1 DEF Publish, Moves, OneRefresh
    <3>2. CASE ~Publish(t)
      BY <2>1, <2>2, <3>2 DEF SharedSteps, SetDirty, WakeTests, WakeWrites, ReadList, RefreshFails, NotifyChange, CallHandler
    <3>. QED
      BY <3>1, <3>2
  <2>3. ASSUME NEW u \in Users, request_refresh(u)
        PROVE  interfaces' >= interfaces
    BY <2>1, <2>3 DEF request_refresh
  <2>4. CASE LoopSteps
    BY <2>1, <2>4 DEF LoopSteps, RegisterCallback, TestStop, Poll, PollFails, DrainWake, ExchangeDirty, SocketFails,
       DrainNetlink, ReceiveFails, TestDeadline, Fail, Report
  <2>5. CASE StartSteps
    BY <2>1, <2>5 DEF StartSteps, start_monitor, OpenWakeFd, WakeFdFails, OpenNetlink, NetlinkFails, UndoStart, SetHandlers,
       SetRunning, StartThread, ThreadFails
  <2>6. CASE StopSteps
    BY <2>1, <2>6 DEF StopSteps, stop_monitor, RequestStop, Join, CloseNetlink, CloseWakeFd, ClearHandlers
  <2>7. CASE DebounceElapses \/ KernelChanges \/ UNCHANGED vars
    BY <2>1, <2>7 DEF DebounceElapses, KernelChanges, vars
  <2>. QED
    BY <2>2, <2>3, <2>4, <2>5, <2>6, <2>7, StepKinds, Zenon
<1>. QED
    BY <1>1, LoaderInvariant, PTL DEF Spec, SnapshotNeverOlder
=============================================================================
