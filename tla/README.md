# A TLA+ verification of libbpf-control-cpp

The library attaches BPF programs to the TC hooks of network interfaces and
keeps them there while interfaces come and go and users change their minds.
What is hard about it is concurrent: five kinds of thread share a request queue,
a snapshot of the interface list and a handful of descriptors, while the kernel,
other processes and whoever has a shell change interfaces, filters and pins between
any two system calls. This directory models it, checks it with TLC on small instances and
proves its safety properties with TLAPS for all instances.

Source paths below are relative to `src/`; `bpf_attach_manager.cpp:111` is a line of
the implementation file of that name.

## The system

| Part | Source | State | Threads | Modelled by |
|---|---|---|---|---|
| `Attacher` | `bpf_tool/bpf_attacher` | targets, mode, published policy | any API caller | `Attacher`, `PolicySource` |
| `BpfAttachManager` | `bpf_tool/bpf_attach_manager` | request queue, retries, restart flag | worker; owner; callers and monitor through callbacks | `AttachManager` |
| `InterfaceLoader` | `nic_check/interface_loader` | snapshot, status, dirty mark, two descriptors | monitor; owner; any caller of `request_refresh` | `InterfaceLoader` |
| `TerminationSignalWaiter` | `utils/termination_signal_waiter` | mask, thread | waiter; owner | `SignalWaiter` |
| TC filter calls | `bpf_attach_manager.cpp:220-329` | kernel's filters | worker | `TcFilter`; their outcome in `AttachManager` |
| interface list | `interface_loader.cpp:485-662` | list under construction, published list | whoever refreshes | `InterfaceList` |
| `BpfBase`, `BpfMapControl`, ring and perf buffers | `bpf_map_control/` | descriptor, pin ownership, event buffer; the map's entries | callers in several processes | `MapHandle`, `MapEntries` |
| `BpfProgLoader`, program types | `bpf_tool/bpf_prog_loader`, `bpf_types.hpp` | the duplicated descriptor | caller | `MapHandle` |
| runtime initialisation | `bpf_runtime.hpp` | once-only result | owner | its failure in `AttachManager` |
| logger | `utils/logger.hpp` | none | all | not modelled |
| example application | `main.cpp` | event list, three pinned maps | main, ring-buffer consumer, waiter | `App`, `Startup`, `MirrorSetup` |
| TC program | `tc_bpf/tc_mirroring.c` | two maps, one packet | kernel | `TcMirroring` |

How they interact. An edit of an `Attacher` publishes an immutable policy and
calls the manager back with the attacher's number; the manager queues an
immediate request. The loader's monitor thread hears of interface changes on a
netlink socket, waits until a burst is over, reads the whole list, publishes a
snapshot and calls the manager, which queues a request for every attacher. The
worker takes requests, and for each reads the policy, then the snapshot, then
attaches or detaches on every interface of it. If one fails, the request returns to
the queue with a delay, up to `kMaxRetryCount` times. If the monitor fails, its last
call schedules a restart, which the worker performs five seconds later.

The example application opens or creates three pinned maps, adds its mirror targets to
one of them, loads the TC program with them, hands it to the manager, polls the ring
buffer on a thread of its own, and ends when the signal waiter says so. Its maps
outlive it: the next start finds what the last one left.

## Modules

* **`PolicySource`** is the contract the manager relies on: attachers are created,
  a policy is published in one step, and whoever published it calls back.
* **`Attacher`** is the code: an edit and its publication are two critical sections
  of `nics_list_mutex_`, with the edits of other callers between them. `Source` maps
  it to `PolicySource` by forgetting the live targets, the mode, and the callers that
  are between the two sections.
* **`AttachManager`** extends `PolicySource`, so what is checked and proved of it
  holds for the attachers of the code. The worker has one program counter per
  unlocked region and one for each place where it can block. `parking` is the
  worker with the mutex, after its predicate was false and before it blocks;
  `parked` is the worker asleep. `dparking` and `dparked` are the same for the wait
  with a deadline. `notify_one` and `notify_all` wake a worker that is asleep and
  nothing else. The loader appears by what the manager sees of it: a snapshot
  in which each name is absent, current, or stale (its `ifindex` is no longer the
  kernel's), and a monitor that refreshes, announces and may fail.
* **`InterfaceLoader`** has every thread of the class at the granularity of its
  atomic accesses, system calls and critical sections. A mutex is held when some
  thread is at a place inside its section. An interface list is the number of
  changes the kernel had made when it was read. `wake_fd` tells -1 from an
  open descriptor and from one that was closed but not yet overwritten.
* **`SignalWaiter`** has the owner, the waiting thread and the process's pending
  signals.
* **`TcFilter`** opens the one step that a TC call is in `AttachManager`: `hook_create`,
  query, attach or detach and the reads of the `ifindex` before them, for one interface
  and one filter slot. Between two of them the interface may be removed and recreated
  under a new index, the snapshot replaced (`read` and `snapshot` are the two ends of a
  refresh), and the slot used by others, among them an attacher with the same
  `AttachSpec`. `since` records what happened during the call.
* **`InterfaceList`** is the loop of `reload_snapshot` over the `getifaddrs` entries, one
  entry a step, and the lookups; interfaces go and are renamed between the entries. The
  indexes they have at first are a constant (`FirstIndexes`), and a renamed one gets the
  next index after `LastIndex`.
* **`MapHandle`** has the wrappers of several processes on one bpffs. An operation is
  cut at each system call (`pc`): the existence check, `bpf_obj_get`,
  `bpf_map_get_info_by_fd`, `bpf_obj_pin`, `remove`. Processes die in between, and pins are
  removed from outside. `load_program` is there with the descriptor it duplicates.
* **`Startup`** composes `open_or_create` of `main.cpp` from the operations of `MapHandle`, in
  processes that start together.
* **`MapEntries`** has the keys of one hash map under `update`, `delete_entry` and `clear` of
  several users; `clear` is two system calls per key.
* **`TcMirroring`** takes one packet through `tc_mirroring.c`. A packet is its length, the
  EtherTypes met while tags are skipped, and the version and header length of what
  follows.
* **`MirrorSetup`** extends it with `set_mirroring` and `set_monitoring_target` as `main` calls
  them at every start, on maps that stay.
* **`App`** composes `main()` with `SignalWaiter`: the owner's steps of `SignalWaiter` happen where
  `main` makes them, its handler is the lambda that pushes `kStop` and notifies.
* **`MCAttachManager`**, **`MCManagerSafety`**, **`MCInterfaceLoader`**, **`MCMaps`**, **`MCTc`** and **`MCApp`** hold
  the specifications of the runs. Where modules share no state, one of them combines
  several: the initial state picks the part that moves, so the run is the union of the
  parts and not their product.
* The proofs are in modules of their own: **`Attacher_proofs`**; **`AttachManager_types`** (types and
  program counters), **`AttachManager_proofs`** (no update is lost, convergence) and
  **`AttachManager_queue`** (coalescing, restart, retries and newer requests);
  **`InterfaceLoader_proofs`**; **`Tc_proofs`** (`TcFilter` and `InterfaceList`); **`Maps_proofs`** (`MapHandle`,
  `Startup` and `MapEntries`); **`App_proofs`** (`SignalWaiter`, `App`, `TcMirroring` and `MirrorSetup`).

A definition that begins with `Mutant` is a plausible bug in the definition that
follows it. No specification uses one; each serves to show that a property
notices that bug.

### Abstractions

* *Time.* The code compares `request_time`s only within one attacher. A clock
  reading is therefore a number above those of the attacher's live requests, and it
  is reused when they are gone; at the bound `MaxTime` two readings may tie, which
  the code's `<=` also allows. Whether a delay has elapsed is free.
* *TC calls.* In `AttachManager`, `attach_filter` and `detach_filter` are one step per interface:
  the filter is as wanted, or the call failed and nothing changed. `CallAsWanted` of
  `TcFilter` is what justifies the success, and `SettledCallSucceeds` that nothing else is
  needed for it. A stale `ifindex` always fails. Every attacher has a slot of its own
  (priority, handle, direction); in `TcFilter` it may be shared.
* *Data.* Addresses, names and keys are model values. The text forms of MAC and IPv4
  addresses are left out; that reading or writing one may fail is not. A size
  stands for the key, value and entry sizes that `load_map_info` compares.
* *Faults.* `initialize`, `eventfd`, the netlink socket, thread creation, `poll`,
  `recvmsg`, `getifaddrs`, the per-interface `ioctl`, a TC call, `pthread_sigmask`,
  `sigtimedwait` and every system call on a map or a pin may each fail whenever they
  are called. A process that uses maps may die at any system call.
* *Use.* One thread at a time calls `start_monitor` and `stop_monitor`, and the
  destructors run when no API call is in progress, as the headers require.
  Threads other than the owner are created after the `TerminationSignalWaiter`.
* *External.* The kernel's interface list, netlink socket, filters and signals are
  modelled from how the code uses them. In particular, a socket whose receive
  buffer overran has a pending error, which `poll` reports as `POLLERR`. A map lives while a
  descriptor or a pin refers to it, and the kernel keeps 15 characters of its name.

## What is checked

| Run | Instance | States | Shows |
|---|---|---|---|
| `attacher` | 1 attacher, 2 interfaces, 3 callers | 2.4 k | `SnapshotCurrent`: no edit is lost between the two critical sections, nor one made under `kAttachAll`. `ImplementsSource`: refinement of `PolicySource`. |
| `manager_safety` | 1 attacher, 1 caller, 1 retry, clock bound 3; 1 interface with everything and selective policies, or 2 interfaces that stay, all or none wanted, with a manager that goes on | 1.7 M | `NoLostUpdate`, `UpdateIsImmediate`, `Converged`, `RestartPending`, `GivesUpLast` with every fault, restart and shutdown; one interface of two fails, and the failure is not forgotten. |
| `manager_live` | 1 interface, no retries, all interfaces or none | 341 k | `EventuallyReconciled`. `BusyShutdownCompletes`: destruction ends if something is queued or scheduled. |
| `manager_stop` | no attacher | violation | `ShutdownCompletes` fails; see below. |
| `loader` | 1 user, 2 changes | 279 k | `StaleIsNoticed`, `RequestIsNoticed`, `ChangeIsTold`, `SnapshotNeverOlder`, `DescriptorsMatchThread`; `StopReturns`, `EventuallyFresh`. |
| `loader_wake` | 1 user, 1 change | violation | `WakeHitsOpenFd` fails; see below. |
| `loader_overrun` | 1 user, 3 changes, nothing else fails | violation | `OverrunResyncs` fails; see below. |
| `maps` | 1 path, 2 maps, 3 descriptors; 2 ring buffers of a process and a plain map of another; 2 plain maps, and 2 perf buffers, of different sizes; a ring buffer and a program; 2 processes that start together; 2 users of 3 keys in a map for 2 | 502 k | `DescriptorsOwned`, `PinOwnership`, `PinsOutliveWrappers`, `OpenFitsRequest` of the wrappers; `SameMap` of `open_or_create`; `ClearAlone`. |
| `maps_names` | as `maps`, with a name that the kernel cuts | violation | `ReadyMapsLoad` fails; see below. |
| `tc` | an interface created 3 times; lists of up to 4 entries of 2 interfaces, 2 renames; packets of 14 lengths; 2 starters, 3 starts, 2 targets | 2.4 M | `CallAsWanted`, `SettledCallSucceeds`, `DetachOnlyOurs` of the TC calls; `ListMatches`, `OwnData` of the list; `EventsAreIPv4`, `CopiesStored` of the TC program; `MirrorValueSound`, `EveryStartCounts` of the maps it is given. |
| `app` | 2 signals, 3 sent; any owner with 3 starts, or `main` | 4.1 k | `SignalsDoNotKill`, `StopReturns`, `SignalIsHandled`; `SignalEndsMain`, `LocalsOutliveThreads`. |
| `waiter_once` | 2 signals, 2 starts | violation | `HandlerAtMostOnce` fails; see below. |

Each property is stated in words, with the lines it is about, where it is defined. Two type
invariants, `AttacherTypeOK` and `TcTypeOK`, are proved and not repeated in the runs.

**Bounds.** One retry makes a request return once and be given up once. A clock bound of three
orders a retry, a newer request and one more. Two attachers
share only the worker, which handles one after the other. Two interfaces are what it takes for one to succeed and the other to
fail. A user, the controller and the monitor overlap in every pair of refreshes; two
changes make one snapshot older than another and both stale. The next
change beyond the bound would only repeat these cases. Three signals cover one
that is handled, one that comes during the handler and one that comes during
destruction. Three indexes let an interface be recreated twice in one TC call, which
reads the index twice. One path is where wrappers meet;
two maps and three descriptors are one of each more than a conflict takes. The
packet lengths are those at, before and within every header with up to three tags.
Two targets are one below, at and, in a value another program wrote, above the
limit. For the safety properties no bound matters in the end: the proofs have any number of
attachers, interfaces, threads, changes, wrappers, paths, maps, descriptors, entries and
starts. What the runs add to them is the evidence that every action happens and that each
property notices a plausible bug.

**Fairness.** A thread that can run eventually does. Where a step needs a mutex
that others take again and again, the fairness is strong: the critical sections are
short and the scheduler does not pass over a waiter for ever. A timeout
eventually expires (`DebounceElapses`, `WorkerTimesOut`, `TimeOut`). Nothing is assumed of
users, the kernel, faults or spurious wake-ups. `main` is fair up to its return, with the
waiting thread and the consumer, whose `poll` has a timeout. `EventuallyReconciled` and
`EventuallyFresh` have as premise that inputs and faults stop: each event pushes the
debounce deadline back, so under an endless stream the code promises nothing.

**Deadlock** is checked for the loader and the attachers. The manager, the waiter and `main`
end by being destroyed, `loader_overrun` ends when the bounded changes are used
up and the monitor has stopped, and the parts of `maps` and `tc` end with their bounds.

## Where code and documentation disagree

1. **Shutdown may hang** (`manager_stop`). The destructor (`bpf_attach_manager.cpp:111-112`)
   and a constructor that fails (`:101-102`) call `request_stop` and `notify_all` without
   `retry_cv_mutex_`. If both happen after the worker evaluated its predicate and
   before it blocks, the worker sleeps with nothing left to wake it, and `join` does not
   return. `README.md:219` says the destructor stops and joins its worker.
   `BusyShutdownCompletes` delimits the problem: with a request queued or a restart
   scheduled the worker only waits with a deadline, and destruction ends.
2. **A wake-up may hit a closed descriptor** (`loader_wake`). `start_monitor` closes `wake_fd_`
   without `fd_mutex_` when the netlink socket cannot be opened (`interface_loader.cpp:199`),
   while a `request_refresh` that saw the previous monitor running may be about to write
   to it. `README.md:307` allows `request_refresh` from any thread.
3. **An overrun stops the monitor** (`loader_overrun`). `POLLERR` is treated as fatal
   (`interface_loader.cpp:408`) before `recvmsg` could return `ENOBUFS` and cause the
   resynchronisation that `README.md:289` describes. Under `BpfAttachManager`
   the restart five seconds later recovers, as `RestartPending` shows.
4. **The handler may be called twice** (`waiter_once`). After `stop`, `start` creates another
   thread (`termination_signal_waiter.cpp:65`), and `README.md:321` says the handler is
   invoked at most once. Once per thread is what holds (`WaiterTypeOK`).
5. **A long map name does not survive its pin** (`maps_names`). `open` of a pinned map takes
   over the name the kernel kept (`bpf_map_control.cpp:184`), at most 15 characters, and
   `load_program` looks for that name in the object file (`bpf_prog_loader.cpp:95`). The process
   that created the map loads its program; one that found it does not. `README.md:102`
   says a map "only needs to be open and expose a valid FD". The names of the
   application's maps fit.

Some smaller limits are visible in the properties: a refresh that fails is not
repeated until the next event (`unrecovered` in `StaleIsNoticed` and `EventuallyFresh`), and a
signal between the drain and the restoration of the mask still has its
default action (`late` in `SignalsDoNotKill`). A wrapper whose pin somebody else removed may
unpin what was pinned there since (`removed` in `PinsOutliveWrappers`). `detach_filter` may take a
program away that got into the slot after the query (`seized` in `DetachOnlyOurs`). Every
start of the application adds its mirror targets again, so packets are cloned twice
after the second start (`EveryStartCounts`).

## What is proved

Every safety property of a passing run is proved, for every value of the constants that
satisfies the named assumptions:

| Assumption | Says |
|---|---|
| `AttacherAssumption`, `MaxAttachersAssumption` | the number of attachers is natural |
| `ManagerAssumption` | the retry limit is natural, the clock bound is at least 1, and the monitor is not one of the callers |
| `LoaderAssumption` | the bound on changes is natural, and the monitor and the controller are not among the users |
| `IndexAssumption` | an interface is created at least once |
| `ListAssumption` | the interfaces start with distinct indexes above 0 and up to `LastIndex`; "no address" is not an address |
| `HandleAssumption` | the bounds on maps and descriptors are natural; no map, descriptor, path or layout is the value for "none"; every wrapper asks for a type, a size and a name, and the kernel makes a name of a name |
| `StartupAssumption` | the starting processes have wrappers, and there is a path |
| `EntriesAssumption` | `max_entries_` is natural |
| `WaiterAssumption` | the bound on signals is natural |
| `PacketAssumption` | packet and header lengths and the size of the array are natural |
| `SetupAssumption` | the array has a slot, and indexes are above 0, with 1 and 2 (those of `eth0` and `eth3` at first) among them |

| Theorem | Module | States |
|---|---|---|
| `AttacherTypeCorrect` | `Attacher_proofs` | `AttacherSpec => []AttacherTypeOK` |
| `NoEditLost` | `Attacher_proofs` | `AttacherSpec => []SnapshotCurrent` |
| `AttacherImplementsSource` | `Attacher_proofs` | `AttacherSpec => ImplementsSource` |
| `ManagerTypeCorrect` | `AttachManager_proofs` | `Spec => []TypeOK` |
| `NoUpdateLost` | `AttachManager_proofs` | `Spec => []NoLostUpdate` |
| `ManagerConverges` | `AttachManager_proofs` | `Spec => []Converged` |
| `ManagerInvariant` | `AttachManager_proofs` | `Spec => []IndInv` |
| `MonitorRestarted` | `AttachManager_queue` | `Spec => []RestartPending` |
| `UpdatesAreImmediate` | `AttachManager_queue` | `Spec => []UpdateIsImmediate` |
| `AllAttemptsMade` | `AttachManager_queue` | `Spec => GivesUpLast` |
| `LoaderTypeCorrect` | `InterfaceLoader_proofs` | `Spec => []LoaderTypeOK` |
| `ChangesAreNoticed` | `InterfaceLoader_proofs` | `Spec => []StaleIsNoticed` |
| `RequestsAreNoticed` | `InterfaceLoader_proofs` | `Spec => []RequestIsNoticed` |
| `ChangesAreTold` | `InterfaceLoader_proofs` | `Spec => []ChangeIsTold` |
| `DescriptorsLiveWithThread` | `InterfaceLoader_proofs` | `Spec => []DescriptorsMatchThread` |
| `SnapshotsInOrder` | `InterfaceLoader_proofs` | `Spec => SnapshotNeverOlder` |
| `LookupsGiveOwnData` | `Tc_proofs` | `ListSpec => []OwnData` |
| `ListIsExact` | `Tc_proofs` | `ListSpec => []ListMatches` |
| `TcTypesCorrect` | `Tc_proofs` | `TcSpec => []TcTypeOK` |
| `SuccessIsTrue` | `Tc_proofs` | `TcSpec => []CallAsWanted` |
| `FailureHasReason` | `Tc_proofs` | `TcSpec => []SettledCallSucceeds` |
| `DetachTakesOurs` | `Tc_proofs` | `TcSpec => DetachOnlyOurs` |
| `HandleTypeCorrect` | `Maps_proofs` | `HandleSpec => []HandleTypeOK` |
| `EveryDescriptorOwned` | `Maps_proofs` | `HandleSpec => []DescriptorsOwned` |
| `OwnersHaveTheirPins` | `Maps_proofs` | `HandleSpec => []PinOwnership` |
| `OpenMapsFit` | `Maps_proofs` | `HandleSpec => []OpenFitsRequest` |
| `PinsStay` | `Maps_proofs` | `HandleSpec => PinsOutliveWrappers` |
| `StartersShareOneMap` | `Maps_proofs` | `StartupSpec => []SameMap` |
| `UndisturbedClear` | `Maps_proofs` | `EntriesSpec => []ClearAlone` |
| `WaiterTypeCorrect` | `App_proofs` | `Spec => []WaiterTypeOK` |
| `SignalsSurvived` | `App_proofs` | `Spec => []SignalsDoNotKill`, of the waiter with any owner |
| `ThreadsEndBeforeLocals` | `App_proofs` | `AppSpec => []LocalsOutliveThreads` |
| `MainSurvivesSignals` | `App_proofs` | `AppSpec => []SignalsDoNotKill`, of the waiter in `main` |
| `MainHandlesOnce` | `App_proofs` | `AppSpec => []HandlerAtMostOnce` |
| `OnlyIPv4Reported` | `App_proofs` | `PacketSpec => []EventsAreIPv4` |
| `OnlyStoredCopies` | `App_proofs` | `PacketSpec => []CopiesStored` |
| `StoredValuesSound` | `App_proofs` | `SetupSpec => []MirrorValueSound` |
| `NoStartIsLost` | `App_proofs` | `SetupSpec => []EveryStartCounts` |

Each of these rests on an inductive invariant, which follows with the reason why the
property is not inductive by itself.

**The manager.** `Converged` speaks of an attacher with nothing
pending, but it is established while the worker is still running, so the
invariant must say what the worker has achieved so far. `IndInv` adds to the three
results:

* `WorkerInSync`: unless a newer request is pending, the worker applies the current
  policy, and every interface it has handled without a failure is as wanted;
* `Bookkeeping`: a built request names the attacher its builder was called for, the
  program counters agree with the data, and nothing is wanted by an attacher
  that does not exist yet, so creating one leaves it reconciled.

The key lemma is `PendingKept`: a step that leaves an attacher without anything
pending is the worker's, and it reads the attacher's current policy in that
same step. `AppendedQueue` gives what it needs of coalescing: appending never
removes an attacher from the queue. `NoLostUpdate`, `WorkerInSync` and `Converged` each have
one lemma that goes through the steps, on top of it.

`apply_requests_` is keyed by the id; that the set of records which stands for it has one
record for each attacher at most (`OneRequestPerAttacher`) is a lemma about the model: a step
takes requests out of the queue or appends one, which erases first (`QueueStep`).
`RestartPending` needs to know that the worker lets go of a restart only in
the attempt itself, or after a stop request, which never comes while the manager is usable
(`RestartInv`). `UpdateIsImmediate` says nothing while the request is being posted, is in the
worker's hands, or has been half read, and a retry can appear right after. So
`ImmediateInv` follows the request of an unread update through all these places (`Fresh`):

* where it is being posted or queued, it is newer than any retry, queued or still to come
  from the run in progress (`NewerThanRetries`), because its `request_time` is a clock reading
  taken after theirs and a retry keeps the reading of the request it repeats;
* where the worker has it, no retry for the attacher is queued (`OthersImmediate`).

`GivesUpLast` compares the count that a request carries with what really happened: the history
variable `failed` counts the failed runs that had read the attacher's last update. The two differ
while a request from before an update is still retried. `TriesInv` says that such a
request is `Outdated`, by a newer one that is queued, built or still to be built, and that every
other request has no more retries on its count than `failed`. `MissedOutdates` connects it with
`Fresh`: a run that has missed an update is outdated. An outdated run that fails puts nothing
back, because the newer request is in the queue, or what it puts back is replaced.

**The attachers.** `SnapshotCurrent` is already inductive given the types: an edit that
changes what the policy asks for leaves its caller at `change_policy`, and the publication
there takes the targets as they are then, with the edits of others included.

**The TC calls.** The results speak of a call that has returned, so the invariant
`TcInv` says what the worker may rely on along the way:

* `Phase`: where the worker is says which call it is in;
* `Undisturbed`: if nothing happened since the call began, the index it holds is the
  interface's, the hook it made is there, and the slot is as the query said;
* `StillOurs`: after a query that saw its own program, that program is in the slot
  unless another changed the interface since. `DetachOnlyOurs` follows from it alone.

`QueryOutcome` sums up what the one system call with four answers may lead to, and each
conjunct has one lemma that goes through the steps.

**The interface list.** With the interfaces at rest the list is compared with what all entries
describe, so `ListInv` says the same of the entries the loop has behind it (`Described`): an
interface is registered by its first entry, and the first of its entries with an address
gives the address. Whatever is renamed meanwhile, an index that was registered has been
the interface's own (`InfoOK`). Nothing is published before the end.

**The loader.** `StaleIsNoticed` says that an outdated snapshot has a reason for another refresh
behind it. A refresh that is reading now will publish a list that may be outdated already,
so `NoticeInv` says the same of every list between its reading and its publication
(`LateIsNoticed`). It also has

* `Lifetime`: the status, the thread, both descriptors and the handlers as functions of where
  `start_monitor` and `stop_monitor` are, with the first refresh asked for before the status is
  `kRunning`. The two descriptor results are here;
* `OneRefresh`: `refresh_mutex_` admits one refresh, and what it has read is no older than the
  snapshot, from which `SnapshotNeverOlder` follows.

**The map wrappers.** `HandleInv` is the kernel's tables and the wrappers as they have to agree.

* `Holders`: every open descriptor has one holder, and an event buffer is of its wrapper's
  descriptor. A descriptor that the kernel gives out is free, so nobody held it before;
  `LeastNat` has what this needs of the smallest free one.
* `MapsLive`: a map lives exactly as long as a descriptor or a pin refers to it, so that an
  index of a map that is reused is reused by nobody's wrapper.
* `PinsOK`: `unpin` gives its ownership up before it removes the pin and takes it back if that
  fails, so the path has to lead to the wrapper's map also while nobody owns it. Both
  `PinOwnership` and `PinsOutliveWrappers` follow from the claim that lasts (`Rightful`).
* `LayoutsOK`, `CallsOK`: a map that is open and past `map_info` fits; a call in progress is
  where the state of its wrapper says.

`open_or_create` is made of these steps (`StartupSteps`), so its wrappers keep `HandleInv`.
`StartupInv` adds that a wrapper that uses its map, or is about to, has the pinned one. For
`clear`, `EntriesInv` adds that the key it has read is still there while nobody interferes.

**The application.** `SignalsDoNotKill` needs that the mask holds from the constructor to the end of
the drain, and that what is pending after it came late (`MaskOK`). `main` takes the waiter's
steps and adds its own (`MainOK`): the consumer runs only between the start of the event loop
and the join. `main` starts its waiter once, and so its handler is called once at most:
what `waiter_once` refutes for other owners holds here. `PacketInv` says what the program
knows of the packet at each step: the tags it has skipped were tags, and a packet that has an
IPv4 header has not been given up. `SetupInv` relates each value in the map, and each value
a process holds between its lookup and its update, to the number of `set_mirroring` calls
made, as long as no two of them overlapped.

**Only model-checked:** all liveness, that is `EventuallyReconciled`, `BusyShutdownCompletes`,
`EventuallyFresh`, `SignalIsHandled`, `SignalEndsMain` and both `StopReturns`. Reasoning about
fairness, and about `ENABLED`, which fairness is defined by, is out of the prover's reach. No
result needs an induction over data: what the code does in a loop (entries of a list,
tags of a packet, keys of a map) is steps here, and the induction is over them.

**What the properties except.** Four things that can go wrong are what the code does, and the
properties that come near leave them out: two attachers with the same slot take it from each
other for ever; a refresh that fails is not repeated until the next event; changes that never
pause for the debounce time postpone the refresh for ever; and a `clear` beside another user of
the map may fail half-way or never end.

## Not modelled

* *Logger*: output only; its mutex is never held while another is taken.
* *`vmlinux.h`*: generated.
* *Runtime initialisation*: a function-local static; only its failure has an effect.
* *Text forms* of addresses, and the fields that an event copies: data no property
  tells apart.
* *The order within `close`* of an event buffer and its descriptor: both go in one step, so
  `DescriptorsOwned` says that they stay together and not which goes first.
* *What `poll` hands to a callback*: the ring and perf buffers of libbpf, and user code.
  `set_callback` is left out with it: without a callback `event_buffer_create` does nothing.

## Plan

* **`Monitor`**: the abstract monitor that is now inside `AttachManager` (refresh,
  announce, fail, restart) as a contract of its own, extended by the manager
  and shown to be implemented by `InterfaceLoader`.
