----------------------------- MODULE MapHandle -----------------------------
(***************************************************************************)
(* The map wrappers (BpfBase, BpfMapControl, BpfRingBufferControl,         *)
(* BpfPerfBufferControl) and BpfProgLoader: descriptors, pins and who owns *)
(* them.  Wrappers of several processes share the paths of one bpffs.  An  *)
(* operation is cut at each of its system calls, because another process,  *)
(* or somebody with rm, may change bpffs in between.                       *)
(*                                                                         *)
(* The type "map" stands for the plain map types, a size for the key,      *)
(* value and entry sizes.  Descriptors of different processes are kept     *)
(* apart.  A kernel object lives while a descriptor or a pin refers to it. *)
(***************************************************************************)
EXTENDS Naturals, FiniteSets, FiniteSetsExt, Functions

CONSTANTS Handles,      \* the wrappers
          Process,      \* the process of each wrapper
          Request,      \* what each one was constructed with: type, size, name
          Paths,        \* paths in bpffs
          MaxMaps,      \* bounds on the maps that live, the descriptors that are
          MaxFds,       \* open and the BpfProgram objects that exist at a time
          MaxPrograms,
          Prog,         \* what a program descriptor refers to
          KernelName,   \* the name the kernel keeps of a map created with a name
          ObjectNames,  \* the names of the maps in the BPF object file
          None

VARIABLES
    wrapper,   \* fd_, pin_path_, is_pin_owner_, name_, the event buffer, and the
               \* request; removed (history): somebody else removed the pin it owns
    pc,        \* the system call each wrapper does next, "rest" if none
    arg,       \* the path of the call
    files,     \* the map or program behind each open descriptor
    maps,      \* the live maps: type, size and name
    pins,      \* bpffs
    prog_fd,   \* prog_fd of the load_program that has it
    programs   \* the descriptors of the BpfProgram objects

Maps == 1 .. MaxMaps
Fds == 0 .. MaxFds - 1

\* What a map is created with: BPF_MAP_TYPE_*, its sizes and its name.
Types == {"map", "ringbuf", "perf"}
Sizes == {Request[h].size : h \in Handles}
Names == DOMAIN KernelName
Layout == [type : Types, size : Sizes, name : Names]

ASSUME HandleAssumption ==
    /\ MaxMaps \in Nat /\ MaxFds \in Nat
    /\ None \notin Maps \cup Fds \cup Paths \cup Layout \cup {Prog} /\ Prog \notin Maps
    /\ Request \in [Handles -> Layout]
    /\ KernelName \in [Names -> Names] /\ None \in Names

handleVars == <<wrapper, pc, arg, files, maps, pins, prog_fd, programs>>

Constructed(h) ==
    LET request == Request[h]
    IN  [fd |-> None, path |-> None, owner |-> FALSE, name |-> request.name, buffer |-> None,
         type |-> request.type, size |-> request.size, removed |-> FALSE]

HandleInit ==
    /\ wrapper = [h \in Handles |-> Constructed(h)]
    /\ pc = [h \in Handles |-> "rest"] /\ arg = [h \in Handles |-> None]
    /\ files = [f \in Fds |-> None] /\ maps = [m \in Maps |-> None] /\ pins = [p \in Paths |-> None]
    /\ prog_fd = None /\ programs = {}
-----------------------------------------------------------------------------
IsOpen(h) == wrapper[h].fd # None
MapOf(h) == files[wrapper[h].fd]
Resting(h) == pc[h] = "rest"
FreeFds == {f \in Fds : files[f] = None}
FreeMaps == {m \in Maps : maps[m] = None}

\* The kernel frees the maps that nothing refers to.
Kernel(newFiles, newPins, newMaps) ==
    /\ files' = newFiles /\ pins' = newPins
    /\ LET used == Range(newFiles) \cup Range(newPins)
       IN  maps' = [m \in Maps |-> IF m \in used THEN newMaps[m] ELSE None]

\* The call of h goes on at another system call, or returns.
Goes(h, w, at, p) ==
    /\ wrapper' = [wrapper EXCEPT ![h] = w]
    /\ pc' = [pc EXCEPT ![h] = at] /\ arg' = [arg EXCEPT ![h] = p]
    /\ UNCHANGED <<prog_fd, programs>>

Returns(h, w) == Goes(h, w, "rest", None)

\* What close() leaves of a wrapper: the event buffer first, then the descriptor,
\* the path and the ownership; the pin stays in bpffs.
Closed(w) == [w EXCEPT !.fd = None, !.path = None, !.owner = FALSE, !.buffer = None, !.removed = FALSE]
WithoutFd(f) == [files EXCEPT ![f] = None]
-----------------------------------------------------------------------------
\* open(true, path), the path being there.
OpenPinned(h, p) ==
    /\ Resting(h) /\ ~IsOpen(h) /\ pins[p] # None
    /\ Goes(h, wrapper[h], "get", p)
    /\ UNCHANGED <<files, maps, pins>>

\* bpf_obj_get fails at least when the pin has gone in the meantime.
ObjGet(h) ==
    /\ pc[h] = "get" /\ pins[arg[h]] # None /\ FreeFds # {}
    /\ Goes(h, [wrapper[h] EXCEPT !.fd = Min(FreeFds)], "info", arg[h])
    /\ Kernel([files EXCEPT ![Min(FreeFds)] = pins[arg[h]]], pins, maps)

ObjGetFails(h) ==
    /\ pc[h] = "get"
    /\ Returns(h, wrapper[h])
    /\ UNCHANGED <<files, maps, pins>>

\* Perf buffers compare the type only: their size is not the map's.
Fits(w, m) == maps[m].type = w.type /\ (w.type # "perf" => maps[m].size = w.size)

\* load_map_info accepts the map and takes its name over.
MapInfo(h) ==
    /\ pc[h] = "info" /\ Fits(wrapper[h], MapOf(h))
    /\ Returns(h, [wrapper[h] EXCEPT !.path = arg[h], !.name = maps[MapOf(h)].name])
    /\ UNCHANGED <<files, maps, pins>>

\* Mutant: a refused map stays open.
MutantMapInfoFails(h) ==
    /\ pc[h] = "info"
    /\ Returns(h, wrapper[h])
    /\ UNCHANGED <<files, maps, pins>>

\* It refuses the layout, or the kernel gives no information: open() closes.
MapInfoFails(h) ==
    /\ pc[h] = "info"
    /\ Returns(h, Closed(wrapper[h]))
    /\ Kernel(WithoutFd(wrapper[h].fd), pins, maps)

\* open(): a new map, whose name the kernel may cut.
OpenNew(h) ==
    /\ Resting(h) /\ ~IsOpen(h) /\ FreeFds # {} /\ FreeMaps # {}
    /\ Returns(h, [wrapper[h] EXCEPT !.fd = Min(FreeFds)])
    /\ Kernel([files EXCEPT ![Min(FreeFds)] = Min(FreeMaps)], pins,
              [maps EXCEPT ![Min(FreeMaps)] = [type |-> wrapper[h].type, size |-> wrapper[h].size,
                                               name |-> KernelName[wrapper[h].name]]])
-----------------------------------------------------------------------------
\* pin(path): refused unless open, not an owner, and the path is free.
Pin(h, p) ==
    /\ Resting(h) /\ IsOpen(h) /\ ~wrapper[h].owner /\ pins[p] = None
    /\ Goes(h, wrapper[h], "pin", p)
    /\ UNCHANGED <<files, maps, pins>>

\* bpf_obj_pin fails at least when another pin has appeared.
ObjPin(h) ==
    /\ pc[h] = "pin" /\ pins[arg[h]] = None
    /\ Returns(h, [wrapper[h] EXCEPT !.path = arg[h], !.owner = TRUE])
    /\ Kernel(files, [pins EXCEPT ![arg[h]] = MapOf(h)], maps)

ObjPinFails(h) ==
    /\ pc[h] = "pin"
    /\ Returns(h, wrapper[h])
    /\ UNCHANGED <<files, maps, pins>>

\* Mutant: whoever has the path may unpin.
MutantUnpin(h) ==
    /\ Resting(h) /\ IsOpen(h) /\ wrapper[h].path # None
    /\ pins[wrapper[h].path] # None
    /\ Goes(h, [wrapper[h] EXCEPT !.owner = FALSE], "remove", wrapper[h].path)
    /\ UNCHANGED <<files, maps, pins>>

\* unpin(): the ownership goes first.
Unpin(h) ==
    /\ Resting(h) /\ IsOpen(h) /\ wrapper[h].owner
    /\ pins[wrapper[h].path] # None
    /\ Goes(h, [wrapper[h] EXCEPT !.owner = FALSE], "remove", wrapper[h].path)
    /\ UNCHANGED <<files, maps, pins>>

\* Mutant: the ownership is taken back.
MutantUnpinWithoutPin(h) ==
    /\ Resting(h) /\ IsOpen(h) /\ wrapper[h].owner
    /\ Returns(h, [wrapper[h] EXCEPT !.path = None, !.removed = FALSE])
    /\ UNCHANGED <<files, maps, pins>>

\* The pin is absent, or the existence check fails: path and ownership are cleared
\* in both cases, and in the second the pin stays behind.
UnpinWithoutPin(h) ==
    /\ Resting(h) /\ IsOpen(h) /\ wrapper[h].owner
    /\ Returns(h, [wrapper[h] EXCEPT !.owner = FALSE, !.path = None, !.removed = FALSE])
    /\ UNCHANGED <<files, maps, pins>>

\* History: the wrappers that own the pin at p lose it to somebody else.
LosePin(p) ==
    [h \in Handles |-> IF wrapper[h].path = p /\ (wrapper[h].owner \/ pc[h] = "remove")
                       THEN [wrapper[h] EXCEPT !.removed = TRUE] ELSE wrapper[h]]

\* remove() also succeeds on a path that has gone.
RemovePin(h) ==
    /\ pc[h] = "remove"
    /\ wrapper' = [IF wrapper[h].removed THEN LosePin(arg[h]) ELSE wrapper
                    EXCEPT ![h] = [wrapper[h] EXCEPT !.path = None, !.removed = FALSE]]
    /\ pc' = [pc EXCEPT ![h] = "rest"] /\ arg' = [arg EXCEPT ![h] = None]
    /\ Kernel(files, [pins EXCEPT ![arg[h]] = None], maps)
    /\ UNCHANGED <<prog_fd, programs>>

RemovePinFails(h) ==
    /\ pc[h] = "remove"
    /\ Returns(h, [wrapper[h] EXCEPT !.owner = TRUE])
    /\ UNCHANGED <<files, maps, pins>>
-----------------------------------------------------------------------------
\* Mutant: closing also removes the pin.
MutantClose(h) ==
    /\ Resting(h) /\ IsOpen(h)
    /\ Returns(h, Closed(wrapper[h]))
    /\ Kernel(WithoutFd(wrapper[h].fd), [p \in Paths |-> IF p = wrapper[h].path THEN None ELSE pins[p]], maps)

Close(h) ==
    /\ Resting(h) /\ IsOpen(h)
    /\ Returns(h, Closed(wrapper[h]))
    /\ Kernel(WithoutFd(wrapper[h].fd), pins, maps)

\* Mutant: the source keeps its descriptor.
MutantMove(g, h) ==
    /\ g # h /\ Resting(g) /\ Resting(h)
    /\ Process[g] = Process[h] /\ wrapper[g].type = wrapper[h].type
    /\ wrapper' = [wrapper EXCEPT ![g] = wrapper[h], ![h].owner = FALSE, ![h].removed = FALSE]
    /\ IF IsOpen(g) THEN Kernel(WithoutFd(wrapper[g].fd), pins, maps) ELSE UNCHANGED <<files, maps, pins>>
    /\ UNCHANGED <<pc, arg, prog_fd, programs>>

\* g = std::move(h), for wrappers of one class: g closes what it has and takes
\* everything; h is left closed, without a name.
Move(g, h) ==
    /\ g # h /\ Resting(g) /\ Resting(h)
    /\ Process[g] = Process[h] /\ wrapper[g].type = wrapper[h].type
    /\ wrapper' = [wrapper EXCEPT ![g] = wrapper[h], ![h] = [Closed(wrapper[h]) EXCEPT !.name = None]]
    /\ IF IsOpen(g) THEN Kernel(WithoutFd(wrapper[g].fd), pins, maps) ELSE UNCHANGED <<files, maps, pins>>
    /\ UNCHANGED <<pc, arg, prog_fd, programs>>

\* event_buffer_create(): the old buffer goes, also when the new one cannot be made.
EventBufferCreate(h, made) ==
    /\ Resting(h) /\ IsOpen(h) /\ wrapper[h].type # "map"
    /\ Returns(h, [wrapper[h] EXCEPT !.buffer = IF made THEN wrapper[h].fd ELSE None])
    /\ UNCHANGED <<files, maps, pins>>
-----------------------------------------------------------------------------
\* load_program binds a map by the name of its wrapper, and needs it open.
LoadAccepts(h) == wrapper[h].name \in ObjectNames /\ IsOpen(h)

\* load_program up to its duplicated descriptor.  The object and its own
\* descriptors are gone when it returns, whatever the outcome.
load_program(uses) ==
    /\ prog_fd = None /\ Cardinality(programs) < MaxPrograms
    /\ \A h \in uses : Resting(h) /\ LoadAccepts(h)
    /\ FreeFds # {} /\ prog_fd' = Min(FreeFds)
    /\ Kernel([files EXCEPT ![Min(FreeFds)] = Prog], pins, maps)
    /\ UNCHANGED <<wrapper, pc, arg, programs>>

GetProgId ==
    /\ prog_fd # None /\ prog_fd' = None
    /\ programs' = programs \cup {prog_fd}
    /\ UNCHANGED <<wrapper, pc, arg, files, maps, pins>>

\* No id: the duplicated descriptor is closed.
GetProgIdFails ==
    /\ prog_fd # None /\ prog_fd' = None
    /\ Kernel(WithoutFd(prog_fd), pins, maps)
    /\ UNCHANGED <<wrapper, pc, arg, programs>>

\* The last BpfProgramPtr goes.
DestroyProgram(f) ==
    /\ f \in programs /\ programs' = programs \ {f}
    /\ Kernel(WithoutFd(f), pins, maps)
    /\ UNCHANGED <<wrapper, pc, arg, prog_fd>>
-----------------------------------------------------------------------------
\* A process dies, in the middle of any call, and is started again.
Crash(proc) ==
    LET Dead(h) == Process[h] = proc
    IN  /\ \E h \in Handles : Dead(h) /\ (wrapper[h] # Constructed(h) \/ pc[h] # "rest")
        /\ wrapper' = [h \in Handles |-> IF Dead(h) THEN Constructed(h) ELSE wrapper[h]]
        /\ pc' = [h \in Handles |-> IF Dead(h) THEN "rest" ELSE pc[h]]
        /\ arg' = [h \in Handles |-> IF Dead(h) THEN None ELSE arg[h]]
        /\ Kernel([f \in Fds |-> IF \E h \in Handles : Dead(h) /\ wrapper[h].fd = f THEN None ELSE files[f]], pins, maps)
        /\ UNCHANGED <<prog_fd, programs>>

\* Somebody removes a pin with rm.
RemovedOutside(p) ==
    /\ pins[p] # None
    /\ wrapper' = LosePin(p)
    /\ Kernel(files, [pins EXCEPT ![p] = None], maps)
    /\ UNCHANGED <<pc, arg, prog_fd, programs>>
-----------------------------------------------------------------------------
SystemCalls(h) ==
    \/ ObjGet(h) \/ ObjGetFails(h) \/ MapInfo(h) \/ MapInfoFails(h)
    \/ ObjPin(h) \/ ObjPinFails(h) \/ RemovePin(h) \/ RemovePinFails(h)

Calls(h, users) ==
    \/ OpenNew(h) \/ Unpin(h) \/ UnpinWithoutPin(h) \/ Close(h)
    \/ \E p \in Paths : OpenPinned(h, p) \/ Pin(h, p)
    \/ \E g \in users : Move(g, h)
    \/ \E made \in BOOLEAN : EventBufferCreate(h, made)

Loading(users) ==
    \/ \E h \in users : load_program({h})
    \/ GetProgId \/ GetProgIdFails
    \/ \E f \in Fds : DestroyProgram(f)

Outside(users) ==
    \/ \E proc \in {Process[h] : h \in users} : Crash(proc)
    \/ \E p \in Paths : RemovedOutside(p)

\* The wrappers in users are used in any order.
WrapperNext(users) == (\E h \in users : SystemCalls(h) \/ Calls(h, users)) \/ Outside(users)
HandleNext(users) == WrapperNext(users) \/ Loading(users)
HandleSpec == HandleInit /\ [][HandleNext(Handles)]_handleVars
-----------------------------------------------------------------------------
\* The state of a BpfMapControl, BpfRingBufferControl or BpfPerfBufferControl.
Wrapper ==
    [fd : Fds \cup {None}, path : Paths \cup {None}, owner : BOOLEAN, name : Names,
     buffer : Fds \cup {None}, type : Types, size : Sizes, removed : BOOLEAN]

\* Every variable has its type, a call in progress has its path, and a wrapper that
\* owns a pin is open and knows where it is (bpf_control_base.hpp:147-217).
HandleTypeOK ==
    /\ wrapper \in [Handles -> Wrapper]
    /\ pc \in [Handles -> {"rest", "get", "info", "pin", "remove"}] /\ arg \in [Handles -> Paths \cup {None}]
    /\ files \in [Fds -> Maps \cup {Prog, None}] /\ pins \in [Paths -> Maps \cup {None}]
    /\ maps \in [Maps -> Layout \cup {None}]
    /\ prog_fd \in Fds \cup {None} /\ programs \subseteq Fds
    /\ {m \in Maps : maps[m] # None} = (Range(files) \cup Range(pins)) \ {Prog, None}
    /\ \A h \in Handles :
        /\ arg[h] = None <=> pc[h] = "rest"
        /\ wrapper[h].owner => IsOpen(h) /\ wrapper[h].path # None

\* Every open descriptor has exactly one holder, a wrapper, a BpfProgram or a
\* load_program in progress, through moves, failed opens, failed loads and
\* crashes: none leaks and none is closed by two of them.  An event buffer never
\* outlives the descriptor it was made from (bpf_control_base.hpp:127-144,
\* bpf_prog_loader.cpp:183-187, bpf_types.hpp:23-25, bpf_ring_buffer_control.cpp:77, :99-102).
DescriptorsOwned ==
    /\ Fds \ FreeFds = ({wrapper[h].fd : h \in Handles} \cup programs \cup {prog_fd}) \ {None}
    /\ LET open == {h \in Handles : IsOpen(h)} IN
        /\ \A g, h \in open : g # h => wrapper[g].fd # wrapper[h].fd
        /\ \A h \in open : wrapper[h].fd \notin programs \cup {prog_fd}
    /\ prog_fd \notin programs
    /\ \A h \in Handles : wrapper[h].buffer # None => wrapper[h].buffer = wrapper[h].fd

\* A wrapper that owns a pin and whose pin nobody took away is the only owner of
\* that path, and the path leads to its map (bpf_control_base.hpp:147-217).
PinOwnership ==
    \A h \in Handles :
        wrapper[h].owner /\ ~wrapper[h].removed =>
            /\ pins[wrapper[h].path] = MapOf(h)
            /\ \A g \in Handles \ {h} :
                wrapper[g].owner /\ wrapper[g].path = wrapper[h].path => wrapper[g].removed

\* A wrapper that rests open has the layout it was constructed for, whoever
\* pinned the map it found (bpf_map_control.cpp:136-186).
OpenFitsRequest ==
    \A h \in Handles : Resting(h) /\ IsOpen(h) => Fits(wrapper[h], MapOf(h))

\* A pin disappears only when somebody takes it away from outside, or through the
\* wrapper that made it; a wrapper whose own pin was taken away may remove the
\* one that replaced it (bpf_control_base.hpp:169-217).
PinsOutliveWrappers ==
    [][\/ \A p \in Paths :
            pins[p] # None /\ pins'[p] # pins[p] =>
                \E h \in Handles :
                    /\ pc[h] = "remove" /\ arg[h] = p
                    /\ MapOf(h) = pins[p] \/ wrapper[h].removed
       \/ \E p \in Paths : RemovedOutside(p)]_handleVars
=============================================================================
