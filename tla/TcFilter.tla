------------------------------ MODULE TcFilter ------------------------------
(***************************************************************************)
(* query_filter, attach_filter and detach_filter of BpfAttachManager, one  *)
(* system call at a time, for one interface name and one AttachSpec.       *)
(* AttachManager takes each call as one step; here the interface may go    *)
(* and come back under another index, the snapshot may be replaced, and    *)
(* another program may take the filter slot between two system calls.      *)
(* Another attacher of this manager with the same AttachSpec is one of the *)
(* others.                                                                 *)
(***************************************************************************)
EXTENDS Naturals

CONSTANT MaxIndex   \* how many times the interface is created

ASSUME IndexAssumption == MaxIndex \in Nat \ {0}

VARIABLES
    ifindex,   \* the index of the interface in the kernel, 0 when there is none
    slot,      \* what is in the slot of the filter
    created,   \* the last index given
    read,      \* the index the monitor has read for the name, 0 when it was skipped or not there
    snapshot,  \* the index in interfaces_, what get_ifindex_by_ifname returns
    syscall,   \* the system call the worker is at
    op,        \* the call it is in, or was in last
    hook,      \* hook.ifindex of attach_filter and detach_filter
    asked,     \* hook.ifindex of query_filter
    state,     \* the FilterState query_filter returned
    result,    \* what the last call returned
    since      \* history: what happened since the call began; "seized" is another's change since the query

kernelVars == <<ifindex, slot, created>>
snapshotVars == <<read, snapshot>>
callVars == <<op, hook, asked, state, result>>
tcVars == <<kernelVars, snapshotVars, syscall, callVars, since>>

\* Without its clsact qdisc an interface has no slot.
Slots == {"no clsact", "none", "ours", "other"}
Present == ifindex # 0
Answers == {"kNotFound", "kNoHook", "kOurProgram", "kOtherProgram", "kError"}

TcInit ==
    /\ ifindex = 1 /\ slot = "no clsact" /\ created = 1
    /\ read = 1 /\ snapshot \in {0, 1}
    /\ syscall = "idle" /\ op = "detach" /\ hook = 0 /\ asked = 0 /\ state = "kError" /\ result = FALSE
    /\ since = {"stale"}

\* What the kernel answers to bpf_tc_query.
Answer(i) ==
    IF i # ifindex THEN "kError"
    ELSE CASE slot = "no clsact" -> "kNoHook"
           [] slot = "none" -> "kNotFound"
           [] slot = "ours" -> "kOurProgram"
           [] slot = "other" -> "kOtherProgram"

Return(value) ==
    /\ syscall' = "idle" /\ result' = value
    /\ op' = op /\ hook' = 0 /\ asked' = 0 /\ state' = "kError"
    /\ UNCHANGED <<snapshotVars, created>>

Makes(to) == syscall' = to /\ UNCHANGED <<snapshotVars, created, op, result>>
-----------------------------------------------------------------------------
\* apply_request handles the interface; attach_filter reads the index first.
Begin(operation, next) ==
    /\ syscall = "idle"
    /\ op' = operation /\ syscall' = next
    /\ since' = IF snapshot = ifindex /\ Present THEN {} ELSE {"stale"}
    /\ UNCHANGED <<kernelVars, snapshotVars, asked, state, result>>

attach_filter == snapshot > 0 /\ Begin("attach", "hook_create") /\ hook' = snapshot
detach_filter == Begin("detach", "query") /\ hook' = 0
NoInterface ==
    /\ syscall = "idle" /\ snapshot = 0
    /\ op' = "attach" /\ result' = FALSE /\ since' = {"stale"}
    /\ UNCHANGED <<kernelVars, snapshotVars, syscall, hook, asked, state>>

\* bpf_tc_hook_create is happy with a clsact that is there.
HookCreate ==
    /\ syscall = "hook_create" /\ hook = ifindex
    /\ slot' = (IF slot = "no clsact" THEN "none" ELSE slot) /\ UNCHANGED ifindex
    /\ Makes("query")
    /\ UNCHANGED <<hook, asked, state, since>>

\* query_filter reads the index on its own.
QueryIndex ==
    /\ syscall = "query" /\ snapshot > 0
    /\ Makes("asking") /\ asked' = snapshot
    /\ UNCHANGED <<ifindex, slot, hook, state, since>>

\* Mutant: detach_filter goes on with another's program.
MutantLeave(answer) == IF op = "attach" THEN answer = "kOurProgram" ELSE answer \notin {"kOurProgram", "kOtherProgram"}

\* The answers that end the call with true.
Leave(answer) == IF op = "attach" THEN answer = "kOurProgram" ELSE answer # "kOurProgram"

\* Going on after query_filter.
GoOn(answer, past) ==
    /\ Makes(IF op = "attach" THEN "attach" ELSE "reread")
    /\ state' = answer /\ asked' = 0
    /\ since' = past \ {"seized"}
    /\ UNCHANGED hook

\* Mutant: an error passes for a filter that is not there.
MutantQuery(answer, past) ==
    /\ syscall = "asking"
    /\ \/ Leave(answer) /\ Return(TRUE) /\ since' = past
       \/ ~Leave(answer) /\ GoOn(answer, past)
    /\ UNCHANGED <<ifindex, slot>>

Query(answer, past) ==
    /\ syscall = "asking"
    /\ \/ answer = "kError" /\ Return(FALSE) /\ since' = past
       \/ answer # "kError" /\ Leave(answer) /\ Return(TRUE) /\ since' = past
       \/ answer # "kError" /\ ~Leave(answer) /\ GoOn(answer, past)
    /\ UNCHANGED <<ifindex, slot>>

QueryFilter == Query(Answer(asked), since)
QueryErrs == Query("kError", since \cup {"error"})

\* detach_filter reads the index again for its own hook.
DetachIndex ==
    /\ syscall = "reread" /\ snapshot > 0
    /\ Makes("detach") /\ hook' = snapshot
    /\ UNCHANGED <<ifindex, slot, asked, state, since>>

\* The name is no longer in the snapshot: query_filter's kError, and the test of detach_filter.
IndexFails ==
    /\ syscall \in {"query", "reread"} /\ snapshot = 0
    /\ Return(FALSE)
    /\ UNCHANGED <<ifindex, slot, since>>

\* Mutant: attaches without BPF_TC_F_REPLACE.
MutantTaken == slot \in {"ours", "other"}

\* The slot is taken, and BPF_TC_F_REPLACE is set for another's program only.
Taken == slot \in {"ours", "other"} /\ state # "kOtherProgram"

Attach ==
    /\ syscall = "attach" /\ hook = ifindex /\ slot # "no clsact" /\ ~Taken
    /\ slot' = "ours" /\ UNCHANGED ifindex
    /\ Return(TRUE)
    /\ UNCHANGED since

\* bpf_tc_detach names the slot, not the program; ENOENT is as good.
Detach ==
    /\ syscall = "detach" /\ hook = ifindex /\ slot # "no clsact"
    /\ slot' = "none" /\ UNCHANGED ifindex
    /\ Return(TRUE)
    /\ UNCHANGED since

\* The kernel has no such interface, no clsact, or the slot is taken.
Refused ==
    /\ \/ syscall = "hook_create" /\ hook # ifindex
       \/ syscall = "attach" /\ (hook # ifindex \/ slot = "no clsact" \/ Taken)
       \/ syscall = "detach" /\ (hook # ifindex \/ slot = "no clsact")
    /\ Return(FALSE)
    /\ UNCHANGED <<ifindex, slot, since>>

\* Any other error of a system call.
CallFails ==
    /\ syscall \in {"hook_create", "attach", "detach"}
    /\ Return(FALSE)
    /\ since' = since \cup {"error"}
    /\ UNCHANGED <<ifindex, slot>>
-----------------------------------------------------------------------------
\* The interface and its filter in others' hands.
Meddle(i, content) ==
    /\ ifindex' = i /\ slot' = content
    /\ since' = since \cup {"meddled", "seized"}
    /\ UNCHANGED <<snapshotVars, syscall, callVars>>

OtherAttaches == Present /\ Meddle(ifindex, "other") /\ UNCHANGED created
OtherDetaches == slot \in {"ours", "other"} /\ Meddle(ifindex, "none") /\ UNCHANGED created
ClsactRemoved == slot # "no clsact" /\ Meddle(ifindex, "no clsact") /\ UNCHANGED created
Removed == Present /\ Meddle(0, "no clsact") /\ UNCHANGED created
Created ==
    /\ ~Present /\ created < MaxIndex
    /\ created' = created + 1
    /\ Meddle(created', "no clsact")

\* The monitor reads the interfaces, and skips what it cannot read; then it publishes.
ReadList ==
    /\ read' \in {0, ifindex}
    /\ UNCHANGED <<kernelVars, snapshot, syscall, callVars, since>>
Publish ==
    /\ snapshot # read
    /\ snapshot' = read
    /\ since' = since \cup {"stale"}
    /\ UNCHANGED <<kernelVars, read, syscall, callVars>>

Others == OtherAttaches \/ OtherDetaches \/ ClsactRemoved \/ Removed \/ Created \/ ReadList \/ Publish
Worker ==
    \/ attach_filter \/ detach_filter \/ NoInterface \/ HookCreate \/ QueryIndex \/ QueryFilter \/ QueryErrs
    \/ DetachIndex \/ IndexFails \/ Attach \/ Detach \/ Refused \/ CallFails

TcNext == Worker \/ Others
TcSpec == TcInit /\ [][TcNext]_tcVars
-----------------------------------------------------------------------------
\* The indexes: each in use was given to the interface once.
IndexesOK ==
    /\ created \in 1..MaxIndex
    /\ ifindex \in 0..created /\ read \in 0..created /\ snapshot \in 0..created
    /\ hook \in 0..created /\ asked \in 0..created
    /\ syscall \in {"hook_create", "attach", "detach"} \/ (op = "attach" /\ syscall # "idle") => hook > 0
    /\ syscall = "asking" => asked > 0

KindsOK ==
    /\ slot \in Slots /\ state \in Answers /\ op \in {"attach", "detach"}
    /\ syscall \in {"idle", "hook_create", "query", "asking", "attach", "reread", "detach"}
    /\ since \subseteq {"stale", "error", "meddled", "seized"} /\ ("seized" \in since => "meddled" \in since)

\* Types; no system call is made for the index 0, which would name no interface,
\* although the index is read up to twice in a call and may be gone the second time.
TcTypeOK == IndexesOK /\ KindsOK /\ result \in BOOLEAN /\ (Present \/ slot = "no clsact")

AsWanted == (op = "attach") = (slot = "ours")

\* A call that returned true leaves the slot of the interface as the policy wants
\* it, unless another changed the interface or the slot meanwhile: the snapshot may
\* be stale, and be replaced between the index reads, and a call may fail half way,
\* but true is never returned for an interface left untouched.  This is what
\* attach_filter(n) and detach_filter(n) of AttachManager assume of a success.
CallAsWanted == syscall = "idle" /\ result /\ "meddled" \notin since => AsWanted

\* A call fails only for a reason: the snapshot did not hold the interface or was
\* replaced, the kernel reported an error, or another interfered.  A missing clsact or
\* a program of another in the slot is no reason.
SettledCallSucceeds == syscall = "idle" /\ since = {} => result

\* detach_filter takes another's program away only if that program got there, or the
\* interface was replaced, after query_filter had seen its own.
DetachOnlyOurs == [][Detach /\ slot = "other" => "seized" \in since]_tcVars
-----------------------------------------------------------------------------
\* What makes the properties above inductive.

\* Where in a call the worker is says which call it is.
Phase ==
    /\ syscall \in {"hook_create", "attach"} => op = "attach"
    /\ syscall \in {"reread", "detach"} => op = "detach"

\* What the worker knows, and the kernel still agrees with, when nothing happened
\* since the call began.
Undisturbed ==
    since = {} /\ syscall # "idle" =>
        /\ Present /\ snapshot = ifindex
        /\ op = "attach" \/ syscall = "detach" => hook = ifindex
        /\ syscall = "asking" => asked = ifindex
        /\ op = "attach" /\ syscall # "hook_create" => slot # "no clsact"
        /\ syscall = "attach" => state = "kOtherProgram" \/ slot = "none"
        /\ syscall \in {"reread", "detach"} => slot = "ours"

\* Between the query that saw its own program and the detach, that program is in
\* the slot unless another changed the interface.
StillOurs == syscall \in {"reread", "detach"} /\ "seized" \notin since => slot = "ours"

\* The inductive invariant: types, phases, both results of a call, what is known on
\* the way to them, and whose program a detach meets (bpf_attach_manager.cpp:220-329).
TcInv == TcTypeOK /\ Phase /\ Undisturbed /\ StillOurs /\ CallAsWanted /\ SettledCallSucceeds
=============================================================================
