------------------------------ MODULE Attacher ------------------------------
(***************************************************************************)
(* bpf_tool::Attacher (bpf_attacher.h, bpf_attacher.cpp): the desired TC   *)
(* policy of each attached program, edited by concurrent API callers.      *)
(*                                                                         *)
(* An edit takes nics_list_mutex_ twice: once to change the live targets   *)
(* or mode, once more in change_policy to publish an immutable snapshot.   *)
(* The callback then runs with no lock held.  Each of these is one action, *)
(* so the edits of two callers interleave between them.                    *)
(***************************************************************************)
EXTENDS Integers

CONSTANTS Nics, Callers, MaxAttachers

ASSUME AttacherAssumption == MaxAttachers \in Nat

VARIABLES attachers,        \* number of attachers; identifiers are 0 .. attachers-1
          mode,             \* mode_ of each attacher
          target_nics,      \* target_nics_
          policy_snapshot,  \* *policy_snapshot_
          caller            \* where each API thread is in its edit

attacherVars == <<attachers, mode, target_nics, policy_snapshot, caller>>

Ids == 0 .. MaxAttachers - 1
Modes == {"kAttachSelective", "kAttachAll"}
Policy == [policy : SUBSET Nics, is_all : BOOLEAN]
Idle == [pc |-> "idle", id |-> 0]

\* Every variable has its type, and an edit is of an attacher that exists
\* (bpf_attach_manager.h:72-73).
AttacherTypeOK ==
    /\ attachers \in 0 .. MaxAttachers
    /\ mode \in [Ids -> Modes]
    /\ target_nics \in [Ids -> SUBSET Nics]
    /\ policy_snapshot \in [Ids -> Policy]
    /\ caller \in [Callers -> [pc : {"idle", "change", "notify", "calling"}, id : Nat]]
    /\ \A c \in Callers : caller[c] = Idle \/ (caller[c].pc # "idle" /\ caller[c].id < attachers)

\* A new attacher is selective, has no targets and has an empty snapshot.
AttacherInit ==
    /\ attachers = 0
    /\ mode = [a \in Ids |-> "kAttachSelective"]
    /\ target_nics = [a \in Ids |-> {}]
    /\ policy_snapshot = [a \in Ids |-> [policy |-> {}, is_all |-> FALSE]]
    /\ caller = [c \in Callers |-> Idle]
-----------------------------------------------------------------------------
create_attacher ==
    /\ attachers < MaxAttachers
    /\ attachers' = attachers + 1
    /\ UNCHANGED <<mode, target_nics, policy_snapshot, caller>>

\* The shape the edits share: change_policy runs only if is_changed.
BeginEdit(c, a, is_changed) ==
    /\ caller[c].pc = "idle"
    /\ a < attachers
    /\ caller' = [caller EXCEPT ![c] = IF is_changed THEN [pc |-> "change", id |-> a] ELSE Idle]
    /\ UNCHANGED <<attachers, policy_snapshot>>

\* Under kAttachAll an edit of the targets is kept but not published.
EditTargets(c, a, targets) ==
    /\ BeginEdit(c, a, targets # target_nics[a] /\ mode[a] = "kAttachSelective")
    /\ target_nics' = [target_nics EXCEPT ![a] = targets]
    /\ UNCHANGED mode

add_target(c, a, n) == EditTargets(c, a, target_nics[a] \cup {n})
remove_target(c, a, n) == EditTargets(c, a, target_nics[a] \ {n})
clear_targets(c, a) == EditTargets(c, a, {})

\* Mutant: leaving kAttachAll is not taken for a change of the policy.
MutantSetMode(c, a, m) ==
    /\ BeginEdit(c, a, mode[a] # m /\ m = "kAttachAll")
    /\ mode' = [mode EXCEPT ![a] = m]
    /\ UNCHANGED target_nics

set_mode(c, a, m) ==
    /\ BeginEdit(c, a, mode[a] # m)
    /\ mode' = [mode EXCEPT ![a] = m]
    /\ UNCHANGED target_nics

LivePolicy(a) == [policy |-> target_nics[a], is_all |-> mode[a] = "kAttachAll"]

\* Mutant: the snapshot is replaced and nobody is called back.
MutantChangePolicySilently(c) ==
    /\ caller[c].pc = "change"
    /\ policy_snapshot' = [policy_snapshot EXCEPT ![caller[c].id] = LivePolicy(caller[c].id)]
    /\ caller' = [caller EXCEPT ![c] = Idle]
    /\ UNCHANGED <<attachers, mode, target_nics>>

\* What is published is the live policy when the lock is taken again, which
\* another caller may have changed since.
change_policy(c) ==
    /\ caller[c].pc = "change"
    /\ policy_snapshot' = [policy_snapshot EXCEPT ![caller[c].id] = LivePolicy(caller[c].id)]
    /\ caller' = [caller EXCEPT ![c] = [pc |-> "notify", id |-> caller[c].id]]
    /\ UNCHANGED <<attachers, mode, target_nics>>

EnterCallback(c) ==
    /\ caller[c].pc = "notify"
    /\ caller' = [caller EXCEPT ![c] = [pc |-> "calling", id |-> caller[c].id]]
    /\ UNCHANGED <<attachers, mode, target_nics, policy_snapshot>>

LeaveCallback(c) ==
    /\ caller[c].pc = "calling"
    /\ caller' = [caller EXCEPT ![c] = Idle]
    /\ UNCHANGED <<attachers, mode, target_nics, policy_snapshot>>

Edit(c, a) ==
    \/ \E n \in Nics : add_target(c, a, n) \/ remove_target(c, a, n)
    \/ clear_targets(c, a)
    \/ \E m \in Modes : set_mode(c, a, m)

AttacherNext ==
    \/ create_attacher
    \/ \E c \in Callers :
          \/ \E a \in Ids : Edit(c, a)
          \/ change_policy(c) \/ EnterCallback(c) \/ LeaveCallback(c)

AttacherSpec == AttacherInit /\ [][AttacherNext]_attacherVars
-----------------------------------------------------------------------------
\* Two policies that ask for the same attachments on every interface.
SameDemand(p, q) == p.is_all = q.is_all /\ (~p.is_all => p.policy = q.policy)

\* Some caller changed the live policy of a and has not published it yet.
Unpublished(a) == \E c \in Callers : caller[c].pc = "change" /\ caller[c].id = a

\* Whenever no caller is between its edit and change_policy, the published
\* snapshot asks for exactly what the live targets and mode ask for: neither
\* interleaved edits nor edits made under kAttachAll are lost.
SnapshotCurrent ==
    \A a \in Ids : ~Unpublished(a) => SameDemand(policy_snapshot[a], LivePolicy(a))

\* What the manager relies on: a caller that has not published yet counts as
\* idle, an edit is invisible, and a snapshot is replaced exactly when a
\* callback becomes due.
Source == INSTANCE PolicySource WITH
    caller <- [c \in Callers |-> IF caller[c].pc = "change" THEN Idle ELSE caller[c]]

\* Every behaviour of the attachers is one the manager is built for: change_policy
\* never replaces a snapshot without the callback that follows (bpf_attacher.cpp:78-90).
ImplementsSource == Source!SourceSpec
=============================================================================
