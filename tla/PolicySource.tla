---------------------------- MODULE PolicySource ----------------------------
(***************************************************************************)
(* What the manager relies on of its attachers: each has an immutable      *)
(* policy snapshot that API callers replace, and a caller that replaced a  *)
(* snapshot then calls the manager back, holding no lock.  Module Attacher *)
(* implements this; module AttachManager uses it.                          *)
(***************************************************************************)
EXTENDS Integers

CONSTANTS Nics,         \* interface names
          Callers,      \* threads that use the public API
          MaxAttachers  \* bound on create_attacher

ASSUME MaxAttachersAssumption == MaxAttachers \in Nat

VARIABLES attachers,        \* attachers_.size(): the identifiers are 0 .. attachers-1
          policy_snapshot,  \* *policy_snapshot_ of each attacher, as get_targets returns it
          caller            \* which callers owe a callback, or are in it

sourceVars == <<attachers, policy_snapshot, caller>>

Ids == 0 .. MaxAttachers - 1
Policy == [policy : SUBSET Nics, is_all : BOOLEAN]
NoPolicy == [policy |-> {}, is_all |-> FALSE]
Idle == [pc |-> "idle", id |-> 0]

SourceTypeOK ==
    /\ attachers \in 0 .. MaxAttachers
    /\ policy_snapshot \in [Ids -> Policy]
    /\ caller \in [Callers -> [pc : {"idle", "notify", "calling"}, id : Nat]]
    /\ \A c \in Callers : caller[c].pc # "idle" => caller[c].id < attachers

SourceInit ==
    /\ attachers = 0
    /\ policy_snapshot = [a \in Ids |-> NoPolicy]
    /\ caller = [c \in Callers |-> Idle]

\* BpfAttachManager::create_attacher on a valid program: the next identifier.
create_attacher ==
    /\ attachers < MaxAttachers
    /\ attachers' = attachers + 1
    /\ UNCHANGED <<policy_snapshot, caller>>

\* Attacher::change_policy, the part under nics_list_mutex_.
publish(c, a, p) ==
    /\ a < attachers
    /\ caller[c].pc = "idle"
    /\ policy_snapshot' = [policy_snapshot EXCEPT ![a] = p]
    /\ caller' = [caller EXCEPT ![c] = [pc |-> "notify", id |-> a]]
    /\ UNCHANGED attachers

\* notify_change_policy_, entered and left.
EnterCallback(c) ==
    /\ caller[c].pc = "notify"
    /\ caller' = [caller EXCEPT ![c] = [pc |-> "calling", id |-> caller[c].id]]
    /\ UNCHANGED <<attachers, policy_snapshot>>

LeaveCallback(c) ==
    /\ caller[c].pc = "calling"
    /\ caller' = [caller EXCEPT ![c] = Idle]
    /\ UNCHANGED <<attachers, policy_snapshot>>

SourceNext ==
    \/ create_attacher
    \/ \E c \in Callers :
          \/ \E a \in Ids, p \in Policy : publish(c, a, p)
          \/ EnterCallback(c) \/ LeaveCallback(c)

SourceSpec == SourceInit /\ [][SourceNext]_sourceVars
=============================================================================
