-------------------------- MODULE Attacher_proofs --------------------------
(***************************************************************************)
(* Proofs about module Attacher, for any number of attachers, interfaces   *)
(* and callers: type correctness, that no edit of a policy is lost, and    *)
(* that the attachers implement the contract PolicySource.                 *)
(***************************************************************************)
EXTENDS Attacher, TLAPS

LEMMA TypeInit == AttacherInit => AttacherTypeOK
BY AttacherAssumption DEF AttacherInit, AttacherTypeOK, Policy, Modes, Idle, Ids

LEMMA PublishedType ==
    ASSUME AttacherTypeOK, NEW c \in Callers, change_policy(c)
    PROVE  /\ caller[c].id \in Ids /\ caller[c].id < attachers
           /\ LivePolicy(caller[c].id) \in Policy
<1>1. caller[c].id \in Ids /\ caller[c].id < attachers
    BY AttacherAssumption DEF AttacherTypeOK, change_policy, Ids, Idle
<1>2. target_nics[caller[c].id] \in SUBSET Nics
    BY <1>1 DEF AttacherTypeOK
<1>3. (mode[caller[c].id] = "kAttachAll") \in BOOLEAN
    BY Zenon
<1>. QED
    BY <1>1, <1>2, <1>3, Zenon DEF LivePolicy, Policy

LEMMA TypeStep == AttacherTypeOK /\ [AttacherNext]_attacherVars => AttacherTypeOK'
<1> SUFFICES ASSUME AttacherTypeOK, [AttacherNext]_attacherVars
             PROVE  AttacherTypeOK'
    OBVIOUS
<1> USE AttacherAssumption DEF AttacherTypeOK, Ids
<1>1. CASE create_attacher
    BY <1>1 DEF create_attacher
<1>2. ASSUME NEW c \in Callers, NEW a \in Ids, NEW is_changed, BeginEdit(c, a, is_changed)
      PROVE  /\ attachers' \in 0 .. MaxAttachers
             /\ policy_snapshot' \in [Ids -> Policy]
             /\ caller' \in [Callers -> [pc : {"idle", "change", "notify", "calling"}, id : Nat]]
             /\ \A d \in Callers : caller'[d] = Idle \/ (caller'[d].pc # "idle" /\ caller'[d].id < attachers')
    BY <1>2 DEF BeginEdit, Idle
<1>3. ASSUME NEW c \in Callers, NEW a \in Ids, NEW targets \in SUBSET Nics, EditTargets(c, a, targets)
      PROVE  AttacherTypeOK'
    BY <1>2, <1>3 DEF EditTargets
<1>4. ASSUME NEW c \in Callers, NEW a \in Ids, NEW m \in Modes, set_mode(c, a, m)
      PROVE  AttacherTypeOK'
    BY <1>2, <1>4 DEF set_mode
<1>5. ASSUME NEW c \in Callers, NEW a \in Ids, Edit(c, a)
      PROVE  AttacherTypeOK'
    BY <1>3, <1>4, <1>5 DEF Edit, add_target, remove_target, clear_targets
<1>6. ASSUME NEW c \in Callers, change_policy(c)
      PROVE  AttacherTypeOK'
  <2>1. caller[c].id \in Ids /\ caller[c].id < attachers /\ LivePolicy(caller[c].id) \in Policy
    BY <1>6, PublishedType
  <2>. QED
    BY <1>6, <2>1 DEF change_policy
<1>7. ASSUME NEW c \in Callers, EnterCallback(c)
      PROVE  AttacherTypeOK'
    BY <1>7 DEF EnterCallback, Idle
<1>8. ASSUME NEW c \in Callers, LeaveCallback(c)
      PROVE  AttacherTypeOK'
    BY <1>8 DEF LeaveCallback, Idle
<1>9. CASE UNCHANGED attacherVars
    BY <1>9 DEF attacherVars
<1>. QED
    BY <1>1, <1>5, <1>6, <1>7, <1>8, <1>9 DEF AttacherNext

\* Every state the attachers reach is well typed; in particular a caller only
\* ever works on an attacher that create_attacher has made.
THEOREM AttacherTypeCorrect == AttacherSpec => []AttacherTypeOK
BY TypeInit, TypeStep, PTL DEF AttacherSpec

LEMMA CurrentStep ==
    ASSUME AttacherTypeOK, SnapshotCurrent, [AttacherNext]_attacherVars
    PROVE  SnapshotCurrent'
<1> SUFFICES ASSUME NEW a \in Ids, ~Unpublished(a)'
             PROVE  SameDemand(policy_snapshot[a], LivePolicy(a))'
    BY DEF SnapshotCurrent
<1> USE DEF AttacherTypeOK
<1>0. ~Unpublished(a) => SameDemand(policy_snapshot[a], LivePolicy(a))
    BY DEF SnapshotCurrent
<1>1. CASE create_attacher
    BY <1>0, <1>1 DEF create_attacher, Unpublished, SameDemand, LivePolicy
<1>2. ASSUME NEW c \in Callers, NEW b \in Ids, NEW is_changed, BeginEdit(c, b, is_changed)
      PROVE  ~Unpublished(a) /\ (a = b => ~is_changed)
    BY <1>2 DEF BeginEdit, Unpublished, Idle
<1>3. ASSUME NEW c \in Callers, NEW b \in Ids, NEW targets, EditTargets(c, b, targets)
      PROVE  SameDemand(policy_snapshot[a], LivePolicy(a))'
  <2>1. /\ SameDemand(policy_snapshot[a], LivePolicy(a))
        /\ a = b => targets = target_nics[a] \/ mode[a] = "kAttachAll"
    BY <1>0, <1>2, <1>3 DEF EditTargets, Modes
  <2>. QED
    BY <1>3, <2>1 DEF EditTargets, BeginEdit, SameDemand, LivePolicy
<1>4. ASSUME NEW c \in Callers, NEW b \in Ids, NEW m \in Modes, set_mode(c, b, m)
      PROVE  SameDemand(policy_snapshot[a], LivePolicy(a))'
  <2>1. SameDemand(policy_snapshot[a], LivePolicy(a)) /\ (a = b => mode[a] = m)
    BY <1>0, <1>2, <1>4 DEF set_mode
  <2>. QED
    BY <1>4, <2>1 DEF set_mode, BeginEdit, SameDemand, LivePolicy
<1>5. ASSUME NEW c \in Callers, NEW b \in Ids, Edit(c, b)
      PROVE  SameDemand(policy_snapshot[a], LivePolicy(a))'
    BY <1>3, <1>4, <1>5 DEF Edit, add_target, remove_target, clear_targets
<1>6. ASSUME NEW c \in Callers, change_policy(c)
      PROVE  SameDemand(policy_snapshot[a], LivePolicy(a))'
  <2>1. CASE a = caller[c].id
    BY <1>6, <2>1 DEF change_policy, SameDemand, LivePolicy
  <2>2. CASE a # caller[c].id
    <3>1. ~Unpublished(a)
        BY <1>6, <2>2 DEF change_policy, Unpublished
    <3>. QED
        BY <1>0, <1>6, <2>2, <3>1 DEF change_policy, SameDemand, LivePolicy
  <2>. QED
    BY <2>1, <2>2
<1>7. ASSUME NEW c \in Callers, EnterCallback(c) \/ LeaveCallback(c)
      PROVE  SameDemand(policy_snapshot[a], LivePolicy(a))'
  <2>1. ~Unpublished(a)
    BY <1>7 DEF EnterCallback, LeaveCallback, Unpublished, Idle
  <2>. QED
    BY <1>0, <1>7, <2>1 DEF EnterCallback, LeaveCallback, SameDemand, LivePolicy
<1>8. CASE UNCHANGED attacherVars
    BY <1>0, <1>8 DEF attacherVars, Unpublished, SameDemand, LivePolicy
<1>. QED
    BY <1>1, <1>5, <1>6, <1>7, <1>8 DEF AttacherNext

\* However the edits of any number of callers interleave, and whatever is
\* edited under kAttachAll, the published snapshot asks for what the live
\* targets and mode ask for as soon as no change_policy is outstanding.
THEOREM NoEditLost == AttacherSpec => []SnapshotCurrent
<1>1. AttacherInit => SnapshotCurrent
    BY DEF AttacherInit, SnapshotCurrent, SameDemand, LivePolicy
<1>2. AttacherTypeOK /\ SnapshotCurrent /\ [AttacherNext]_attacherVars => SnapshotCurrent'
    BY CurrentStep
<1>. QED
    BY <1>1, <1>2, AttacherTypeCorrect, PTL DEF AttacherSpec

LEMMA SourceInitMaps == AttacherInit => Source!SourceInit
BY DEF AttacherInit, Source!SourceInit, Source!NoPolicy, Source!Idle, Ids, Source!Ids, Idle

LEMMA SourceStepMaps ==
    ASSUME AttacherTypeOK, [AttacherNext]_attacherVars
    PROVE  [Source!SourceNext]_(Source!sourceVars)
<1> USE DEF AttacherTypeOK
<1>1. CASE create_attacher
    BY <1>1 DEF create_attacher, Source!SourceNext, Source!create_attacher
<1> DEFINE seen(d) == IF caller[d].pc = "change" THEN Idle ELSE caller[d]
<1>2. ASSUME NEW c \in Callers, NEW a \in Ids, Edit(c, a)
      PROVE  UNCHANGED Source!sourceVars
  <2>1. PICK is_changed : BeginEdit(c, a, is_changed)
    BY <1>2 DEF Edit, add_target, remove_target, clear_targets, EditTargets, set_mode
  <2>2. \A d \in Callers : seen(d)' = seen(d)
    BY <2>1 DEF BeginEdit, Idle
  <2>. QED
    BY <2>1, <2>2 DEF BeginEdit, Source!sourceVars
<1>3. ASSUME NEW c \in Callers, change_policy(c)
      PROVE  Source!SourceNext
  <2>1. PICK a \in Ids, p \in Policy : a = caller[c].id /\ a < attachers /\ p = LivePolicy(a)
    BY <1>3, PublishedType
  <2>2. seen(c) = Idle /\ seen(c)' = [pc |-> "notify", id |-> a]
    BY <1>3, <2>1 DEF change_policy, Idle
  <2>3. \A d \in Callers \ {c} : seen(d)' = seen(d)
    BY <1>3 DEF change_policy
  <2>4. Source!publish(c, a, p)
    BY <1>3, <2>1, <2>2, <2>3 DEF change_policy, Source!publish, Idle
  <2>. QED
    <3>1. a \in Source!Ids /\ p \in Source!Policy
        BY <2>1 DEF Source!Ids, Ids, Source!Policy, Policy
    <3>. QED
        BY <2>4, <3>1 DEF Source!SourceNext
<1>4. ASSUME NEW c \in Callers, EnterCallback(c)
      PROVE  Source!SourceNext
    BY <1>4 DEF EnterCallback, Source!SourceNext, Source!EnterCallback
<1>5. ASSUME NEW c \in Callers, LeaveCallback(c)
      PROVE  Source!SourceNext
  <2>1. seen(c) = caller[c] /\ seen(c)' = Idle
    BY <1>5 DEF LeaveCallback, Idle
  <2>2. \A d \in Callers \ {c} : seen(d)' = seen(d)
    BY <1>5 DEF LeaveCallback
  <2>. QED
    BY <1>5, <2>1, <2>2 DEF LeaveCallback, Source!SourceNext, Source!LeaveCallback, Source!Idle, Idle
<1>6. CASE UNCHANGED attacherVars
    BY <1>6 DEF attacherVars, Source!sourceVars
<1>. QED
    BY <1>1, <1>2, <1>3, <1>4, <1>5, <1>6 DEF AttacherNext

\* The attachers implement the contract module AttachManager is built on.
THEOREM AttacherImplementsSource == AttacherSpec => ImplementsSource
BY SourceInitMaps, SourceStepMaps, AttacherTypeCorrect, PTL
   DEF AttacherSpec, ImplementsSource, Source!SourceSpec
=============================================================================
