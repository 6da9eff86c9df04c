---------------------------- MODULE Maps_proofs ----------------------------
(***************************************************************************)
(* Proofs about modules MapHandle, Startup and MapEntries, for any number  *)
(* of wrappers, paths, maps, descriptors, starting processes, users of a   *)
(* map, keys and entries.                                                  *)
(*                                                                         *)
(* HandleInv is inductive.  That an owner's path leads to its map is not:  *)
(* a wrapper whose remove() is on its way has given up its ownership and   *)
(* still acts on the path (Rightful), a map lives as long as something     *)
(* refers to it (MapsLive), and a descriptor that is free has no holder    *)
(* (Holders).  StartupInv adds how far each open_or_create is, and         *)
(* EntriesInv that the key a clear() has read is still in the map.         *)
(***************************************************************************)
EXTENDS Startup, MapEntries, FiniteSetTheorems, WellFoundedInduction, TLAPS

\* The types of MapHandle's variables.
TypesOK ==
    /\ wrapper \in [Handles -> Wrapper]
    /\ pc \in [Handles -> {"rest", "get", "info", "pin", "remove"}] /\ arg \in [Handles -> Paths \cup {None}]
    /\ files \in [Fds -> Maps \cup {Prog, None}] /\ pins \in [Paths -> Maps \cup {None}]
    /\ maps \in [Maps -> Layout \cup {None}]
    /\ prog_fd \in Fds \cup {None} /\ programs \subseteq Fds

\* A call in progress.
CallOK(h) ==
    /\ arg[h] = None <=> pc[h] = "rest"
    /\ pc[h] = "get" => ~IsOpen(h)
    /\ pc[h] \in {"info", "pin", "remove"} => IsOpen(h)
    /\ wrapper[h].owner => pc[h] = "rest" /\ IsOpen(h) /\ wrapper[h].path # None
    /\ pc[h] = "remove" => wrapper[h].path = arg[h]

\* Every call in progress is where the state of its wrapper says.
CallsOK == \A h \in Handles : CallOK(h)

\* A map lives if something refers to it.
MapsLive ==
    \A m \in Maps : maps[m] # None <=> (\E f \in Fds : files[f] = m) \/ (\E p \in Paths : pins[p] = m)

\* Every descriptor has one holder.
WrappersHold ==
    /\ \A h \in Handles : IsOpen(h) => MapOf(h) \in Maps
    /\ \A g, h \in Handles : IsOpen(g) /\ wrapper[g].fd = wrapper[h].fd => g = h
    /\ \A h \in Handles : wrapper[h].buffer # None => wrapper[h].buffer = wrapper[h].fd

\* A BpfProgram, or load_program before it makes one, holds a program.
ProgramsHold ==
    /\ \A f \in programs : files[f] = Prog
    /\ prog_fd # None => files[prog_fd] = Prog
    /\ prog_fd \notin programs

\* Nothing else holds a descriptor, so no open one is without a holder.
AllHeld == \A f \in Fds : files[f] # None => f \in programs \/ f = prog_fd \/ \E h \in Handles : wrapper[h].fd = f

\* Who holds the descriptors.
Holders == WrappersHold /\ ProgramsHold /\ AllHeld

\* Owner, or about to remove.
Claims(h) == wrapper[h].owner \/ pc[h] = "remove"

\* The claim of a wrapper whose pin nobody has taken away.
Rightful(h) == Claims(h) /\ ~wrapper[h].removed

\* The path of a rightful claim leads to the claimant's map, and to nobody else's claim.
PinsOK ==
    /\ \A h \in Handles : Rightful(h) => pins[wrapper[h].path] = MapOf(h)
    /\ \A g, h \in Handles : Rightful(g) /\ Rightful(h) /\ wrapper[g].path = wrapper[h].path => g = h

\* A wrapper keeps no map that map_info would refuse.
LayoutsOK == \A h \in Handles : IsOpen(h) /\ pc[h] # "info" => Fits(wrapper[h], MapOf(h))

\* The inductive invariant.
HandleInv == TypesOK /\ CallsOK /\ MapsLive /\ Holders /\ PinsOK /\ LayoutsOK
-----------------------------------------------------------------------------
\* Every set of naturals that is not empty has a least member.
LEMMA LeastNat ==
    ASSUME NEW S, S \subseteq Nat, S # {}
    PROVE  \E x \in S : \A y \in S : x <= y
<1> DEFINE R == {ss \in Nat \X Nat : ss[1] < ss[2]}
<1>1. IsWellFoundedOn(R, Nat)
    BY NatLessThanWellFounded, Zenon DEF OpToRel
<1>2. \E x \in S : \A y \in S : <<y, x>> \notin R
  <2> HIDE DEF R
  <2>. QED
    BY <1>1, WFMin, Zenon
<1>3. \A x, y \in Nat : <<y, x>> \notin R => x <= y
    OBVIOUS
<1>. QED
    BY <1>2, <1>3, Zenon

\* So Min, the next descriptor the kernel gives out, is a member.
LEMMA MinIsMember ==
    ASSUME NEW S, S \subseteq Nat, S # {}
    PROVE  Min(S) \in S
BY LeastNat, Zenon DEF Min

\* The descriptor, or the map, the kernel takes next is free.
LEMMA FreeIsFree ==
    /\ FreeFds # {} => Min(FreeFds) \in Fds /\ files[Min(FreeFds)] = None
    /\ FreeMaps # {} => Min(FreeMaps) \in Maps /\ maps[Min(FreeMaps)] = None
<1>1. FreeFds # {} => Min(FreeFds) \in FreeFds
    BY MinIsMember, HandleAssumption DEF FreeFds, Fds
<1>2. FreeMaps # {} => Min(FreeMaps) \in FreeMaps
    BY MinIsMember, HandleAssumption DEF FreeMaps, Maps
<1>. QED
    BY <1>1, <1>2 DEF FreeFds, FreeMaps

\* A descriptor or a pin refers to m.
Used(F, P, m) == (\E f \in Fds : F[f] = m) \/ (\E p \in Paths : P[p] = m)

\* What a system call leaves in the kernel's tables.
LEMMA KernelEffect ==
    ASSUME NEW F, NEW P, NEW M, Kernel(F, P, M), DOMAIN F = Fds, DOMAIN P = Paths
    PROVE  /\ files' = F /\ pins' = P
           /\ maps' = [m \in Maps |-> IF Used(F, P, m) THEN M[m] ELSE None]
BY DEF Kernel, Range, Used

\* A wrapper v made from w.
Is(v, w, fd, path, owner, buffer, removed) ==
    /\ v \in Wrapper /\ v.fd = fd /\ v.path = path /\ (v.owner <=> owner) /\ v.buffer = buffer /\ (v.removed <=> removed)
    /\ v.type = w.type /\ v.size = w.size

\* The forms in which the actions change a wrapper.
LEMMA WrapperForms ==
    ASSUME NEW w \in Wrapper
    PROVE  /\ Is(w, w, w.fd, w.path, w.owner, w.buffer, w.removed)
           /\ Is(Closed(w), w, None, None, FALSE, None, FALSE)
           /\ Is([Closed(w) EXCEPT !.name = None], w, None, None, FALSE, None, FALSE)
           /\ \A f \in Fds \cup {None} :
                /\ Is([w EXCEPT !.fd = f], w, f, w.path, w.owner, w.buffer, w.removed)
                /\ Is([w EXCEPT !.buffer = f], w, w.fd, w.path, w.owner, f, w.removed)
           /\ \A p \in Paths :
                /\ \A n \in Names : Is([w EXCEPT !.path = p, !.name = n], w, w.fd, p, w.owner, w.buffer, w.removed)
                /\ Is([w EXCEPT !.path = p, !.owner = TRUE], w, w.fd, p, TRUE, w.buffer, w.removed)
           /\ Is([w EXCEPT !.owner = FALSE], w, w.fd, w.path, FALSE, w.buffer, w.removed)
           /\ Is([w EXCEPT !.owner = TRUE], w, w.fd, w.path, TRUE, w.buffer, w.removed)
           /\ Is([w EXCEPT !.owner = FALSE, !.path = None, !.removed = FALSE], w, w.fd, None, FALSE, w.buffer, FALSE)
           /\ Is([w EXCEPT !.path = None, !.removed = FALSE], w, w.fd, None, w.owner, w.buffer, FALSE)
           /\ Is([w EXCEPT !.removed = TRUE], w, w.fd, w.path, w.owner, w.buffer, TRUE)
<1>1. None \in Names
    BY HandleAssumption
<1> USE ZenonT(30) DEF Is, Wrapper, Closed
<1>2. Is(w, w, w.fd, w.path, w.owner, w.buffer, w.removed)
    OBVIOUS
<1>3. Is(Closed(w), w, None, None, FALSE, None, FALSE)
    OBVIOUS
<1>4. Is([Closed(w) EXCEPT !.name = None], w, None, None, FALSE, None, FALSE)
    BY <1>1
<1>5. ASSUME NEW f \in Fds \cup {None}
      PROVE  /\ Is([w EXCEPT !.fd = f], w, f, w.path, w.owner, w.buffer, w.removed)
             /\ Is([w EXCEPT !.buffer = f], w, w.fd, w.path, w.owner, f, w.removed)
    OBVIOUS
<1>6. ASSUME NEW p \in Paths
      PROVE  /\ \A n \in Names : Is([w EXCEPT !.path = p, !.name = n], w, w.fd, p, w.owner, w.buffer, w.removed)
             /\ Is([w EXCEPT !.path = p, !.owner = TRUE], w, w.fd, p, TRUE, w.buffer, w.removed)
    OBVIOUS
<1>7. /\ Is([w EXCEPT !.owner = FALSE], w, w.fd, w.path, FALSE, w.buffer, w.removed)
      /\ Is([w EXCEPT !.owner = TRUE], w, w.fd, w.path, TRUE, w.buffer, w.removed)
    OBVIOUS
<1>8. Is([w EXCEPT !.owner = FALSE, !.path = None, !.removed = FALSE], w, w.fd, None, FALSE, w.buffer, FALSE)
    OBVIOUS
<1>9. /\ Is([w EXCEPT !.path = None, !.removed = FALSE], w, w.fd, None, w.owner, w.buffer, FALSE)
      /\ Is([w EXCEPT !.removed = TRUE], w, w.fd, w.path, w.owner, w.buffer, TRUE)
    OBVIOUS
<1> HIDE DEF Is, Closed
<1>. QED
    BY <1>2, <1>3, <1>4, <1>5, <1>6, <1>7, <1>8, <1>9

\* A constructed wrapper is closed.
LEMMA ConstructedForm ==
    ASSUME NEW h \in Handles
    PROVE  Constructed(h) \in Wrapper /\ Constructed(h).fd = None /\ Constructed(h).buffer = None /\ ~Constructed(h).owner
<1>1. Request[h].type \in Types /\ Request[h].size \in Sizes /\ Request[h].name \in Names
    BY HandleAssumption DEF Layout
<1>. QED
    BY <1>1, Zenon DEF Constructed, Wrapper

\* The types of what belongs to the processes.
ProcessTypes ==
    /\ wrapper \in [Handles -> Wrapper]
    /\ pc \in [Handles -> {"rest", "get", "info", "pin", "remove"}] /\ arg \in [Handles -> Paths \cup {None}]

\* The step makes this of h, and nothing of the other wrappers.
Becomes(h, place, p, fd, path, owner, buffer, removed) ==
    /\ ProcessTypes'
    /\ \A g \in Handles \ {h} : wrapper'[g] = wrapper[g] /\ pc'[g] = pc[g] /\ arg'[g] = arg[g]
    /\ pc'[h] = place /\ arg'[h] = p
    /\ Is(wrapper'[h], wrapper[h], fd, path, owner, buffer, removed)

\* The call of h goes on, and its wrapper stays as it is.
Same(h, place, p) ==
    Becomes(h, place, p, wrapper[h].fd, wrapper[h].path, wrapper[h].owner, wrapper[h].buffer, wrapper[h].removed)

\* What Goes does.
LEMMA GoesEffect ==
    ASSUME ProcessTypes, NEW h \in Handles, NEW v, NEW place \in {"rest", "get", "info", "pin", "remove"},
           NEW p \in Paths \cup {None}, Goes(h, v, place, p),
           NEW fd, NEW path, NEW owner, NEW buffer, NEW removed, Is(v, wrapper[h], fd, path, owner, buffer, removed)
    PROVE  Becomes(h, place, p, fd, path, owner, buffer, removed)
<1>1. v \in Wrapper
    BY DEF Is
<1>2. wrapper' = [wrapper EXCEPT ![h] = v] /\ pc' = [pc EXCEPT ![h] = place] /\ arg' = [arg EXCEPT ![h] = p]
    BY DEF Goes
<1>3. wrapper'[h] = v /\ pc'[h] = place /\ arg'[h] = p
    BY <1>2 DEF ProcessTypes
<1>. QED
    BY <1>1, <1>2, <1>3, Zenon DEF Becomes, ProcessTypes

\* What each step of a call does to the wrapper it is called on.
LEMMA CallEffects ==
    ASSUME TypesOK, CallsOK, Holders, MapsLive, NEW h \in Handles
    PROVE  /\ \A p \in Paths : OpenPinned(h, p) => Same(h, "get", p)
           /\ \A p \in Paths : Pin(h, p) => Same(h, "pin", p)
           /\ ObjGetFails(h) \/ ObjPinFails(h) => Same(h, "rest", None)
           /\ MapInfo(h) =>
                Becomes(h, "rest", None, wrapper[h].fd, arg[h], wrapper[h].owner, wrapper[h].buffer, wrapper[h].removed)
           /\ \A made \in BOOLEAN : EventBufferCreate(h, made) =>
                \E b \in {None, wrapper[h].fd} :
                    Becomes(h, "rest", None, wrapper[h].fd, wrapper[h].path, wrapper[h].owner, b, wrapper[h].removed)
           /\ ObjGet(h) =>
                Becomes(h, "info", arg[h], Min(FreeFds), wrapper[h].path, wrapper[h].owner, wrapper[h].buffer, wrapper[h].removed)
           /\ OpenNew(h) =>
                Becomes(h, "rest", None, Min(FreeFds), wrapper[h].path, wrapper[h].owner, wrapper[h].buffer, wrapper[h].removed)
           /\ MapInfoFails(h) \/ Close(h) => Becomes(h, "rest", None, None, None, FALSE, None, FALSE)
           /\ ObjPin(h) => Becomes(h, "rest", None, wrapper[h].fd, arg[h], TRUE, wrapper[h].buffer, wrapper[h].removed)
           /\ Unpin(h) =>
                Becomes(h, "remove", wrapper[h].path, wrapper[h].fd, wrapper[h].path, FALSE, wrapper[h].buffer, wrapper[h].removed)
           /\ UnpinWithoutPin(h) => Becomes(h, "rest", None, wrapper[h].fd, None, FALSE, wrapper[h].buffer, FALSE)
           /\ RemovePinFails(h) =>
                Becomes(h, "rest", None, wrapper[h].fd, wrapper[h].path, TRUE, wrapper[h].buffer, wrapper[h].removed)
<1> DEFINE w == wrapper[h]
<1>1. ProcessTypes /\ w \in Wrapper
    BY DEF TypesOK, ProcessTypes
<1>2. w.fd \in Fds \cup {None} /\ w.path \in Paths \cup {None} /\ CallOK(h)
    BY <1>1 DEF Wrapper, CallsOK
<1> HIDE DEF w
<1> USE ZenonT(30)
<1>3. ASSUME NEW p \in Paths
      PROVE  (OpenPinned(h, p) => Same(h, "get", p)) /\ (Pin(h, p) => Same(h, "pin", p))
    BY <1>1, WrapperForms, GoesEffect DEF OpenPinned, Pin, Same, w
<1>4. ObjGetFails(h) \/ ObjPinFails(h) => Same(h, "rest", None)
    BY <1>1, WrapperForms, GoesEffect DEF ObjGetFails, ObjPinFails, Same, w, Returns
<1>5. ASSUME MapInfo(h)
      PROVE  Becomes(h, "rest", None, w.fd, arg[h], w.owner, w.buffer, w.removed)
  <2>1. arg[h] \in Paths /\ MapOf(h) \in Maps /\ w.fd \in Fds
    BY <1>1, <1>2, <1>5, SMT DEF MapInfo, CallOK, Holders, WrappersHold, IsOpen, w, ProcessTypes
  <2>2. maps[MapOf(h)] # None
    BY <2>1, SMT DEF MapsLive, MapOf, w
  <2>3. maps[MapOf(h)].name \in Names
    BY <2>1, <2>2, SMT DEF Layout, TypesOK
  <2>. QED
    BY <1>1, <1>5, <2>1, <2>3, WrapperForms, GoesEffect DEF MapInfo, Returns, w
<1>6. ASSUME NEW made \in BOOLEAN, EventBufferCreate(h, made)
      PROVE  \E b \in {None, w.fd} : Becomes(h, "rest", None, w.fd, w.path, w.owner, b, w.removed)
  <2> DEFINE b == IF made THEN w.fd ELSE None
  <2>1. b \in {None, w.fd} /\ b \in Fds \cup {None}
    BY <1>2
  <2>2. Returns(h, [w EXCEPT !.buffer = b])
    BY <1>6 DEF EventBufferCreate, w
  <2> HIDE DEF b
  <2>. QED
    BY <1>1, <2>1, <2>2, WrapperForms, GoesEffect DEF Returns, w
<1>7. ASSUME ObjGet(h)
      PROVE  Becomes(h, "info", arg[h], Min(FreeFds), w.path, w.owner, w.buffer, w.removed)
  <2>1. arg[h] \in Paths \cup {None} /\ Min(FreeFds) \in Fds
    BY <1>1, <1>7, FreeIsFree DEF ObjGet, ProcessTypes
  <2>. QED
    BY <1>1, <1>7, <2>1, WrapperForms, GoesEffect DEF ObjGet, w
<1>8. ASSUME OpenNew(h)
      PROVE  Becomes(h, "rest", None, Min(FreeFds), w.path, w.owner, w.buffer, w.removed)
  <2>1. Min(FreeFds) \in Fds
    BY <1>8, FreeIsFree DEF OpenNew
  <2>. QED
    BY <1>1, <1>8, <2>1, WrapperForms, GoesEffect DEF OpenNew, w, Returns
<1>9. MapInfoFails(h) \/ Close(h) => Becomes(h, "rest", None, None, None, FALSE, None, FALSE)
    BY <1>1, WrapperForms, GoesEffect DEF MapInfoFails, Close, w, Returns
<1>10. ASSUME ObjPin(h)
       PROVE  Becomes(h, "rest", None, w.fd, arg[h], TRUE, w.buffer, w.removed)
  <2>1. arg[h] \in Paths
    BY <1>1, <1>2, <1>10, SMT DEF ObjPin, CallOK, ProcessTypes
  <2>. QED
    BY <1>1, <1>10, <2>1, WrapperForms, GoesEffect DEF ObjPin, w, Returns
<1>11. Unpin(h) => Becomes(h, "remove", w.path, w.fd, w.path, FALSE, w.buffer, w.removed)
    BY <1>1, <1>2, WrapperForms, GoesEffect DEF Unpin, w
<1>12. UnpinWithoutPin(h) => Becomes(h, "rest", None, w.fd, None, FALSE, w.buffer, FALSE)
    BY <1>1, WrapperForms, GoesEffect DEF UnpinWithoutPin, w, Returns
<1>13. RemovePinFails(h) => Becomes(h, "rest", None, w.fd, w.path, TRUE, w.buffer, w.removed)
    BY <1>1, WrapperForms, GoesEffect DEF RemovePinFails, w, Returns
<1>. QED
    BY <1>3, <1>4, <1>5, <1>6, <1>7, <1>8, <1>9, <1>10, <1>11, <1>12, <1>13 DEF w

\* Losing a pin to somebody else changes nothing but the mark of it.
Loses(g, loses) ==
    Is(wrapper'[g], wrapper[g], wrapper[g].fd, wrapper[g].path, wrapper[g].owner, wrapper[g].buffer,
       wrapper[g].removed \/ loses)

\* The owners of a path that is removed are marked, and nothing else happens to them.
LEMMA LosePinEffect ==
    ASSUME ProcessTypes, NEW p, NEW g \in Handles, wrapper'[g] = LosePin(p)[g]
    PROVE  Loses(g, wrapper[g].path = p /\ Claims(g))
<1>1. wrapper[g] \in Wrapper
    BY DEF ProcessTypes
<1>2. CASE wrapper[g].path = p /\ Claims(g)
  <2>1. wrapper'[g] = [wrapper[g] EXCEPT !.removed = TRUE]
    BY <1>2, Zenon DEF LosePin, Claims
  <2>2. Is([wrapper[g] EXCEPT !.removed = TRUE], wrapper[g], wrapper[g].fd, wrapper[g].path, wrapper[g].owner, wrapper[g].buffer, TRUE)
    BY <1>1, WrapperForms, Zenon
  <2>. QED
    BY <1>2, <2>1, <2>2, Zenon DEF Loses, Is
<1>3. CASE ~(wrapper[g].path = p /\ Claims(g))
  <2>1. wrapper'[g] = wrapper[g]
    BY <1>3, Zenon DEF LosePin, Claims
  <2>. QED
    BY <1>1, <1>3, <2>1, Zenon DEF Loses, Is
<1>. QED
    BY <1>2, <1>3, Zenon

\* So it is when somebody else removes a pin.
LEMMA RemovedOutsideEffect ==
    ASSUME ProcessTypes, NEW p, RemovedOutside(p)
    PROVE  /\ ProcessTypes' /\ UNCHANGED <<pc, arg>>
           /\ \A g \in Handles : Loses(g, wrapper[g].path = p /\ Claims(g))
<1>1. /\ wrapper' = LosePin(p) /\ UNCHANGED <<pc, arg>>
    BY DEF RemovedOutside
<1>2. \A g \in Handles : Loses(g, wrapper[g].path = p /\ Claims(g))
    BY <1>1, LosePinEffect
<1>3. \A g \in Handles : LosePin(p)[g] \in Wrapper
    BY <1>1, <1>2, Zenon DEF Loses, Is
<1>4. wrapper' \in [Handles -> Wrapper]
    BY <1>1, <1>3 DEF LosePin
<1>. QED
    BY <1>1, <1>2, <1>4 DEF ProcessTypes

\* remove() of a pin that replaced one's own marks its owner.
LEMMA RemovePinEffect ==
    ASSUME ProcessTypes, NEW h \in Handles, RemovePin(h)
    PROVE  /\ ProcessTypes'
           /\ pc'[h] = "rest" /\ arg'[h] = None
           /\ Is(wrapper'[h], wrapper[h], wrapper[h].fd, None, wrapper[h].owner, wrapper[h].buffer, FALSE)
           /\ \A g \in Handles \ {h} :
                /\ pc'[g] = pc[g] /\ arg'[g] = arg[g]
                /\ Loses(g, wrapper[h].removed /\ wrapper[g].path = arg[h] /\ Claims(g))
<1> DEFINE W == IF wrapper[h].removed THEN LosePin(arg[h]) ELSE wrapper
           v == [wrapper[h] EXCEPT !.path = None, !.removed = FALSE]
<1>1. wrapper' = [W EXCEPT ![h] = v]
    BY Zenon DEF RemovePin
<1>2. Is(v, wrapper[h], wrapper[h].fd, None, wrapper[h].owner, wrapper[h].buffer, FALSE)
    BY WrapperForms, Zenon DEF ProcessTypes
<1>3. DOMAIN W = Handles
    BY Zenon DEF LosePin, ProcessTypes
<1> HIDE DEF v
<1>4. ASSUME NEW g \in Handles \ {h}
      PROVE  Loses(g, wrapper[h].removed /\ wrapper[g].path = arg[h] /\ Claims(g))
  <2>1. CASE wrapper[h].removed
    <3>1. wrapper'[g] = LosePin(arg[h])[g]
      BY <1>1, <1>3, <2>1
    <3>2. Loses(g, wrapper[g].path = arg[h] /\ Claims(g))
      BY <3>1, LosePinEffect
    <3>. QED
      BY <2>1, <3>2, Zenon DEF Loses, Is
  <2>2. CASE ~wrapper[h].removed
    <3>1. wrapper'[g] = wrapper[g]
      BY <1>1, <1>3, <2>2
    <3>2. wrapper[g] \in Wrapper
      BY DEF ProcessTypes
    <3>. QED
      BY <2>2, <3>1, <3>2, Zenon DEF Loses, Is
  <2>. QED
    BY <2>1, <2>2, Zenon
<1> HIDE DEF W
<1>5. wrapper'[h] = v
    BY <1>1, <1>3
<1>6. \A g \in Handles : wrapper'[g] \in Wrapper
    BY <1>2, <1>4, <1>5, Zenon DEF Loses, Is
<1>7. wrapper' \in [Handles -> Wrapper]
    BY <1>1, <1>3, <1>6, Zenon
<1>8. pc' = [pc EXCEPT ![h] = "rest"] /\ arg' = [arg EXCEPT ![h] = None]
    BY DEF RemovePin
<1>. QED
    BY <1>2, <1>4, <1>5, <1>7, <1>8, Zenon DEF ProcessTypes

\* A move passes everything on, and leaves the source closed.
LEMMA MoveEffect ==
    ASSUME ProcessTypes, NEW g \in Handles, NEW h \in Handles, Move(g, h)
    PROVE  /\ ProcessTypes' /\ UNCHANGED <<pc, arg>>
           /\ g # h /\ pc[g] = "rest" /\ pc[h] = "rest"
           /\ wrapper'[g] = wrapper[h]
           /\ Is(wrapper'[h], wrapper[h], None, None, FALSE, None, FALSE)
           /\ \A i \in Handles \ {g, h} : wrapper'[i] = wrapper[i]
<1> DEFINE v == [Closed(wrapper[h]) EXCEPT !.name = None]
<1>1. /\ g # h /\ pc[g] = "rest" /\ pc[h] = "rest" /\ UNCHANGED <<pc, arg>>
      /\ wrapper' = [wrapper EXCEPT ![g] = wrapper[h], ![h] = v]
    BY DEF Move, Resting
<1>2. Is(v, wrapper[h], None, None, FALSE, None, FALSE)
    BY WrapperForms, Zenon DEF ProcessTypes
<1>3. v \in Wrapper
    BY <1>2 DEF Is
<1> HIDE DEF v
<1>. QED
    BY <1>1, <1>2, <1>3, Zenon DEF ProcessTypes

\* A process that dies leaves its wrappers as constructed.
LEMMA CrashEffect ==
    ASSUME ProcessTypes, NEW proc, Crash(proc)
    PROVE  /\ ProcessTypes'
           /\ \A g \in Handles :
                IF Process[g] = proc
                THEN wrapper'[g] = Constructed(g) /\ pc'[g] = "rest" /\ arg'[g] = None
                ELSE wrapper'[g] = wrapper[g] /\ pc'[g] = pc[g] /\ arg'[g] = arg[g]
<1>1. /\ wrapper' = [h \in Handles |-> IF Process[h] = proc THEN Constructed(h) ELSE wrapper[h]]
      /\ pc' = [h \in Handles |-> IF Process[h] = proc THEN "rest" ELSE pc[h]]
      /\ arg' = [h \in Handles |-> IF Process[h] = proc THEN None ELSE arg[h]]
    BY DEF Crash
<1>2. \A h \in Handles : Constructed(h) \in Wrapper
    BY ConstructedForm
<1>. QED
    BY <1>1, <1>2 DEF ProcessTypes

\* The kernel frees what nothing refers to any more, and leaves the rest as it is.
LEMMA KernelKeeps ==
    ASSUME NEW F \in [Fds -> Maps \cup {Prog, None}], NEW P \in [Paths -> Maps \cup {None}],
           NEW M \in [Maps -> Layout \cup {None}], \A m \in Maps : Used(F, P, m) => M[m] # None,
           Kernel(F, P, M)
    PROVE  /\ files' = F /\ pins' = P /\ maps' \in [Maps -> Layout \cup {None}]
           /\ MapsLive'
           /\ \A m \in Maps : Used(F, P, m) => maps'[m] = M[m]
<1>1. /\ files' = F /\ pins' = P
      /\ maps' = [m \in Maps |-> IF Used(F, P, m) THEN M[m] ELSE None]
    BY KernelEffect
<1>2. \A m \in Maps : maps'[m] # None <=> Used(F, P, m)
    BY <1>1
<1>3. MapsLive'
    BY <1>1, <1>2 DEF MapsLive, Used
<1>. QED
    BY <1>1, <1>3

\* The steps that make no system call on bpffs or descriptors.
Inside(h) ==
    \/ \E p \in Paths : OpenPinned(h, p) \/ Pin(h, p)
    \/ ObjGetFails(h) \/ ObjPinFails(h) \/ Unpin(h) \/ UnpinWithoutPin(h) \/ RemovePinFails(h) \/ MapInfo(h)
    \/ \E made \in BOOLEAN : EventBufferCreate(h, made)

\* Every step is one of these.
LEMMA HandleSteps ==
    ASSUME HandleNext(Handles)
    PROVE  \/ \E h \in Handles :
                \/ Inside(h) \/ ObjGet(h) \/ OpenNew(h) \/ MapInfoFails(h)
                \/ Close(h) \/ ObjPin(h) \/ RemovePin(h)
           \/ \E g, h \in Handles : Move(g, h)
           \/ \E h \in Handles : load_program({h})
           \/ GetProgId \/ GetProgIdFails \/ \E f \in Fds : DestroyProgram(f)
           \/ \E proc : Crash(proc)
           \/ \E p \in Paths : RemovedOutside(p)
BY Zenon DEF HandleNext, WrapperNext, SystemCalls, Calls, Loading, Outside, Inside

\* Those change nothing in the kernel.
LEMMA InsideQuiet ==
    ASSUME NEW h \in Handles, Inside(h)
    PROVE  UNCHANGED <<files, maps, pins, prog_fd, programs>>
BY DEF Inside, OpenPinned, Pin, ObjGetFails, ObjPinFails, Unpin, UnpinWithoutPin, RemovePinFails, MapInfo,
   EventBufferCreate, Goes, Returns

\* The types of the kernel's tables.
KernelTypes ==
    /\ files \in [Fds -> Maps \cup {Prog, None}] /\ pins \in [Paths -> Maps \cup {None}]
    /\ maps \in [Maps -> Layout \cup {None}]
    /\ prog_fd \in Fds \cup {None} /\ programs \subseteq Fds

\* The kernel's tables are as they should be.
KernelOK == KernelTypes /\ MapsLive

\* The kernel keeps its tables: no map is freed that something refers to.
LEMMA KernelStep == TypesOK /\ CallsOK /\ MapsLive /\ Holders /\ [HandleNext(Handles)]_handleVars => KernelOK'
<1> SUFFICES ASSUME TypesOK, CallsOK, MapsLive, Holders PROVE [HandleNext(Handles)]_handleVars => KernelOK'
    OBVIOUS
<1> USE ZenonT(30), HandleAssumption DEF KernelTypes
<1>0. KernelTypes /\ \A m \in Maps : maps[m] # None <=> Used(files, pins, m)
    BY DEF TypesOK, MapsLive, Used
<1>1. CASE UNCHANGED <<files, maps, pins, prog_fd, programs>>
    BY <1>0, <1>1 DEF KernelOK, MapsLive
<1>2. ASSUME NEW F \in [Fds -> Maps \cup {Prog, None}], NEW P \in [Paths -> Maps \cup {None}],
             NEW M \in [Maps -> Layout \cup {None}], Kernel(F, P, M), \A m \in Maps : Used(F, P, m) => M[m] # None,
             prog_fd' \in Fds \cup {None}, programs' \subseteq Fds
      PROVE  KernelOK'
    BY <1>2, KernelKeeps, SMT DEF KernelOK
<1>3. ASSUME NEW f \in Fds \cup {None}, Kernel(WithoutFd(f), pins, maps),
             prog_fd' \in Fds \cup {None}, programs' \subseteq Fds
      PROVE  KernelOK'
  <2>1. WithoutFd(f) \in [Fds -> Maps \cup {Prog, None}] /\ \A m \in Maps : Used(WithoutFd(f), pins, m) => maps[m] # None
    BY <1>0 DEF WithoutFd, Used
  <2>. QED
    BY <1>0, <1>2, <1>3, <2>1
<1>4. ASSUME NEW h \in Handles, ObjGet(h)
      PROVE  KernelOK'
  <2> DEFINE f == Min(FreeFds)
             F == [files EXCEPT ![f] = pins[arg[h]]]
  <2>1. f \in Fds /\ arg[h] \in Paths /\ pins[arg[h]] \in Maps
    BY <1>4, FreeIsFree DEF ObjGet, CallsOK, CallOK, TypesOK
  <2> HIDE DEF f
  <2>2. F \in [Fds -> Maps \cup {Prog, None}] /\ \A m \in Maps : Used(F, pins, m) => maps[m] # None
    BY <1>0, <2>1 DEF Used
  <2>3. Kernel(F, pins, maps) /\ UNCHANGED <<prog_fd, programs>>
    BY <1>4 DEF ObjGet, Goes, f
  <2> HIDE DEF F
  <2>. QED
    BY <1>0, <1>2, <2>2, <2>3
<1>5. ASSUME NEW h \in Handles, OpenNew(h)
      PROVE  KernelOK'
  <2> DEFINE f == Min(FreeFds)
             n == Min(FreeMaps)
             F == [files EXCEPT ![f] = n]
             layout == [type |-> wrapper[h].type, size |-> wrapper[h].size, name |-> KernelName[wrapper[h].name]]
             M == [maps EXCEPT ![n] = layout]
  <2>1. f \in Fds /\ n \in Maps
    BY <1>5, FreeIsFree DEF OpenNew
  <2>2. layout \in Layout /\ layout # None
    BY SMT DEF TypesOK, Wrapper, Layout
  <2>3. Kernel(F, pins, M) /\ UNCHANGED <<prog_fd, programs>>
    BY <1>5 DEF OpenNew, Returns, Goes
  <2> HIDE DEF f, n, layout
  <2>4. F \in [Fds -> Maps \cup {Prog, None}] /\ M \in [Maps -> Layout \cup {None}]
        /\ \A m \in Maps : Used(F, pins, m) => M[m] # None
    BY <1>0, <2>1, <2>2 DEF Used
  <2> HIDE DEF F, M
  <2>. QED
    BY <1>0, <1>2, <2>3, <2>4
<1>6. ASSUME NEW h \in Handles, MapInfoFails(h) \/ Close(h)
      PROVE  KernelOK'
    BY <1>0, <1>3, <1>6 DEF MapInfoFails, Close, Returns, Goes, TypesOK, Wrapper
<1>7. ASSUME NEW p \in Paths, NEW m \in Maps \cup {None}, m # None => maps[m] # None, UNCHANGED <<prog_fd, programs>>,
             Kernel(files, [pins EXCEPT ![p] = m], maps)
      PROVE  KernelOK'
  <2> DEFINE P == [pins EXCEPT ![p] = m]
  <2>1. P \in [Paths -> Maps \cup {None}] /\ \A k \in Maps : Used(files, P, k) => maps[k] # None
    BY <1>0, <1>7 DEF Used
  <2> HIDE DEF P
  <2>. QED
    BY <1>0, <1>2, <1>7, <2>1 DEF P
<1>8. ASSUME NEW h \in Handles, ObjPin(h)
      PROVE  KernelOK'
  <2>1. wrapper[h].fd \in Fds /\ arg[h] \in Paths
    BY <1>8 DEF ObjPin, CallsOK, CallOK, TypesOK, IsOpen, Wrapper
  <2>2. MapOf(h) \in Maps /\ maps[MapOf(h)] # None
    BY <1>0, <1>8, <2>1 DEF ObjPin, CallsOK, CallOK, Holders, WrappersHold, Used, MapOf, IsOpen
  <2>. QED
    BY <1>7, <1>8, <2>1, <2>2 DEF ObjPin, Returns, Goes
<1>9. ASSUME NEW h \in Handles, RemovePin(h)
      PROVE  KernelOK'
    BY <1>7, <1>9 DEF RemovePin, CallsOK, CallOK, TypesOK
<1>10. ASSUME NEW p \in Paths, RemovedOutside(p)
      PROVE  KernelOK'
    BY <1>7, <1>10 DEF RemovedOutside
<1>11. ASSUME NEW h \in Handles, NEW g \in Handles, Move(g, h)
      PROVE  KernelOK'
  <2>1. wrapper[g].fd \in Fds \cup {None}
    BY DEF TypesOK, Wrapper
  <2>2. UNCHANGED <<prog_fd, programs>>
    BY <1>11 DEF Move
  <2>3. Kernel(WithoutFd(wrapper[g].fd), pins, maps) \/ UNCHANGED <<files, maps, pins>>
    BY <1>11 DEF Move
  <2>4. prog_fd' \in Fds \cup {None} /\ programs' \subseteq Fds
    BY <1>0, <2>2
  <2>5. CASE Kernel(WithoutFd(wrapper[g].fd), pins, maps)
    BY <1>3, <2>1, <2>4, <2>5
  <2>6. CASE UNCHANGED <<files, maps, pins>>
    BY <1>0, <2>2, <2>6 DEF KernelOK, MapsLive
  <2>. QED
    BY <2>3, <2>5, <2>6
<1>12. ASSUME NEW h \in Handles, load_program({h})
      PROVE  KernelOK'
  <2> DEFINE f == Min(FreeFds)
             F == [files EXCEPT ![f] = Prog]
  <2>1. f \in Fds
    BY <1>12, FreeIsFree DEF load_program
  <2>2. prog_fd' = f /\ programs' = programs /\ Kernel(F, pins, maps)
    BY <1>12 DEF load_program
  <2> HIDE DEF f
  <2>3. F \in [Fds -> Maps \cup {Prog, None}] /\ \A m \in Maps : Used(F, pins, m) => maps[m] # None
    BY <1>0, <2>1 DEF Used
  <2> HIDE DEF F
  <2>. QED
    BY <1>0, <1>2, <2>1, <2>2, <2>3
<1>13. CASE GetProgId
    BY <1>0, <1>13 DEF GetProgId, KernelOK, MapsLive
<1>14. CASE GetProgIdFails
    BY <1>0, <1>3, <1>14 DEF GetProgIdFails
<1>15. ASSUME NEW f \in Fds, DestroyProgram(f)
      PROVE  KernelOK'
    BY <1>0, <1>3, <1>15 DEF DestroyProgram
<1>16. ASSUME NEW proc, Crash(proc)
      PROVE  KernelOK'
  <2> DEFINE F == [f \in Fds |-> IF \E h \in Handles : Process[h] = proc /\ wrapper[h].fd = f THEN None ELSE files[f]]
  <2>1. Kernel(F, pins, maps) /\ UNCHANGED <<prog_fd, programs>>
    BY <1>16 DEF Crash
  <2>2. F \in [Fds -> Maps \cup {Prog, None}] /\ \A m \in Maps : Used(F, pins, m) => maps[m] # None
    BY <1>0 DEF Used
  <2> HIDE DEF F
  <2>. QED
    BY <1>0, <1>2, <2>1, <2>2
<1> HIDE DEF KernelTypes
<1>17. CASE UNCHANGED handleVars
    BY <1>1, <1>17, Zenon DEF handleVars
<1>. QED
    BY <1>1, <1>4, <1>5, <1>6, <1>8, <1>9, <1>10, <1>11, <1>12, <1>13, <1>14, <1>15, <1>16, <1>17, InsideQuiet,
       HandleSteps, Zenon

\* Every call stays where the state of its wrapper says.
LEMMA CallsStep == TypesOK /\ CallsOK /\ Holders /\ MapsLive /\ [HandleNext(Handles)]_handleVars => ProcessTypes' /\ CallsOK'
<1> SUFFICES ASSUME TypesOK, CallsOK, Holders, MapsLive PROVE [HandleNext(Handles)]_handleVars => ProcessTypes' /\ CallsOK'
    OBVIOUS
<1> USE ZenonT(30), HandleAssumption
<1>0. ProcessTypes /\ \A h \in Handles : CallOK(h) /\ wrapper[h] \in Wrapper
    BY DEF TypesOK, ProcessTypes, CallsOK
<1>1. ASSUME NEW g \in Handles, wrapper'[g] = wrapper[g], pc'[g] = pc[g], arg'[g] = arg[g]
      PROVE  CallOK(g)'
    BY <1>0, <1>1 DEF CallOK, IsOpen
<1>2. ASSUME NEW g \in Handles, NEW loses, Loses(g, loses), pc'[g] = pc[g], arg'[g] = arg[g]
      PROVE  CallOK(g)'
    BY <1>0, <1>2 DEF CallOK, IsOpen, Loses, Is
<1>3. ASSUME NEW h \in Handles, NEW place, NEW p, NEW fd, NEW path, NEW owner, NEW buffer, NEW removed,
             Becomes(h, place, p, fd, path, owner, buffer, removed),
             p = None <=> place = "rest",
             place = "get" => fd = None,
             place \in {"info", "pin", "remove"} => fd # None,
             owner => place = "rest" /\ fd # None /\ path # None,
             place = "remove" => path = p
      PROVE  ProcessTypes' /\ CallsOK'
  <2>1. CallOK(h)'
    BY <1>3 DEF CallOK, IsOpen, Becomes, Is
  <2>. QED
    BY <1>1, <1>3, <2>1 DEF CallsOK, Becomes
<1>4. ASSUME NEW h \in Handles, Inside(h)
      PROVE  ProcessTypes' /\ CallsOK'
  <2>0. CallOK(h)
    BY <1>0
  <2>1. ASSUME NEW p \in Paths, OpenPinned(h, p) \/ Pin(h, p)
        PROVE  ProcessTypes' /\ CallsOK'
    <3>1. p # None /\ ~wrapper[h].owner
      BY <2>0, <2>1 DEF OpenPinned, Pin, CallOK, IsOpen
    <3>2. CASE OpenPinned(h, p)
      <4>1. Same(h, "get", p) /\ ~IsOpen(h)
        BY <3>2, CallEffects DEF OpenPinned
      <4>. QED
        BY <1>3, <3>1, <4>1, SMT DEF Same, IsOpen
    <3>3. CASE Pin(h, p)
      <4>1. Same(h, "pin", p) /\ IsOpen(h)
        BY <3>3, CallEffects DEF Pin
      <4>. QED
        BY <1>3, <3>1, <4>1 DEF Same, IsOpen
    <3>. QED
      BY <2>1, <3>2, <3>3
  <2>2. CASE ObjGetFails(h) \/ ObjPinFails(h)
    <3>1. Same(h, "rest", None)
      BY <2>2, CallEffects
    <3>. QED
      BY <1>3, <2>0, <3>1, SMT DEF Same, CallOK, IsOpen
  <2>3. CASE Unpin(h)
    <3>1. Becomes(h, "remove", wrapper[h].path, wrapper[h].fd, wrapper[h].path, FALSE, wrapper[h].buffer, wrapper[h].removed)
      BY <2>3, CallEffects
    <3>2. wrapper[h].path # None /\ wrapper[h].fd # None
      BY <2>0, <2>3 DEF Unpin, CallOK, IsOpen
    <3>. QED
      BY <1>3, <3>1, <3>2
  <2>4. CASE UnpinWithoutPin(h)
    BY <1>3, <2>0, <2>4, CallEffects
  <2>5. CASE RemovePinFails(h)
    BY <1>3, <2>0, <2>5, CallEffects DEF RemovePinFails, CallOK, IsOpen
  <2>6. CASE MapInfo(h)
    BY <1>3, <2>0, <2>6, CallEffects DEF MapInfo, CallOK, IsOpen
  <2>7. ASSUME NEW made \in BOOLEAN, EventBufferCreate(h, made)
        PROVE  ProcessTypes' /\ CallsOK'
    <3>1. PICK b : Becomes(h, "rest", None, wrapper[h].fd, wrapper[h].path, wrapper[h].owner, b, wrapper[h].removed)
      BY <2>7, CallEffects
    <3>. QED
      BY <1>3, <2>0, <3>1, SMT DEF CallOK, IsOpen
  <2>. QED
    BY <1>4, <2>1, <2>2, <2>3, <2>4, <2>5, <2>6, <2>7 DEF Inside
<1>5. ASSUME NEW h \in Handles, ObjGet(h)
      PROVE  ProcessTypes' /\ CallsOK'
  <2>1. Min(FreeFds) # None
    BY <1>5, FreeIsFree DEF ObjGet
  <2>2. CallOK(h)
    BY <1>0
  <2>3. ~wrapper[h].owner /\ arg[h] # None
    BY <1>5, <2>2 DEF ObjGet, CallOK
  <2>4. Becomes(h, "info", arg[h], Min(FreeFds), wrapper[h].path, wrapper[h].owner, wrapper[h].buffer, wrapper[h].removed)
    BY <1>5, CallEffects
  <2>. QED
    BY <1>3, <2>1, <2>3, <2>4, SMT
<1>6. ASSUME NEW h \in Handles, OpenNew(h)
      PROVE  ProcessTypes' /\ CallsOK'
  <2>1. Min(FreeFds) # None
    BY <1>6, FreeIsFree DEF OpenNew
  <2>2. CallOK(h)
    BY <1>0
  <2>3. ~wrapper[h].owner
    BY <1>6, <2>2 DEF OpenNew, CallOK
  <2>4. Becomes(h, "rest", None, Min(FreeFds), wrapper[h].path, wrapper[h].owner, wrapper[h].buffer, wrapper[h].removed)
    BY <1>6, CallEffects
  <2>. QED
    BY <1>3, <2>1, <2>3, <2>4, SMT
<1>7. ASSUME NEW h \in Handles, MapInfoFails(h) \/ Close(h)
      PROVE  ProcessTypes' /\ CallsOK'
    BY <1>3, <1>7, CallEffects
<1>8. ASSUME NEW h \in Handles, ObjPin(h)
      PROVE  ProcessTypes' /\ CallsOK'
  <2>1. CallOK(h)
    BY <1>0
  <2>2. Becomes(h, "rest", None, wrapper[h].fd, arg[h], TRUE, wrapper[h].buffer, wrapper[h].removed)
    BY <1>8, CallEffects
  <2>. QED
    BY <1>3, <1>8, <2>1, <2>2 DEF ObjPin, CallOK, IsOpen
<1>9. ASSUME NEW h \in Handles, RemovePin(h)
      PROVE  ProcessTypes' /\ CallsOK'
  <2>1. CallOK(h)
    BY <1>0
  <2>2. CallOK(h)'
    BY <1>0, <1>9, <2>1, RemovePinEffect DEF RemovePin, CallOK, IsOpen, Is
  <2>3. \A g \in Handles \ {h} : CallOK(g)'
    BY <1>0, <1>2, <1>9, RemovePinEffect
  <2>. QED
    BY <1>0, <1>9, <2>2, <2>3, RemovePinEffect DEF CallsOK
<1>10. ASSUME NEW g \in Handles, NEW h \in Handles, Move(g, h)
       PROVE  ProcessTypes' /\ CallsOK'
  <2>1. CallOK(g) /\ CallOK(h)
    BY <1>0
  <2>2. CallOK(h)'
    BY <1>0, <1>10, <2>1, MoveEffect DEF CallOK, IsOpen, Is
  <2>3. CallOK(g)'
    BY <1>0, <1>10, <2>1, MoveEffect DEF CallOK, IsOpen
  <2>4. \A i \in Handles \ {g, h} : CallOK(i)'
    BY <1>0, <1>1, <1>10, MoveEffect
  <2>. QED
    BY <1>0, <1>10, <2>2, <2>3, <2>4, MoveEffect DEF CallsOK
<1>11. ASSUME NEW proc, Crash(proc)
       PROVE  ProcessTypes' /\ CallsOK'
  <2>1. ASSUME NEW g \in Handles, Process[g] = proc
        PROVE  CallOK(g)'
    BY <1>0, <1>11, <2>1, CrashEffect, ConstructedForm DEF CallOK, IsOpen
  <2>2. ASSUME NEW g \in Handles, Process[g] # proc
        PROVE  CallOK(g)'
    BY <1>0, <1>1, <1>11, <2>2, CrashEffect
  <2>. QED
    BY <1>0, <1>11, <2>1, <2>2, CrashEffect DEF CallsOK
<1>12. ASSUME NEW p \in Paths, RemovedOutside(p)
       PROVE  ProcessTypes' /\ CallsOK'
    BY <1>0, <1>2, <1>12, RemovedOutsideEffect DEF CallsOK
<1>13. CASE UNCHANGED <<wrapper, pc, arg>>
    BY <1>0, <1>1, <1>13 DEF CallsOK, ProcessTypes
<1>14. CASE UNCHANGED handleVars
    BY <1>13, <1>14 DEF handleVars
<1>15. ASSUME NEW h \in Handles, load_program({h})
       PROVE  UNCHANGED <<wrapper, pc, arg>>
    BY <1>15 DEF load_program
<1>16. ASSUME GetProgId \/ GetProgIdFails \/ \E f \in Fds : DestroyProgram(f)
       PROVE  UNCHANGED <<wrapper, pc, arg>>
    BY <1>16 DEF GetProgId, GetProgIdFails, DestroyProgram
<1>. QED
    BY <1>4, <1>5, <1>6, <1>7, <1>8, <1>9, <1>10, <1>11, <1>12, <1>13, <1>14, <1>15, <1>16, HandleSteps

\* What a step does to descriptors and pins.
Files(f, v) == \A x \in Fds : files'[x] = IF x = f THEN v ELSE files[x]
Pins(p, v) == \A x \in Paths : pins'[x] = IF x = p THEN v ELSE pins[x]
QuietPrograms == prog_fd' = prog_fd /\ programs' = programs
QuietFiles == files' = files /\ QuietPrograms

\* The changes of the descriptors and the pins, step by step.
LEMMA KernelForms ==
    ASSUME KernelTypes
    PROVE  /\ \A h \in Handles :
                /\ Inside(h) => QuietFiles /\ pins' = pins
                /\ ObjGet(h) => Files(Min(FreeFds), pins[arg[h]]) /\ QuietPrograms /\ pins' = pins
                /\ OpenNew(h) => Files(Min(FreeFds), Min(FreeMaps)) /\ QuietPrograms /\ pins' = pins
                /\ MapInfoFails(h) \/ Close(h) => Files(wrapper[h].fd, None) /\ QuietPrograms /\ pins' = pins
                /\ ObjPin(h) => QuietFiles /\ Pins(arg[h], MapOf(h))
                /\ RemovePin(h) => QuietFiles /\ Pins(arg[h], None)
                /\ load_program({h}) => Files(prog_fd', Prog) /\ programs' = programs /\ pins' = pins /\ prog_fd = None
                                        /\ prog_fd' = Min(FreeFds) /\ FreeFds # {}
           /\ \A g, h \in Handles : Move(g, h) => Files(wrapper[g].fd, None) /\ QuietPrograms /\ pins' = pins
           /\ GetProgId =>
                /\ files' = files /\ pins' = pins
                /\ prog_fd # None /\ prog_fd' = None /\ programs' = programs \cup {prog_fd}
           /\ GetProgIdFails => Files(prog_fd, None) /\ prog_fd' = None /\ programs' = programs /\ pins' = pins
           /\ \A f \in Fds : DestroyProgram(f) =>
                Files(f, None) /\ f \in programs /\ programs' = programs \ {f} /\ prog_fd' = prog_fd /\ pins' = pins
           /\ \A proc : Crash(proc) =>
                /\ QuietPrograms /\ pins' = pins
                /\ \A x \in Fds : files'[x] = IF \E h \in Handles : Process[h] = proc /\ wrapper[h].fd = x THEN None ELSE files[x]
           /\ \A p \in Paths : RemovedOutside(p) => QuietFiles /\ Pins(p, None)
<1> USE ZenonT(30) DEF KernelTypes, Kernel, Files, Pins, QuietPrograms, QuietFiles
<1>1. ASSUME NEW h \in Handles
      PROVE  /\ Inside(h) => QuietFiles /\ pins' = pins
             /\ ObjGet(h) => Files(Min(FreeFds), pins[arg[h]]) /\ QuietPrograms /\ pins' = pins
             /\ OpenNew(h) => Files(Min(FreeFds), Min(FreeMaps)) /\ QuietPrograms /\ pins' = pins
             /\ MapInfoFails(h) \/ Close(h) => Files(wrapper[h].fd, None) /\ QuietPrograms /\ pins' = pins
             /\ ObjPin(h) => QuietFiles /\ Pins(arg[h], MapOf(h))
             /\ RemovePin(h) => QuietFiles /\ Pins(arg[h], None)
             /\ load_program({h}) => Files(prog_fd', Prog) /\ programs' = programs /\ pins' = pins /\ prog_fd = None
                                     /\ prog_fd' = Min(FreeFds) /\ FreeFds # {}
  <2>1. Inside(h) => QuietFiles /\ pins' = pins
    BY InsideQuiet, SMT
  <2>2. ObjGet(h) => Files(Min(FreeFds), pins[arg[h]]) /\ QuietPrograms /\ pins' = pins
    BY DEF ObjGet, Goes
  <2>3. OpenNew(h) => Files(Min(FreeFds), Min(FreeMaps)) /\ QuietPrograms /\ pins' = pins
    BY DEF OpenNew, Returns, Goes
  <2>4. MapInfoFails(h) \/ Close(h) => Files(wrapper[h].fd, None) /\ QuietPrograms /\ pins' = pins
    BY DEF MapInfoFails, Close, Returns, Goes, WithoutFd
  <2>5. ObjPin(h) => QuietFiles /\ Pins(arg[h], MapOf(h))
    BY DEF ObjPin, Returns, Goes
  <2>6. RemovePin(h) => QuietFiles /\ Pins(arg[h], None)
    BY DEF RemovePin
  <2>7. load_program({h}) => Files(prog_fd', Prog) /\ programs' = programs /\ pins' = pins /\ prog_fd = None
                             /\ prog_fd' = Min(FreeFds) /\ FreeFds # {}
    BY DEF load_program
  <2> HIDE DEF Files, Pins, QuietFiles, QuietPrograms
  <2>. QED
    BY <2>1, <2>2, <2>3, <2>4, <2>5, <2>6, <2>7
<1>2. ASSUME NEW g \in Handles, NEW h \in Handles, Move(g, h)
      PROVE  Files(wrapper[g].fd, None) /\ QuietPrograms /\ pins' = pins
  <2>1. None \notin Fds
    BY HandleAssumption
  <2>2. CASE IsOpen(g)
    BY <1>2, <2>2 DEF Move, WithoutFd
  <2>3. CASE ~IsOpen(g)
    BY <1>2, <2>1, <2>3 DEF Move, IsOpen
  <2>. QED
    BY <2>2, <2>3
<1>3. GetProgId => files' = files /\ pins' = pins /\ prog_fd # None /\ prog_fd' = None /\ programs' = programs \cup {prog_fd}
    BY DEF GetProgId
<1>4. GetProgIdFails => Files(prog_fd, None) /\ prog_fd' = None /\ programs' = programs /\ pins' = pins
    BY DEF GetProgIdFails, WithoutFd
<1>5. \A f \in Fds : DestroyProgram(f) =>
                Files(f, None) /\ f \in programs /\ programs' = programs \ {f} /\ prog_fd' = prog_fd /\ pins' = pins
    BY DEF DestroyProgram, WithoutFd
<1>6. \A proc : Crash(proc) =>
                /\ QuietPrograms /\ pins' = pins
                /\ \A x \in Fds : files'[x] = IF \E h \in Handles : Process[h] = proc /\ wrapper[h].fd = x THEN None ELSE files[x]
    BY DEF Crash
<1>7. \A p \in Paths : RemovedOutside(p) => QuietFiles /\ Pins(p, None)
    BY DEF RemovedOutside
<1> HIDE DEF Files, Pins, QuietFiles, QuietPrograms
<1>. QED
    BY <1>1, <1>2, <1>3, <1>4, <1>5, <1>6, <1>7

\* Every descriptor keeps its one holder.
LEMMA HoldersStep == TypesOK /\ CallsOK /\ Holders /\ MapsLive /\ [HandleNext(Handles)]_handleVars => Holders'
<1> SUFFICES ASSUME TypesOK, CallsOK, Holders, MapsLive PROVE [HandleNext(Handles)]_handleVars => Holders'
    OBVIOUS
<1> USE ZenonT(30)
<1>0. /\ KernelTypes /\ ProcessTypes /\ None \notin Fds /\ None \notin Maps /\ Prog \notin Maps /\ Prog # None
      /\ \A h \in Handles : CallOK(h) /\ wrapper[h].fd \in Fds \cup {None} /\ wrapper[h].buffer \in Fds \cup {None}
    BY HandleAssumption DEF TypesOK, CallsOK, Wrapper, KernelTypes, ProcessTypes
<1>1. ASSUME QuietFiles,
             \A g \in Handles : wrapper'[g].fd = wrapper[g].fd /\ wrapper'[g].buffer \in {None, wrapper[g].fd, wrapper[g].buffer}
      PROVE  Holders'
    BY <1>0, <1>1, SMT DEF Holders, WrappersHold, ProgramsHold, AllHeld, QuietFiles, QuietPrograms, IsOpen, MapOf
<1>2. ASSUME NEW h \in Handles, NEW f \in Fds, NEW m \in Maps, files[f] = None, wrapper[h].fd = None,
             Files(f, m), QuietPrograms, wrapper'[h].fd = f, wrapper'[h].buffer = wrapper[h].buffer,
             \A g \in Handles \ {h} : wrapper'[g] = wrapper[g]
      PROVE  Holders'
  <2>11. WrappersHold'
    BY <1>0, <1>2, SMT DEF Files, QuietPrograms, Holders, WrappersHold, ProgramsHold, AllHeld, IsOpen, MapOf,
       KernelTypes
  <2>12. ProgramsHold'
    BY <1>0, <1>2 DEF Files, QuietPrograms, Holders, WrappersHold, ProgramsHold, AllHeld, IsOpen, MapOf, KernelTypes
  <2>13. AllHeld'
    BY <1>0, <1>2, SMT DEF Files, QuietPrograms, Holders, WrappersHold, ProgramsHold, AllHeld, IsOpen, MapOf,
       KernelTypes
  <2>. QED
    BY <2>11, <2>12, <2>13 DEF Holders
<1>3. ASSUME NEW h \in Handles, Files(wrapper[h].fd, None), QuietPrograms,
             wrapper[h].fd # None, wrapper'[h].fd = None, wrapper'[h].buffer = None,
             \A g \in Handles \ {h} : wrapper'[g] = wrapper[g]
      PROVE  Holders'
  <2>11. WrappersHold'
    BY <1>0, <1>3, SMT DEF Files, QuietPrograms, Holders, WrappersHold, ProgramsHold, AllHeld, IsOpen, MapOf,
       KernelTypes
  <2>12. ProgramsHold'
    BY <1>0, <1>3, SMT DEF Files, QuietPrograms, Holders, WrappersHold, ProgramsHold, AllHeld, IsOpen, MapOf,
       KernelTypes
  <2>13. AllHeld'
    BY <1>0, <1>3, SMT DEF Files, QuietPrograms, Holders, WrappersHold, ProgramsHold, AllHeld, IsOpen, MapOf,
       KernelTypes
  <2>. QED
    BY <2>11, <2>12, <2>13 DEF Holders
<1>4. ASSUME NEW h \in Handles, Inside(h) \/ ObjPin(h)
      PROVE  Holders'
  <2>1. QuietFiles
    BY <1>0, <1>4, KernelForms
  <2>2. \A g \in Handles \ {h} : wrapper'[g] = wrapper[g]
    BY <1>4, CallEffects DEF Inside, Same, Becomes
  <2>3. wrapper'[h].fd = wrapper[h].fd /\ wrapper'[h].buffer \in {None, wrapper[h].fd, wrapper[h].buffer}
    BY <1>4, CallEffects DEF Inside, Same, Becomes, Is
  <2>. QED
    BY <1>1, <2>1, <2>2, <2>3
<1>5. ASSUME NEW h \in Handles, ObjGet(h)
      PROVE  Holders'
  <2>1. Min(FreeFds) \in Fds /\ files[Min(FreeFds)] = None /\ pins[arg[h]] \in Maps /\ wrapper[h].fd = None
    BY <1>0, <1>5, FreeIsFree DEF ObjGet, CallOK, IsOpen, KernelTypes, ProcessTypes
  <2>2. Files(Min(FreeFds), pins[arg[h]]) /\ QuietPrograms
    BY <1>0, <1>5, KernelForms
  <2>3. /\ wrapper'[h].fd = Min(FreeFds) /\ wrapper'[h].buffer = wrapper[h].buffer
        /\ \A g \in Handles \ {h} : wrapper'[g] = wrapper[g]
    BY <1>5, CallEffects DEF Becomes, Is
  <2>. QED
    BY <1>2, <2>1, <2>2, <2>3
<1>6. ASSUME NEW h \in Handles, OpenNew(h)
      PROVE  Holders'
  <2>1. Min(FreeFds) \in Fds /\ files[Min(FreeFds)] = None /\ Min(FreeMaps) \in Maps /\ wrapper[h].fd = None
    BY <1>6, FreeIsFree DEF OpenNew, IsOpen
  <2>2. Files(Min(FreeFds), Min(FreeMaps)) /\ QuietPrograms
    BY <1>0, <1>6, KernelForms
  <2>3. /\ wrapper'[h].fd = Min(FreeFds) /\ wrapper'[h].buffer = wrapper[h].buffer
        /\ \A g \in Handles \ {h} : wrapper'[g] = wrapper[g]
    BY <1>6, CallEffects DEF Becomes, Is
  <2>. QED
    BY <1>2, <2>1, <2>2, <2>3
<1>7. ASSUME NEW h \in Handles, MapInfoFails(h) \/ Close(h)
      PROVE  Holders'
  <2>1. wrapper[h].fd # None
    BY <1>0, <1>7 DEF MapInfoFails, Close, CallOK, IsOpen
  <2>2. Files(wrapper[h].fd, None) /\ QuietPrograms
    BY <1>0, <1>7, KernelForms
  <2>3. wrapper'[h].fd = None /\ wrapper'[h].buffer = None /\ \A g \in Handles \ {h} : wrapper'[g] = wrapper[g]
    BY <1>7, CallEffects DEF Becomes, Is
  <2>. QED
    BY <1>3, <2>1, <2>2, <2>3
<1>8. ASSUME NEW h \in Handles, RemovePin(h)
      PROVE  Holders'
  <2>1. \A g \in Handles : wrapper'[g].fd = wrapper[g].fd /\ wrapper'[g].buffer = wrapper[g].buffer
    BY <1>0, <1>8, RemovePinEffect DEF Loses, Is
  <2>. QED
    BY <1>0, <1>1, <1>8, <2>1, KernelForms
<1>9. ASSUME NEW p \in Paths, RemovedOutside(p)
      PROVE  Holders'
  <2>1. \A g \in Handles : wrapper'[g].fd = wrapper[g].fd /\ wrapper'[g].buffer = wrapper[g].buffer
    BY <1>0, <1>9, RemovedOutsideEffect DEF Loses, Is
  <2>. QED
    BY <1>0, <1>1, <1>9, <2>1, KernelForms
<1>10. ASSUME NEW g \in Handles, NEW h \in Handles, Move(g, h)
       PROVE  Holders'
  <2>1. Files(wrapper[g].fd, None) /\ QuietPrograms
    BY <1>0, <1>10, KernelForms
  <2>2. /\ g # h /\ wrapper'[g] = wrapper[h] /\ wrapper'[h].fd = None /\ wrapper'[h].buffer = None
        /\ \A i \in Handles \ {g, h} : wrapper'[i] = wrapper[i]
    BY <1>0, <1>10, MoveEffect DEF Is
  <2>11. WrappersHold'
    BY <1>0, <2>1, <2>2, SMT DEF Files, QuietPrograms, Holders, WrappersHold, ProgramsHold, AllHeld, IsOpen, MapOf,
       KernelTypes
  <2>12. ProgramsHold'
    BY <1>0, <2>1, <2>2, SMT DEF Files, QuietPrograms, Holders, WrappersHold, ProgramsHold, AllHeld, IsOpen, MapOf,
       KernelTypes
  <2>13. AllHeld'
    BY <1>0, <2>1, <2>2, SMT DEF Files, QuietPrograms, Holders, WrappersHold, ProgramsHold, AllHeld, IsOpen, MapOf,
       KernelTypes
  <2>. QED
    BY <2>11, <2>12, <2>13 DEF Holders
<1>11. ASSUME NEW proc, Crash(proc)
       PROVE  Holders'
  <2>1. /\ QuietPrograms
        /\ \A x \in Fds : files'[x] = IF \E h \in Handles : Process[h] = proc /\ wrapper[h].fd = x THEN None ELSE files[x]
    BY <1>0, <1>11, KernelForms
  <2>2. \A h \in Handles : IF Process[h] = proc THEN wrapper'[h].fd = None /\ wrapper'[h].buffer = None
                           ELSE wrapper'[h] = wrapper[h]
    BY <1>0, <1>11, CrashEffect, ConstructedForm
  <2>11. WrappersHold'
    BY <1>0, <2>1, <2>2, SMT DEF QuietPrograms, Holders, WrappersHold, ProgramsHold, AllHeld, IsOpen, MapOf,
       KernelTypes
  <2>12. ProgramsHold'
    BY <1>0, <2>1, <2>2, SMT DEF QuietPrograms, Holders, WrappersHold, ProgramsHold, AllHeld, IsOpen, MapOf,
       KernelTypes
  <2>13. AllHeld'
    BY <1>0, <2>1, <2>2 DEF QuietPrograms, Holders, WrappersHold, ProgramsHold, AllHeld, IsOpen, MapOf, KernelTypes
  <2>. QED
    BY <2>11, <2>12, <2>13 DEF Holders
<1>12. ASSUME NEW h \in Handles, load_program({h})
       PROVE  Holders'
  <2>1. /\ Files(prog_fd', Prog) /\ programs' = programs /\ prog_fd = None
        /\ prog_fd' \in Fds /\ files[prog_fd'] = None
    BY <1>0, <1>12, KernelForms, FreeIsFree
  <2>2. wrapper' = wrapper
    BY <1>12 DEF load_program
  <2>. QED
    BY <1>0, <2>1, <2>2 DEF Holders, WrappersHold, ProgramsHold, AllHeld, Files, IsOpen, MapOf, KernelTypes
<1>13. CASE GetProgId
  <2>1. files' = files /\ prog_fd # None /\ prog_fd' = None /\ programs' = programs \cup {prog_fd} /\ wrapper' = wrapper
    BY <1>0, <1>13, KernelForms DEF GetProgId
  <2>. QED
    BY <1>0, <2>1 DEF Holders, WrappersHold, ProgramsHold, AllHeld, IsOpen, MapOf, KernelTypes
<1>14. CASE GetProgIdFails
  <2>1. Files(prog_fd, None) /\ prog_fd # None /\ prog_fd' = None /\ programs' = programs /\ wrapper' = wrapper
    BY <1>0, <1>14, KernelForms DEF GetProgIdFails
  <2>. QED
    BY <1>0, <2>1, SMT DEF Holders, WrappersHold, ProgramsHold, AllHeld, Files, IsOpen, MapOf, KernelTypes
<1>15. ASSUME NEW f \in Fds, DestroyProgram(f)
       PROVE  Holders'
  <2>1. Files(f, None) /\ f \in programs /\ programs' = programs \ {f} /\ prog_fd' = prog_fd /\ wrapper' = wrapper
    BY <1>0, <1>15, KernelForms DEF DestroyProgram
  <2>. QED
    BY <1>0, <2>1, SMT DEF Holders, WrappersHold, ProgramsHold, AllHeld, Files, IsOpen, MapOf, KernelTypes
<1>16. CASE UNCHANGED handleVars
  <2>1. QuietFiles /\ wrapper' = wrapper
    BY <1>16, SMT DEF handleVars, QuietFiles, QuietPrograms
  <2>. QED
    BY <1>1, <2>1
<1>. QED
    BY <1>4, <1>5, <1>6, <1>7, <1>8, <1>9, <1>10, <1>11, <1>12, <1>13, <1>14, <1>15, <1>16, HandleSteps

\* The layout of a map never changes while it lives.
LayoutsStay == \A m \in Maps : maps[m] # None /\ maps'[m] # None => maps'[m] = maps[m]

\* For no step changes it, and a freed map has to go before another takes its place.
LEMMA LayoutsStayStep == TypesOK /\ [HandleNext(Handles)]_handleVars => LayoutsStay
<1> SUFFICES ASSUME TypesOK PROVE [HandleNext(Handles)]_handleVars => LayoutsStay
    OBVIOUS
<1> USE ZenonT(30)
<1>1. ASSUME NEW F, NEW P, Kernel(F, P, maps)
      PROVE  LayoutsStay
    BY <1>1 DEF Kernel, LayoutsStay
<1>2. ASSUME maps' = maps
      PROVE  LayoutsStay
    BY <1>2 DEF LayoutsStay
<1>3. ASSUME NEW h \in Handles, OpenNew(h)
      PROVE  LayoutsStay
  <2> DEFINE n == Min(FreeMaps)
             layout == [type |-> wrapper[h].type, size |-> wrapper[h].size, name |-> KernelName[wrapper[h].name]]
             F == [files EXCEPT ![Min(FreeFds)] = n]
  <2>1. Kernel(F, pins, [maps EXCEPT ![n] = layout]) /\ maps[n] = None
    BY <1>3, FreeIsFree DEF OpenNew
  <2> HIDE DEF n, layout, F
  <2>. QED
    BY <2>1 DEF Kernel, LayoutsStay, TypesOK
<1>4. ASSUME NEW h \in Handles, Inside(h)
      PROVE  LayoutsStay
  <2>1. maps' = maps
    BY <1>4, InsideQuiet, SMT
  <2>. QED
    BY <1>2, <2>1
<1>5. ASSUME NEW h \in Handles, ObjGet(h) \/ MapInfoFails(h) \/ Close(h) \/ ObjPin(h) \/ RemovePin(h) \/ load_program({h})
      PROVE  LayoutsStay
    BY <1>1, <1>5 DEF ObjGet, MapInfoFails, Close, ObjPin, RemovePin, load_program
<1>6. ASSUME NEW g \in Handles, NEW h \in Handles, Move(g, h)
      PROVE  LayoutsStay
  <2>1. Kernel(WithoutFd(wrapper[g].fd), pins, maps) \/ maps' = maps
    BY <1>6 DEF Move
  <2>. QED
    BY <1>1, <1>2, <2>1
<1>7. ASSUME GetProgId \/ GetProgIdFails \/ (\E f \in Fds : DestroyProgram(f)) \/ (\E p \in Paths : RemovedOutside(p))
      PROVE  LayoutsStay
    BY <1>1, <1>2, <1>7 DEF GetProgId, GetProgIdFails, DestroyProgram, RemovedOutside
<1>8. ASSUME NEW proc, Crash(proc)
      PROVE  LayoutsStay
    BY <1>1, <1>8 DEF Crash
<1>9. CASE UNCHANGED handleVars
  <2>1. maps' = maps
    BY <1>9, SMT DEF handleVars
  <2>. QED
    BY <1>2, <2>1
<1>. QED
    BY <1>3, <1>4, <1>5, <1>6, <1>7, <1>8, <1>9, HandleSteps

\* An open wrapper keeps a map of the layout it asks for.
LEMMA LayoutsStep == HandleInv /\ [HandleNext(Handles)]_handleVars => LayoutsOK'
<1> SUFFICES ASSUME HandleInv PROVE [HandleNext(Handles)]_handleVars => LayoutsOK'
    OBVIOUS
<1> USE ZenonT(30)
<1>0. /\ TypesOK /\ CallsOK /\ Holders /\ MapsLive /\ KernelTypes /\ ProcessTypes /\ None \notin Fds
      /\ \A h \in Handles : CallOK(h) /\ wrapper[h].fd \in Fds \cup {None}
    BY HandleAssumption DEF HandleInv, TypesOK, CallsOK, Wrapper, KernelTypes, ProcessTypes
<1>1. ASSUME [HandleNext(Handles)]_handleVars
      PROVE  KernelOK' /\ LayoutsStay /\ Holders'
    BY <1>0, <1>1, KernelStep, LayoutsStayStep, HoldersStep
<1>2. ASSUME NEW g \in Handles, NEW h \in Handles, [HandleNext(Handles)]_handleVars,
             Fits(wrapper[h], MapOf(h)), IsOpen(h), files'[wrapper[h].fd] = files[wrapper[h].fd],
             wrapper'[g].fd = wrapper[h].fd, wrapper'[g].type = wrapper[h].type, wrapper'[g].size = wrapper[h].size
      PROVE  Fits(wrapper[g], MapOf(g))'
  <2>1. MapOf(h) \in Maps /\ MapOf(g)' = MapOf(h) /\ wrapper[h].fd \in Fds
    BY <1>0, <1>2 DEF Holders, WrappersHold, MapOf, IsOpen
  <2>2. maps[MapOf(h)] # None
    BY <1>0, <2>1 DEF MapsLive, MapOf
  <2>3. maps'[MapOf(h)] # None
    BY <1>1, <1>2, <2>1 DEF MapsLive, MapOf, KernelOK
  <2>4. maps'[MapOf(h)] = maps[MapOf(h)]
    BY <1>1, <1>2, <2>1, <2>2, <2>3 DEF LayoutsStay
  <2>. QED
    BY <1>2, <2>1, <2>4 DEF Fits
<1>3. ASSUME [HandleNext(Handles)]_handleVars,
             \A g \in Handles : wrapper'[g].fd # None =>
                /\ wrapper'[g].fd = wrapper[g].fd /\ wrapper'[g].type = wrapper[g].type /\ wrapper'[g].size = wrapper[g].size
                /\ files'[wrapper[g].fd] = files[wrapper[g].fd]
                /\ pc[g] = "info" => pc'[g] = "info" \/ Fits(wrapper[g], MapOf(g))
      PROVE  LayoutsOK'
  <2> SUFFICES ASSUME NEW g \in Handles, IsOpen(g)', pc'[g] # "info"
               PROVE  Fits(wrapper[g], MapOf(g))'
    BY DEF LayoutsOK
  <2>1. wrapper'[g].fd # None
    BY DEF IsOpen
  <2>2. Fits(wrapper[g], MapOf(g)) /\ IsOpen(g)
    BY <1>3, <2>1 DEF HandleInv, LayoutsOK, IsOpen
  <2>. QED
    BY <1>2, <1>3, <2>1, <2>2
<1>4. ASSUME NEW h \in Handles, Inside(h) \/ ObjPin(h), [HandleNext(Handles)]_handleVars
      PROVE  LayoutsOK'
  <2>1. files' = files
    BY <1>0, <1>4, KernelForms DEF QuietFiles
  <2>2. \A g \in Handles \ {h} : wrapper'[g] = wrapper[g] /\ pc'[g] = pc[g]
    BY <1>0, <1>4, CallEffects DEF Inside, Same, Becomes
  <2>3. wrapper'[h].fd = wrapper[h].fd /\ wrapper'[h].type = wrapper[h].type /\ wrapper'[h].size = wrapper[h].size
    BY <1>0, <1>4, CallEffects DEF Inside, Same, Becomes, Is
  <2>4. pc[h] = "info" => Fits(wrapper[h], MapOf(h))
    BY <1>4, SMT DEF Inside, OpenPinned, Pin, ObjGetFails, ObjPinFails, Unpin, UnpinWithoutPin, RemovePinFails,
       MapInfo,
                EventBufferCreate, Resting, ObjPin
  <2>. QED
    BY <1>3, <1>4, <2>1, <2>2, <2>3, <2>4
<1>5. ASSUME NEW h \in Handles, ObjGet(h), [HandleNext(Handles)]_handleVars
      PROVE  LayoutsOK'
  <2>1. Files(Min(FreeFds), pins[arg[h]]) /\ files[Min(FreeFds)] = None
    BY <1>0, <1>5, KernelForms, FreeIsFree DEF ObjGet
  <2>2. \A g \in Handles \ {h} : wrapper'[g] = wrapper[g] /\ pc'[g] = pc[g]
    BY <1>0, <1>5, CallEffects DEF Becomes
  <2>3. pc'[h] = "info"
    BY <1>0, <1>5, CallEffects DEF Becomes
  <2>4. ASSUME NEW g \in Handles \ {h}, wrapper[g].fd # None
        PROVE  files'[wrapper[g].fd] = files[wrapper[g].fd]
    BY <1>0, <2>1, <2>4, HandleAssumption DEF Holders, WrappersHold, IsOpen, MapOf, Files
  <2> SUFFICES ASSUME NEW g \in Handles, IsOpen(g)', pc'[g] # "info"
               PROVE  Fits(wrapper[g], MapOf(g))'
    BY DEF LayoutsOK
  <2>. QED
    BY <1>2, <1>5, <2>2, <2>3, <2>4 DEF HandleInv, LayoutsOK, IsOpen
<1>6. ASSUME NEW h \in Handles, OpenNew(h), [HandleNext(Handles)]_handleVars
      PROVE  LayoutsOK'
  <2> DEFINE f == Min(FreeFds)
             n == Min(FreeMaps)
             layout == [type |-> wrapper[h].type, size |-> wrapper[h].size, name |-> KernelName[wrapper[h].name]]
  <2>1. Files(f, n) /\ files[f] = None /\ f \in Fds /\ n \in Maps
    BY <1>0, <1>6, KernelForms, FreeIsFree DEF OpenNew
  <2>2. \A g \in Handles \ {h} : wrapper'[g] = wrapper[g] /\ pc'[g] = pc[g]
    BY <1>0, <1>6, CallEffects DEF Becomes
  <2>3. wrapper'[h].fd = f /\ wrapper'[h].type = wrapper[h].type /\ wrapper'[h].size = wrapper[h].size
    BY <1>0, <1>6, CallEffects DEF Becomes, Is
  <2>4. ASSUME NEW g \in Handles \ {h}, wrapper[g].fd # None
        PROVE  files'[wrapper[g].fd] = files[wrapper[g].fd]
    BY <1>0, <2>1, <2>4, HandleAssumption DEF Holders, WrappersHold, IsOpen, MapOf, Files
  <2>5. maps'[n] \in {layout, None}
    BY <1>0, <1>6, <2>1 DEF OpenNew, Kernel, KernelTypes
  <2> HIDE DEF f, n, layout
  <2>6. MapOf(h)' = n
    BY <2>1, <2>3 DEF MapOf, Files
  <2>7. maps'[n] # None
    BY <1>1, <1>6, <2>1 DEF MapsLive, KernelOK, Files
  <2>8. layout.type = wrapper[h].type /\ layout.size = wrapper[h].size
    BY DEF layout
  <2>9. Fits(wrapper[h], MapOf(h))'
    BY <2>3, <2>5, <2>6, <2>7, <2>8 DEF Fits
  <2> SUFFICES ASSUME NEW g \in Handles, IsOpen(g)', pc'[g] # "info"
               PROVE  Fits(wrapper[g], MapOf(g))'
    BY DEF LayoutsOK
  <2>. QED
    BY <1>2, <1>6, <2>2, <2>4, <2>9 DEF HandleInv, LayoutsOK, IsOpen
<1>7. ASSUME NEW h \in Handles, MapInfoFails(h) \/ Close(h), [HandleNext(Handles)]_handleVars
      PROVE  LayoutsOK'
  <2>1. /\ Files(wrapper[h].fd, None) /\ wrapper'[h].fd = None
        /\ \A g \in Handles \ {h} : wrapper'[g] = wrapper[g] /\ pc'[g] = pc[g]
    BY <1>0, <1>7, KernelForms, CallEffects DEF Becomes, Is
  <2>2. ASSUME NEW g \in Handles \ {h}, wrapper[g].fd # None
        PROVE  files'[wrapper[g].fd] = files[wrapper[g].fd]
    BY <1>0, <2>1, <2>2 DEF Holders, WrappersHold, IsOpen, Files
  <2>. QED
    BY <1>3, <1>7, <2>1, <2>2
<1>8. ASSUME NEW h \in Handles, RemovePin(h), [HandleNext(Handles)]_handleVars
      PROVE  LayoutsOK'
  <2>1. files' = files /\ pc[h] # "info"
    BY <1>0, <1>8, KernelForms DEF QuietFiles, RemovePin
  <2>2. \A g \in Handles \ {h} : pc'[g] = pc[g]
    BY <1>0, <1>8, RemovePinEffect
  <2>3. \A g \in Handles : wrapper'[g].fd = wrapper[g].fd /\ wrapper'[g].type = wrapper[g].type /\ wrapper'[g].size = wrapper[g].size
    BY <1>0, <1>8, RemovePinEffect DEF Loses, Is
  <2>. QED
    BY <1>3, <1>8, <2>1, <2>2, <2>3
<1>9. ASSUME NEW p \in Paths, RemovedOutside(p), [HandleNext(Handles)]_handleVars
      PROVE  LayoutsOK'
  <2>1. /\ files' = files /\ pc' = pc
        /\ \A g \in Handles : wrapper'[g].fd = wrapper[g].fd /\ wrapper'[g].type = wrapper[g].type /\ wrapper'[g].size = wrapper[g].size
    BY <1>0, <1>9, KernelForms, RemovedOutsideEffect DEF QuietFiles, Loses, Is
  <2>. QED
    BY <1>3, <1>9, <2>1
<1>10. ASSUME NEW g \in Handles, NEW h \in Handles, Move(g, h), [HandleNext(Handles)]_handleVars
       PROVE  LayoutsOK'
  <2>1. /\ Files(wrapper[g].fd, None) /\ pc' = pc /\ g # h /\ pc[h] = "rest" /\ pc[g] = "rest"
        /\ wrapper'[g] = wrapper[h] /\ wrapper'[h].fd = None /\ \A i \in Handles \ {g, h} : wrapper'[i] = wrapper[i]
    BY <1>0, <1>10, KernelForms, MoveEffect DEF Is
  <2>2. ASSUME NEW i \in Handles \ {g}, wrapper[i].fd # None
        PROVE  files'[wrapper[i].fd] = files[wrapper[i].fd]
    BY <1>0, <2>1, <2>2 DEF Holders, WrappersHold, IsOpen, Files
  <2> SUFFICES ASSUME NEW i \in Handles, IsOpen(i)', pc'[i] # "info"
               PROVE  Fits(wrapper[i], MapOf(i))'
    BY DEF LayoutsOK
  <2>3. CASE i = g
    BY <1>2, <1>10, <2>1, <2>2, <2>3 DEF HandleInv, LayoutsOK, IsOpen
  <2>4. CASE i # g
    BY <1>2, <1>10, <2>1, <2>2, <2>4 DEF HandleInv, LayoutsOK, IsOpen
  <2>. QED
    BY <2>3, <2>4
<1>11. ASSUME NEW proc, Crash(proc), [HandleNext(Handles)]_handleVars
       PROVE  LayoutsOK'
  <2>1. /\ \A x \in Fds : files'[x] = IF \E h \in Handles : Process[h] = proc /\ wrapper[h].fd = x THEN None ELSE files[x]
        /\ \A i \in Handles : IF Process[i] = proc THEN wrapper'[i].fd = None ELSE wrapper'[i] = wrapper[i] /\ pc'[i] = pc[i]
    BY <1>0, <1>11, KernelForms, CrashEffect, ConstructedForm, SMT
  <2>2. ASSUME NEW i \in Handles, Process[i] # proc, wrapper[i].fd # None
        PROVE  files'[wrapper[i].fd] = files[wrapper[i].fd]
    BY <1>0, <2>1, <2>2 DEF Holders, WrappersHold, IsOpen
  <2>. QED
    BY <1>3, <1>11, <2>1, <2>2
<1>12. ASSUME wrapper' = wrapper, pc' = pc, NEW f, NEW v, Files(f, v) \/ files' = files,
              \A h \in Handles : wrapper[h].fd # None => wrapper[h].fd # f, [HandleNext(Handles)]_handleVars
       PROVE  LayoutsOK'
  <2>1. ASSUME NEW i \in Handles, wrapper[i].fd # None
        PROVE  files'[wrapper[i].fd] = files[wrapper[i].fd]
    BY <1>0, <1>12, <2>1 DEF Files
  <2>. QED
    BY <1>3, <1>12, <2>1
<1>13. ASSUME NEW f, f \in programs \/ (f = prog_fd /\ prog_fd # None) \/ files[f] = None
       PROVE  \A h \in Handles : wrapper[h].fd # None => wrapper[h].fd # f
    BY <1>0, <1>13, HandleAssumption, SMT DEF Holders, WrappersHold, ProgramsHold, IsOpen, MapOf
<1>14. ASSUME NEW h \in Handles, load_program({h}), [HandleNext(Handles)]_handleVars
       PROVE  LayoutsOK'
  <2>1. Files(prog_fd', Prog) /\ files[prog_fd'] = None /\ wrapper' = wrapper /\ pc' = pc
    BY <1>0, <1>14, KernelForms, FreeIsFree DEF load_program
  <2>. QED
    BY <1>12, <1>13, <1>14, <2>1
<1>15. CASE GetProgId /\ [HandleNext(Handles)]_handleVars
    BY <1>0, <1>3, <1>15 DEF GetProgId
<1>16. CASE GetProgIdFails /\ [HandleNext(Handles)]_handleVars
  <2>1. Files(prog_fd, None) /\ prog_fd # None /\ wrapper' = wrapper /\ pc' = pc
    BY <1>0, <1>16, KernelForms DEF GetProgIdFails
  <2>. QED
    BY <1>12, <1>13, <1>16, <2>1
<1>17. ASSUME NEW f \in Fds, DestroyProgram(f), [HandleNext(Handles)]_handleVars
       PROVE  LayoutsOK'
  <2>1. Files(f, None) /\ f \in programs /\ wrapper' = wrapper /\ pc' = pc
    BY <1>0, <1>17, KernelForms DEF DestroyProgram
  <2>. QED
    BY <1>12, <1>13, <1>17, <2>1
<1>18. CASE UNCHANGED handleVars
  <2>1. UNCHANGED <<wrapper, pc, files, maps>>
    BY <1>18, SMT DEF handleVars
  <2>. QED
    BY <2>1 DEF HandleInv, LayoutsOK, IsOpen, Fits, MapOf
<1>. QED
    BY <1>4, <1>5, <1>6, <1>7, <1>8, <1>9, <1>10, <1>11, <1>14, <1>15, <1>16, <1>17, <1>18, HandleSteps

\* A pin that nobody took away keeps leading to the map of its one owner.
LEMMA PinsStep == HandleInv /\ [HandleNext(Handles)]_handleVars => PinsOK'
<1> SUFFICES ASSUME HandleInv PROVE [HandleNext(Handles)]_handleVars => PinsOK'
    OBVIOUS
<1> USE ZenonT(30)
<1>0. /\ TypesOK /\ CallsOK /\ Holders /\ MapsLive /\ PinsOK /\ KernelTypes /\ ProcessTypes
      /\ None \notin Fds /\ None \notin Paths /\ None \notin Maps /\ Prog \notin Maps
      /\ \A h \in Handles : CallOK(h) /\ wrapper[h].fd \in Fds \cup {None} /\ wrapper[h].path \in Paths \cup {None}
    BY HandleAssumption DEF HandleInv, TypesOK, CallsOK, Wrapper, KernelTypes, ProcessTypes
<1>1. \A h \in Handles : Rightful(h) => IsOpen(h) /\ wrapper[h].fd \in Fds /\ wrapper[h].path \in Paths /\ MapOf(h) \in Maps
    BY <1>0, SMT DEF Rightful, Claims, CallOK, Holders, WrappersHold, IsOpen
<1>2. ASSUME \A g \in Handles : Rightful(g)' =>
                /\ Rightful(g) /\ wrapper'[g].path = wrapper[g].path /\ wrapper'[g].fd = wrapper[g].fd
                /\ pins'[wrapper[g].path] = pins[wrapper[g].path] /\ files'[wrapper[g].fd] = files[wrapper[g].fd]
      PROVE  PinsOK'
    BY <1>0, <1>2 DEF PinsOK, MapOf
<1>3. ASSUME NEW h \in Handles, Inside(h)
      PROVE  PinsOK'
  <2>1. files' = files /\ pins' = pins
    BY <1>0, <1>3, KernelForms DEF QuietFiles
  <2>2. \A g \in Handles \ {h} : wrapper'[g] = wrapper[g] /\ pc'[g] = pc[g]
    BY <1>0, <1>3, CallEffects DEF Inside, Same, Becomes
  <2>3. Rightful(h)' => Rightful(h) /\ wrapper'[h].path = wrapper[h].path /\ wrapper'[h].fd = wrapper[h].fd
    <3>0. CallOK(h)
      BY <1>0
    <3>1. CASE \E p \in Paths : OpenPinned(h, p) \/ Pin(h, p)
      BY <1>0, <3>1, CallEffects DEF Same, Becomes, Is, Rightful, Claims
    <3>2. CASE ObjGetFails(h) \/ ObjPinFails(h)
      BY <1>0, <3>2, CallEffects DEF Same, Becomes, Is, Rightful, Claims
    <3>3. CASE Unpin(h)
      BY <1>0, <3>3, CallEffects DEF Unpin, Becomes, Is, Rightful, Claims
    <3>4. CASE UnpinWithoutPin(h)
      BY <1>0, <3>4, CallEffects DEF Becomes, Is, Rightful, Claims
    <3>5. CASE RemovePinFails(h)
      BY <1>0, <3>5, CallEffects DEF RemovePinFails, Becomes, Is, Rightful, Claims
    <3>6. CASE MapInfo(h)
      <4>1. ~wrapper[h].owner
        BY <3>0, <3>6 DEF MapInfo, CallOK
      <4>. QED
        BY <1>0, <3>6, <4>1, CallEffects DEF Becomes, Is, Rightful, Claims
    <3>7. CASE \E made \in BOOLEAN : EventBufferCreate(h, made)
      BY <1>0, <3>7, CallEffects DEF Becomes, Is, Rightful, Claims
    <3>. QED
      BY <1>3, <3>1, <3>2, <3>3, <3>4, <3>5, <3>6, <3>7 DEF Inside
  <2>4. \A g \in Handles \ {h} : Rightful(g)' => Rightful(g)
    BY <2>2 DEF Rightful, Claims
  <2>. QED
    BY <1>2, <2>1, <2>2, <2>3, <2>4
<1>4. ASSUME NEW f, NEW v, NEW h \in Handles, ~Rightful(h)', Files(f, v), pins' = pins,
             wrapper[h].fd = f \/ files[f] = None,
             \A g \in Handles \ {h} : wrapper'[g] = wrapper[g] /\ pc'[g] = pc[g]
      PROVE  PinsOK'
  <2>1. ASSUME NEW g \in Handles \ {h}, Rightful(g)'
        PROVE  Rightful(g) /\ files'[wrapper[g].fd] = files[wrapper[g].fd]
    <3>1. Rightful(g)
      BY <1>4, <2>1 DEF Rightful, Claims
    <3>2. wrapper[g].fd # f
      BY <1>0, <1>1, <1>4, <3>1, SMT DEF Holders, WrappersHold, MapOf, IsOpen
    <3>. QED
      BY <1>1, <1>4, <3>1, <3>2 DEF Files
  <2>. QED
    BY <1>2, <1>4, <2>1
<1>5. ASSUME NEW h \in Handles, ObjGet(h) \/ OpenNew(h) \/ MapInfoFails(h) \/ Close(h)
      PROVE  PinsOK'
  <2>1. \A g \in Handles \ {h} : wrapper'[g] = wrapper[g] /\ pc'[g] = pc[g]
    BY <1>0, <1>5, CallEffects DEF Becomes
  <2>2. ~wrapper'[h].owner /\ pc'[h] # "remove"
    <3>1. CASE ObjGet(h)
      BY <1>0, <3>1, CallEffects DEF ObjGet, CallOK, Becomes, Is
    <3>2. CASE OpenNew(h)
      BY <1>0, <3>2, CallEffects DEF OpenNew, CallOK, Becomes, Is
    <3>3. CASE MapInfoFails(h) \/ Close(h)
      BY <1>0, <3>3, CallEffects DEF Becomes, Is
    <3>. QED
      BY <1>5, <3>1, <3>2, <3>3
  <2>3. ~Rightful(h)'
    BY <2>2 DEF Rightful, Claims
  <2>4. pins' = pins /\ \E f, v : Files(f, v) /\ (wrapper[h].fd = f \/ files[f] = None)
    BY <1>0, <1>5, KernelForms, FreeIsFree DEF ObjGet, OpenNew
  <2>. QED
    BY <1>4, <2>1, <2>3, <2>4
<1>6. ASSUME NEW h \in Handles, ObjPin(h)
      PROVE  PinsOK'
  <2>1. files' = files /\ Pins(arg[h], MapOf(h)) /\ pins[arg[h]] = None
    BY <1>0, <1>6, KernelForms DEF QuietFiles, ObjPin
  <2>2. /\ wrapper'[h].path = arg[h] /\ wrapper'[h].fd = wrapper[h].fd
        /\ \A g \in Handles \ {h} : wrapper'[g] = wrapper[g] /\ pc'[g] = pc[g]
    BY <1>0, <1>6, CallEffects DEF Becomes, Is
  <2>3. arg[h] \in Paths
    BY <1>0, <1>6 DEF ObjPin, CallOK, ProcessTypes
  <2>4. ASSUME NEW g \in Handles \ {h}, Rightful(g)'
        PROVE  /\ Rightful(g) /\ wrapper[g].path # arg[h]
               /\ wrapper'[g] = wrapper[g] /\ pins'[wrapper[g].path] = pins[wrapper[g].path]
    <3>1. Rightful(g) /\ wrapper'[g] = wrapper[g]
      BY <2>2, <2>4 DEF Rightful, Claims
    <3>2. wrapper[g].path # arg[h]
      BY <1>0, <1>1, <2>1, <3>1 DEF PinsOK
    <3>. QED
      BY <1>1, <2>1, <3>1, <3>2 DEF Pins
  <2>5. pins'[wrapper'[h].path] = MapOf(h)'
    BY <2>1, <2>2, <2>3 DEF Pins, MapOf
  <2>6. ASSUME NEW g \in Handles, Rightful(g)'
        PROVE  pins'[wrapper'[g].path] = MapOf(g)'
    <3>1. CASE g = h
      BY <2>5, <3>1
    <3>2. CASE g # h
      BY <1>0, <2>1, <2>4, <2>6, <3>2 DEF PinsOK, MapOf
    <3>. QED
      BY <3>1, <3>2
  <2>7. ASSUME NEW g \in Handles, NEW i \in Handles, Rightful(g)', Rightful(i)', wrapper'[g].path = wrapper'[i].path
        PROVE  g = i
    <3>1. CASE g = h
      BY <2>2, <2>4, <2>7, <3>1
    <3>2. CASE i = h
      BY <2>2, <2>4, <2>7, <3>2
    <3>3. CASE g # h /\ i # h
      BY <1>0, <2>4, <2>7, <3>3 DEF PinsOK
    <3>. QED
      BY <3>1, <3>2, <3>3
  <2>. QED
    BY <2>6, <2>7 DEF PinsOK
<1>7. ASSUME NEW h \in Handles, RemovePin(h)
      PROVE  PinsOK'
  <2>1. files' = files /\ Pins(arg[h], None) /\ pc[h] = "remove"
    BY <1>0, <1>7, KernelForms DEF QuietFiles, RemovePin
  <2>2. ~wrapper[h].owner /\ wrapper[h].path = arg[h] /\ (~wrapper[h].removed => Rightful(h))
    BY <1>0, <2>1 DEF CallOK, Rightful, Claims
  <2>3. ~Rightful(h)'
    BY <1>0, <1>7, <2>2, RemovePinEffect DEF Is, Rightful, Claims
  <2>4. ASSUME NEW g \in Handles \ {h}, Rightful(g)'
        PROVE  /\ Rightful(g) /\ wrapper[g].path # arg[h]
               /\ wrapper'[g].path = wrapper[g].path /\ wrapper'[g].fd = wrapper[g].fd
    <3>1. pc'[g] = pc[g] /\ Loses(g, wrapper[h].removed /\ wrapper[g].path = arg[h] /\ Claims(g))
      BY <1>0, <1>7, RemovePinEffect
    <3>2. /\ Rightful(g) /\ ~(wrapper[h].removed /\ wrapper[g].path = arg[h])
          /\ wrapper'[g].path = wrapper[g].path /\ wrapper'[g].fd = wrapper[g].fd
      BY <2>4, <3>1 DEF Loses, Is, Rightful, Claims
    <3>. QED
      BY <1>0, <2>2, <3>2 DEF PinsOK
  <2>5. ASSUME NEW g \in Handles \ {h}, Rightful(g)'
        PROVE  pins'[wrapper[g].path] = pins[wrapper[g].path]
    BY <1>1, <2>1, <2>4, <2>5 DEF Pins
  <2>. QED
    BY <1>2, <2>1, <2>3, <2>4, <2>5
<1>8. ASSUME NEW p \in Paths, RemovedOutside(p)
      PROVE  PinsOK'
  <2>1. files' = files /\ Pins(p, None) /\ pc' = pc
    BY <1>0, <1>8, KernelForms DEF QuietFiles, RemovedOutside
  <2>2. ASSUME NEW g \in Handles, Rightful(g)'
        PROVE  Rightful(g) /\ wrapper[g].path # p /\ wrapper'[g].path = wrapper[g].path /\ wrapper'[g].fd = wrapper[g].fd
    <3>1. Loses(g, wrapper[g].path = p /\ Claims(g))
      BY <1>0, <1>8, RemovedOutsideEffect
    <3>. QED
      BY <2>1, <2>2, <3>1 DEF Loses, Is, Rightful, Claims
  <2>3. ASSUME NEW g \in Handles, Rightful(g)'
        PROVE  pins'[wrapper[g].path] = pins[wrapper[g].path]
    BY <1>1, <2>1, <2>2, <2>3 DEF Pins
  <2>. QED
    BY <1>2, <2>1, <2>2, <2>3
<1>9. ASSUME NEW g \in Handles, NEW h \in Handles, Move(g, h)
      PROVE  PinsOK'
  <2>1. /\ Files(wrapper[g].fd, None) /\ pins' = pins /\ pc' = pc /\ g # h /\ pc[h] = "rest" /\ pc[g] = "rest"
        /\ wrapper'[g] = wrapper[h] /\ ~wrapper'[h].owner /\ \A i \in Handles \ {g, h} : wrapper'[i] = wrapper[i]
    BY <1>0, <1>9, KernelForms, MoveEffect DEF Is
  <2>2. ASSUME NEW i \in Handles \ {g}, Rightful(i)
        PROVE  files'[wrapper[i].fd] = files[wrapper[i].fd]
    BY <1>0, <1>1, <2>1, <2>2 DEF Holders, WrappersHold, IsOpen, Files
  <2>3. (Rightful(g)' => Rightful(h)) /\ ~Rightful(h)' /\ \A i \in Handles \ {g, h} : Rightful(i)' => Rightful(i)
    BY <2>1 DEF Rightful, Claims
  <2>4. \A i \in Handles : Rightful(i)' => pins'[wrapper'[i].path] = MapOf(i)'
    BY <1>0, <2>1, <2>2, <2>3, SMT DEF PinsOK, MapOf
  <2>5. \A i, j \in Handles : Rightful(i)' /\ Rightful(j)' /\ wrapper'[i].path = wrapper'[j].path => i = j
    BY <1>0, <2>1, <2>3 DEF PinsOK
  <2>. QED
    BY <2>4, <2>5 DEF PinsOK
<1>10. ASSUME NEW proc, Crash(proc)
       PROVE  PinsOK'
  <2>1. /\ \A x \in Fds : files'[x] = IF \E h \in Handles : Process[h] = proc /\ wrapper[h].fd = x THEN None ELSE files[x]
        /\ pins' = pins
    BY <1>0, <1>10, KernelForms
  <2>2. \A i \in Handles : IF Process[i] = proc THEN ~wrapper'[i].owner /\ pc'[i] = "rest"
                           ELSE wrapper'[i] = wrapper[i] /\ pc'[i] = pc[i]
    BY <1>0, <1>10, CrashEffect, ConstructedForm
  <2>3. ASSUME NEW i \in Handles, Rightful(i)'
        PROVE  Process[i] # proc /\ Rightful(i)
    BY <2>2, <2>3 DEF Rightful, Claims
  <2>4. ASSUME NEW i \in Handles, Process[i] # proc, Rightful(i)
        PROVE  files'[wrapper[i].fd] = files[wrapper[i].fd]
    BY <1>0, <1>1, <2>1, <2>4 DEF Holders, WrappersHold, IsOpen
  <2>. QED
    BY <1>2, <2>1, <2>2, <2>3, <2>4
<1>11. ASSUME wrapper' = wrapper, pc' = pc, pins' = pins, \A f \in Fds : files[f] \in Maps => files'[f] = files[f]
       PROVE  PinsOK'
  <2>1. ASSUME NEW i \in Handles, Rightful(i)'
        PROVE  Rightful(i) /\ files'[wrapper[i].fd] = files[wrapper[i].fd]
    BY <1>1, <1>11, <2>1 DEF Rightful, Claims, MapOf
  <2>. QED
    BY <1>2, <1>11, <2>1
<1>12. ASSUME NEW h \in Handles, load_program({h})
       PROVE  PinsOK'
  <2>1. Files(prog_fd', Prog) /\ files[prog_fd'] = None /\ pins' = pins /\ wrapper' = wrapper /\ pc' = pc
    BY <1>0, <1>12, KernelForms, FreeIsFree DEF load_program
  <2>. QED
    BY <1>0, <1>11, <2>1 DEF Files
<1>13. CASE GetProgId
    BY <1>0, <1>11, <1>13 DEF GetProgId
<1>14. CASE GetProgIdFails
  <2>1. Files(prog_fd, None) /\ prog_fd # None /\ pins' = pins /\ wrapper' = wrapper /\ pc' = pc
    BY <1>0, <1>14, KernelForms DEF GetProgIdFails
  <2>. QED
    BY <1>0, <1>11, <2>1 DEF Files, Holders, ProgramsHold
<1>15. ASSUME NEW f \in Fds, DestroyProgram(f)
       PROVE  PinsOK'
  <2>1. Files(f, None) /\ f \in programs /\ pins' = pins /\ wrapper' = wrapper /\ pc' = pc
    BY <1>0, <1>15, KernelForms DEF DestroyProgram
  <2>. QED
    BY <1>0, <1>11, <2>1 DEF Files, Holders, ProgramsHold
<1>16. CASE UNCHANGED handleVars
  <2>1. wrapper' = wrapper /\ pc' = pc /\ files' = files /\ pins' = pins
    BY <1>16, SMT DEF handleVars
  <2>. QED
    BY <1>11, <2>1
<1>. QED
    BY <1>3, <1>5, <1>6, <1>7, <1>8, <1>9, <1>10, <1>12, <1>13, <1>14, <1>15, <1>16, HandleSteps

\* At first every wrapper is closed, and the kernel's tables are empty.
LEMMA HandleInvInit == HandleInit => HandleInv
<1> SUFFICES ASSUME HandleInit PROVE HandleInv
    OBVIOUS
<1> USE ZenonT(30)
<1>1. \A h \in Handles : wrapper[h] = Constructed(h) /\ pc[h] = "rest" /\ arg[h] = None
    BY DEF HandleInit
<1>2. \A h \in Handles : wrapper[h] \in Wrapper /\ wrapper[h].fd = None /\ wrapper[h].buffer = None /\ ~wrapper[h].owner
    BY <1>1, ConstructedForm
<1>3. TypesOK
    BY <1>2 DEF HandleInit, TypesOK
<1>4. CallsOK
    BY <1>1, <1>2 DEF CallsOK, CallOK, IsOpen
<1>5. MapsLive
    BY HandleAssumption, SMT DEF HandleInit, MapsLive
<1>6. Holders
    BY <1>2, HandleAssumption DEF HandleInit, Holders, WrappersHold, ProgramsHold, AllHeld, IsOpen
<1>7. PinsOK /\ LayoutsOK
    BY <1>1, <1>2 DEF PinsOK, LayoutsOK, Rightful, Claims, IsOpen
<1>. QED
    BY <1>3, <1>4, <1>5, <1>6, <1>7 DEF HandleInv

\* Every step preserves the invariant.
LEMMA HandleInvStep == HandleInv /\ [HandleNext(Handles)]_handleVars => HandleInv'
<1> SUFFICES ASSUME HandleInv, [HandleNext(Handles)]_handleVars PROVE HandleInv'
    OBVIOUS
<1> USE ZenonT(30)
<1>1. TypesOK /\ CallsOK /\ MapsLive /\ Holders
    BY DEF HandleInv
<1>2. KernelOK'
    BY <1>1, KernelStep
<1>3. ProcessTypes' /\ CallsOK'
    BY <1>1, CallsStep
<1>4. Holders'
    BY <1>1, HoldersStep
<1>5. LayoutsOK' /\ PinsOK'
    BY LayoutsStep, PinsStep
<1>6. TypesOK'
    BY <1>2, <1>3 DEF KernelOK, KernelTypes, ProcessTypes, TypesOK
<1>. QED
    BY <1>2, <1>3, <1>4, <1>5, <1>6 DEF HandleInv, KernelOK

\* So the invariant holds throughout.
LEMMA HandleInvariant == HandleSpec => []HandleInv
BY HandleInvInit, HandleInvStep, PTL DEF HandleSpec

\* The invariant includes the type invariant.
LEMMA HandleTypesInside == HandleInv => HandleTypeOK
<1> SUFFICES ASSUME HandleInv PROVE HandleTypeOK
    OBVIOUS
<1>1. TypesOK /\ CallsOK /\ MapsLive
    BY DEF HandleInv
<1>2. {m \in Maps : maps[m] # None} = (Range(files) \cup Range(pins)) \ {Prog, None}
    BY <1>1, HandleAssumption DEF TypesOK, MapsLive, Range
<1>3. \A h \in Handles : (arg[h] = None <=> pc[h] = "rest") /\ (wrapper[h].owner => IsOpen(h) /\ wrapper[h].path # None)
    BY <1>1, ZenonT(30) DEF CallsOK, CallOK
<1>. QED
    BY <1>1, <1>2, <1>3, ZenonT(30) DEF HandleTypeOK, TypesOK

\* Descriptors, pins, maps and wrappers keep their types, and a map exists exactly as
\* long as a descriptor or a pin refers to it, for any number of wrappers, paths and
\* maps.
THEOREM HandleTypeCorrect == HandleSpec => []HandleTypeOK
BY HandleInvariant, HandleTypesInside, PTL

\* No descriptor leaks and none is closed twice (bpf_control_base.hpp:127-144,
\* bpf_prog_loader.cpp:183-187, bpf_types.hpp:23-25): every open one has one holder,
\* through moves, failed opens, failed loads and crashes.
THEOREM EveryDescriptorOwned == HandleSpec => []DescriptorsOwned
<1>1. HandleInv => DescriptorsOwned
  <2> SUFFICES ASSUME HandleInv PROVE DescriptorsOwned
    OBVIOUS
  <2>1. /\ WrappersHold /\ ProgramsHold /\ AllHeld
        /\ files \in [Fds -> Maps \cup {Prog, None}] /\ prog_fd \in Fds \cup {None} /\ programs \subseteq Fds
        /\ None \notin Fds /\ None \notin Maps /\ Prog # None /\ Prog \notin Maps
        /\ \A h \in Handles : wrapper[h].fd \in Fds \cup {None}
    BY HandleAssumption, ZenonT(30) DEF HandleInv, Holders, TypesOK, Wrapper
  <2>2. Fds \ FreeFds = ({wrapper[h].fd : h \in Handles} \cup programs \cup {prog_fd}) \ {None}
    <3>1. ASSUME NEW f \in Fds, files[f] # None
          PROVE  f \in programs \/ f = prog_fd \/ \E h \in Handles : wrapper[h].fd = f
      BY <2>1, <3>1 DEF AllHeld
    <3>2. ASSUME NEW h \in Handles, wrapper[h].fd # None
          PROVE  wrapper[h].fd \in Fds /\ files[wrapper[h].fd] # None
      BY <2>1, <3>2 DEF WrappersHold, IsOpen, MapOf
    <3>3. ASSUME NEW f \in programs \cup {prog_fd}, f # None
          PROVE  f \in Fds /\ files[f] # None
      BY <2>1, <3>3 DEF ProgramsHold
    <3>. QED
      BY <2>1, <3>1, <3>2, <3>3 DEF FreeFds
  <2>3. \A h \in Handles : IsOpen(h) => wrapper[h].fd \notin programs \cup {prog_fd}
    BY <2>1 DEF WrappersHold, ProgramsHold, IsOpen, MapOf
  <2>. QED
    BY <2>1, <2>2, <2>3, ZenonT(30) DEF DescriptorsOwned, WrappersHold, ProgramsHold
<1>. QED
    BY <1>1, HandleInvariant, PTL

\* The path of a wrapper that owns its pin leads to its map, and no other wrapper owns
\* it, unless the pin was taken away (bpf_control_base.hpp:147-217).
THEOREM OwnersHaveTheirPins == HandleSpec => []PinOwnership
<1>1. HandleInv => PinOwnership
    BY ZenonT(30) DEF HandleInv, PinsOK, Rightful, Claims, PinOwnership
<1>. QED
    BY <1>1, HandleInvariant, PTL

\* A wrapper that is open has a map of the type and the sizes it was constructed for
\* (bpf_map_control.cpp:136-186), whoever pinned it.
THEOREM OpenMapsFit == HandleSpec => []OpenFitsRequest
<1>1. HandleInv => OpenFitsRequest
    BY ZenonT(30) DEF HandleInv, LayoutsOK, OpenFitsRequest, Resting
<1>. QED
    BY <1>1, HandleInvariant, PTL

\* A pin outlives its wrapper and its process: only remove() or somebody outside takes
\* it away (bpf_control_base.hpp:169-217).
THEOREM PinsStay == HandleSpec => PinsOutliveWrappers
<1> DEFINE Lost == \A p \in Paths : pins[p] # None /\ pins'[p] # pins[p] =>
                        \E h \in Handles : pc[h] = "remove" /\ arg[h] = p /\ (MapOf(h) = pins[p] \/ wrapper[h].removed)
<1>1. HandleInv /\ [HandleNext(Handles)]_handleVars => Lost \/ \E p \in Paths : RemovedOutside(p)
  <2> SUFFICES ASSUME HandleInv PROVE [HandleNext(Handles)]_handleVars => Lost \/ \E p \in Paths : RemovedOutside(p)
    OBVIOUS
  <2> USE ZenonT(30)
  <2>0. KernelTypes /\ CallsOK /\ PinsOK
    BY DEF HandleInv, TypesOK, KernelTypes
  <2>1. pins' = pins => Lost
    OBVIOUS
  <2>2. ASSUME NEW h \in Handles, ObjPin(h)
        PROVE  Lost
    BY <2>0, <2>2, KernelForms DEF ObjPin, Pins
  <2>3. ASSUME NEW h \in Handles, RemovePin(h)
        PROVE  Lost
    <3>1. pc[h] = "remove" /\ \A x \in Paths : pins'[x] # pins[x] => x = arg[h]
      BY <2>0, <2>3, KernelForms DEF RemovePin, Pins
    <3>2. wrapper[h].removed \/ MapOf(h) = pins[arg[h]]
      BY <2>0, <3>1 DEF CallsOK, CallOK, PinsOK, Rightful, Claims
    <3>. QED
      BY <3>1, <3>2
  <2> HIDE DEF Lost
  <2>4. UNCHANGED handleVars => Lost
    BY <2>1, SMT DEF handleVars
  <2>. QED
    BY <2>0, <2>1, <2>2, <2>3, <2>4, KernelForms, HandleSteps
<1>2. HandleInv /\ [HandleNext(Handles)]_handleVars =>
        [\/ \A p \in Paths :
            pins[p] # None /\ pins'[p] # pins[p] =>
                \E h \in Handles :
                    /\ pc[h] = "remove" /\ arg[h] = p
                    /\ MapOf(h) = pins[p] \/ wrapper[h].removed
         \/ \E p \in Paths : RemovedOutside(p)]_handleVars
    BY <1>1, ZenonT(30)
<1>. QED
    BY <1>2, HandleInvariant, PTL DEF HandleSpec, PinsOutliveWrappers
-----------------------------------------------------------------------------
\* How far open_or_create is, and the system call it does.
StageOK(h) ==
    /\ stage[h] \in {"open", "create", "pin", "ready", "failed"} => pc[h] = "rest"
    /\ stage[h] = "opening" => pc[h] \in {"rest", "get", "info"}
    /\ stage[h] = "pinning" => pc[h] \in {"rest", "pin"}
    /\ pc[h] # "rest" => arg[h] = ThePath
    /\ stage[h] \in {"open", "create"} => ~IsOpen(h)

\* The wrapper uses, or is about to use, the map it has.
Uses(h) == stage[h] = "ready" \/ (stage[h] = "opening" /\ IsOpen(h)) \/ wrapper[h].owner

\* The inductive invariant of open_or_create.
StartupInv ==
    /\ stage \in [Starters -> {"open", "opening", "create", "pin", "pinning", "ready", "failed"}]
    /\ \A h \in Starters : StageOK(h)
    /\ ~disturbed => \A h \in Starters : Uses(h) => IsOpen(h) /\ MapOf(h) = pins[ThePath]

\* The path the processes open is one of the paths.
LEMMA ThePathIsOne == ThePath \in Paths
BY StartupAssumption DEF ThePath

\* Every step is one of the wrappers, or none of their business.
LEMMA StartupSteps == StartupNext => HandleNext(Handles) \/ UNCHANGED handleVars
<1> SUFFICES ASSUME StartupNext PROVE HandleNext(Handles) \/ UNCHANGED handleVars
    OBVIOUS
<1> USE ZenonT(30)
<1>1. ASSUME NEW h \in Starters, open_or_create(h)
      PROVE  HandleNext(Handles) \/ UNCHANGED handleVars
  <2>1. h \in Handles /\ ThePath \in Paths
    BY StartupAssumption, ThePathIsOne
  <2>2. \/ OpenPinned(h, ThePath) \/ OpenNew(h) \/ Pin(h, ThePath) \/ SystemCalls(h)
        \/ UNCHANGED handleVars
    BY <1>1 DEF open_or_create, TryPinned, NotPinned, Opened, Create, CreateFails, TryPin, PinRefused, Pinned
  <2>. QED
    BY <2>1, <2>2 DEF HandleNext, WrapperNext, Calls
<1>2. ASSUME NEW h \in Starters, Restart(Process[h])
      PROVE  HandleNext(Handles)
  <2>1. h \in Handles
    BY StartupAssumption
  <2>. QED
    BY <1>2, <2>1 DEF Restart, HandleNext, WrapperNext, Outside
<1>3. ASSUME Disturb
      PROVE  HandleNext(Handles)
    BY <1>3 DEF Disturb, HandleNext, WrapperNext, Outside
<1>. QED
    BY <1>1, <1>2, <1>3 DEF StartupNext

\* So the wrappers of the starting processes keep their invariant.
LEMMA StartupHandles == StartupSpec => []HandleInv
<1>1. StartupInit => HandleInit
    BY DEF StartupInit
<1>2. [StartupNext]_startupVars => [HandleNext(Handles)]_handleVars
  <2>1. UNCHANGED startupVars => UNCHANGED handleVars
    BY DEF startupVars
  <2>. QED
    BY <2>1, StartupSteps, Zenon
<1>. QED
    BY <1>1, <1>2, HandleInvInit, HandleInvStep, PTL DEF StartupSpec

\* Every step of the starting processes preserves StartupInv.
LEMMA StartupInvStep == HandleInv /\ StartupInv /\ [StartupNext]_startupVars => StartupInv'
<1> SUFFICES ASSUME HandleInv, StartupInv PROVE [StartupNext]_startupVars => StartupInv'
    OBVIOUS
<1> DEFINE P == ThePath
           Stages == {"open", "opening", "create", "pin", "pinning", "ready", "failed"}
           Good(g) == ~disturbed => (Uses(g) => IsOpen(g) /\ MapOf(g) = pins[ThePath])
<1> USE ZenonT(30)
<1>0. /\ TypesOK /\ CallsOK /\ Holders /\ MapsLive /\ KernelTypes /\ ProcessTypes
      /\ None \notin Fds /\ None \notin Maps /\ P \in Paths
      /\ Starters \subseteq Handles
      /\ stage \in [Starters -> Stages]
      /\ \A h \in Starters : StageOK(h) /\ Good(h)
      /\ \A h \in Handles : CallOK(h) /\ wrapper[h].fd \in Fds \cup {None}
    BY HandleAssumption, StartupAssumption, ThePathIsOne DEF HandleInv, TypesOK, CallsOK, Wrapper, KernelTypes,
       ProcessTypes, StartupInv
<1>1. ASSUME stage' \in [Starters -> Stages], \A g \in Starters : StageOK(g)' /\ Good(g)'
      PROVE  StartupInv'
    BY <1>1 DEF StartupInv
<1> HIDE DEF Good, P
\* A step that changes no descriptor and no pin, and only the wrapper and the stage of h.
<1>2. ASSUME NEW h \in Starters, stage' \in [Starters -> Stages], StageOK(h)', Good(h)',
             disturbed' = disturbed, pins'[P] = pins[P],
             \A g \in Starters \ {h} :
                /\ stage'[g] = stage[g] /\ wrapper'[g] = wrapper[g] /\ pc'[g] = pc[g] /\ arg'[g] = arg[g]
                /\ IsOpen(g) => files'[wrapper[g].fd] = files[wrapper[g].fd]
      PROVE  StartupInv'
  <2>1. ASSUME NEW g \in Starters \ {h}
        PROVE  StageOK(g)' /\ Good(g)'
    <3>1. StageOK(g) /\ Good(g)
      BY <1>0
    <3>2. StageOK(g)'
      BY <1>2, <3>1 DEF StageOK, IsOpen
    <3>3. (Uses(g)' <=> Uses(g)) /\ (IsOpen(g)' <=> IsOpen(g)) /\ (IsOpen(g) => MapOf(g)' = MapOf(g))
      BY <1>2 DEF Uses, IsOpen, MapOf
    <3>4. Good(g)'
      BY <1>2, <3>1, <3>3 DEF Good, P
    <3>. QED
      BY <3>2, <3>4
  <2>. QED
    BY <1>1, <1>2, <2>1
<1>3. ASSUME NEW h \in Starters, NEW from, NEW to \in Stages, Stage(h, from, to)
      PROVE  /\ stage[h] = from /\ stage' \in [Starters -> Stages] /\ stage'[h] = to /\ disturbed' = disturbed
             /\ \A g \in Starters \ {h} : stage'[g] = stage[g]
    BY <1>0, <1>3 DEF Stage
<1>4. ASSUME UNCHANGED handleVars
      PROVE  wrapper' = wrapper /\ pc' = pc /\ arg' = arg /\ files' = files /\ pins' = pins
    BY <1>4, SMT DEF handleVars
\* Steps of open_or_create between two calls.
<1>5. ASSUME NEW h \in Starters, NEW from, NEW to \in Stages, Stage(h, from, to), UNCHANGED handleVars,
             pc[h] = "rest", to \in {"open", "create"} => ~IsOpen(h), to = "ready" => Uses(h), to # "opening"
      PROVE  StartupInv'
  <2>1. stage'[h] = to /\ StageOK(h) /\ Good(h)
    BY <1>0, <1>3, <1>5
  <2>2. wrapper' = wrapper /\ pc' = pc /\ arg' = arg /\ files' = files /\ pins' = pins /\ disturbed' = disturbed
    BY <1>3, <1>4, <1>5
  <2>3. StageOK(h)'
    BY <1>5, <2>1, <2>2 DEF StageOK, IsOpen
  <2>4. Uses(h)' => Uses(h)
    BY <1>5, <2>1, <2>2 DEF Uses
  <2>5. Good(h)'
    BY <2>1, <2>2, <2>4 DEF Good, IsOpen, MapOf
  <2>. QED
    BY <1>2, <1>3, <1>5, <2>2, <2>3, <2>5
<1>6. ASSUME NEW h \in Starters, NotPinned(h) \/ Opened(h) \/ CreateFails(h) \/ PinRefused(h) \/ Pinned(h)
      PROVE  StartupInv'
  <2>0. StageOK(h)
    BY <1>0
  <2>1. CASE NotPinned(h)
    BY <1>5, <2>0, <2>1 DEF NotPinned, Stage, StageOK
  <2>2. CASE Opened(h)
    <3>1. CASE IsOpen(h)
      BY <1>5, <2>2, <3>1 DEF Opened, Stage, Resting, Uses
    <3>2. CASE ~IsOpen(h)
      BY <1>5, <2>2, <3>2 DEF Opened, Stage, Resting
    <3>. QED
      BY <3>1, <3>2
  <2>3. CASE CreateFails(h)
    BY <1>5, <2>0, <2>3 DEF CreateFails, Stage, StageOK
  <2>4. CASE PinRefused(h)
    BY <1>5, <2>0, <2>4 DEF PinRefused, Stage, StageOK
  <2>5. CASE Pinned(h)
    <3>1. CASE wrapper[h].owner
      BY <1>5, <2>5, <3>1 DEF Pinned, Stage, Resting, Uses
    <3>2. CASE ~wrapper[h].owner
      BY <1>5, <2>5, <3>2 DEF Pinned, Stage, Resting
    <3>. QED
      BY <3>1, <3>2
  <2>. QED
    BY <1>6, <2>1, <2>2, <2>3, <2>4, <2>5
\* Steps inside a call that leave descriptors and pins alone.
<1>7. ASSUME NEW h \in Starters, NEW from, NEW to \in Stages, NEW place, NEW p, NEW path,
             Stage(h, from, to), Inside(h),
             Becomes(h, place, p, wrapper[h].fd, path, wrapper[h].owner, wrapper[h].buffer, wrapper[h].removed),
             to = from \/ to = "pinning" \/ (to = "opening" /\ ~IsOpen(h)),
             place = "rest" \/ (place = "get" /\ to = "opening" /\ p = ThePath) \/ (place = "pin" /\ to = "pinning" /\ p = ThePath)
      PROVE  StartupInv'
  <2>1. stage[h] = from /\ stage'[h] = to /\ StageOK(h) /\ Good(h) /\ h \in Handles /\ disturbed' = disturbed
    BY <1>0, <1>3, <1>7
  <2>2. files' = files /\ pins' = pins
    BY <1>0, <1>7, <2>1, KernelForms DEF QuietFiles
  <2>3. pc'[h] = place /\ arg'[h] = p /\ wrapper'[h].fd = wrapper[h].fd /\ (wrapper'[h].owner <=> wrapper[h].owner)
    BY <1>7 DEF Becomes, Is
  <2>4. StageOK(h)'
    BY <1>7, <2>1, <2>3 DEF StageOK, IsOpen
  <2>5. Uses(h)' => Uses(h)
    BY <1>7, <2>1, <2>3 DEF Uses, IsOpen
  <2>6. Good(h)'
    BY <2>1, <2>2, <2>3, <2>5 DEF Good, IsOpen, MapOf
  <2>7. \A g \in Starters \ {h} : wrapper'[g] = wrapper[g] /\ pc'[g] = pc[g] /\ arg'[g] = arg[g]
    BY <1>0, <1>7 DEF Becomes
  <2>. QED
    BY <1>2, <1>3, <1>7, <2>2, <2>4, <2>6, <2>7
<1>8. ASSUME NEW h \in Starters, TryPinned(h)
      PROVE  StartupInv'
  <2>1. Stage(h, "open", "opening") /\ OpenPinned(h, ThePath) /\ h \in Handles /\ ~IsOpen(h)
    BY <1>0, <1>8 DEF TryPinned, OpenPinned
  <2>2. Inside(h) /\ Same(h, "get", ThePath)
    BY <1>0, <2>1, CallEffects, ThePathIsOne DEF Inside
  <2>. QED
    BY <1>7, <2>1, <2>2 DEF Same
<1>9. ASSUME NEW h \in Starters, TryPin(h)
      PROVE  StartupInv'
  <2>1. Stage(h, "pin", "pinning") /\ Pin(h, ThePath) /\ h \in Handles
    BY <1>0, <1>9 DEF TryPin
  <2>2. Inside(h) /\ Same(h, "pin", ThePath)
    BY <1>0, <2>1, CallEffects, ThePathIsOne DEF Inside
  <2>. QED
    BY <1>7, <2>1, <2>2 DEF Same
<1>10. ASSUME NEW h \in Starters, ObjGetFails(h) \/ ObjPinFails(h) \/ MapInfo(h), UNCHANGED <<stage, disturbed>>
       PROVE  StartupInv'
  <2>1. Stage(h, stage[h], stage[h]) /\ stage[h] \in Stages /\ h \in Handles
    BY <1>0, <1>10 DEF Stage
  <2>2. Inside(h) /\ \E path : Becomes(h, "rest", None, wrapper[h].fd, path, wrapper[h].owner, wrapper[h].buffer, wrapper[h].removed)
    BY <1>0, <1>10, <2>1, CallEffects DEF Inside, Same
  <2>. QED
    BY <1>7, <2>1, <2>2
\* Descriptors that others hold stay.
<1>11. ASSUME NEW h \in Handles, NEW f, NEW v, Files(f, v), f = wrapper[h].fd \/ files[f] = None,
              NEW g \in Handles \ {h}, IsOpen(g)
       PROVE  files'[wrapper[g].fd] = files[wrapper[g].fd]
    BY <1>0, <1>11, SMT DEF Holders, WrappersHold, IsOpen, MapOf, Files
<1>12. ASSUME NEW h \in Starters, ObjGet(h), UNCHANGED <<stage, disturbed>>
       PROVE  StartupInv'
  <2>1. h \in Handles /\ pc[h] = "get" /\ arg[h] = P /\ stage[h] = "opening"
    BY <1>0, <1>12 DEF ObjGet, StageOK, P
  <2>2. Files(Min(FreeFds), pins[arg[h]]) /\ pins' = pins /\ files[Min(FreeFds)] = None /\ Min(FreeFds) \in Fds
    BY <1>0, <1>12, <2>1, KernelForms, FreeIsFree DEF ObjGet
  <2>3. Becomes(h, "info", arg[h], Min(FreeFds), wrapper[h].path, wrapper[h].owner, wrapper[h].buffer, wrapper[h].removed)
    BY <1>0, <1>12, <2>1, CallEffects
  <2>4. pc'[h] = "info" /\ arg'[h] = P /\ wrapper'[h].fd = Min(FreeFds)
    BY <2>1, <2>3 DEF Becomes, Is
  <2>5. StageOK(h)'
    BY <1>12, <2>1, <2>4 DEF StageOK, P
  <2>6. Good(h)'
    BY <1>0, <2>1, <2>2, <2>4 DEF Good, IsOpen, MapOf, Files, P
  <2>7. \A g \in Starters \ {h} : wrapper'[g] = wrapper[g] /\ pc'[g] = pc[g] /\ arg'[g] = arg[g]
    BY <1>0, <2>3 DEF Becomes
  <2>8. \A g \in Starters \ {h} : IsOpen(g) => files'[wrapper[g].fd] = files[wrapper[g].fd]
    BY <1>0, <1>11, <2>1, <2>2
  <2>. QED
    BY <1>0, <1>2, <1>12, <2>2, <2>5, <2>6, <2>7, <2>8
<1>13. ASSUME NEW h \in Starters, Create(h)
       PROVE  StartupInv'
  <2>1. h \in Handles /\ Stage(h, "create", "pin") /\ OpenNew(h) /\ StageOK(h) /\ CallOK(h)
    BY <1>0, <1>13 DEF Create
  <2>2. Files(Min(FreeFds), Min(FreeMaps)) /\ pins' = pins /\ files[Min(FreeFds)] = None
    BY <1>0, <2>1, KernelForms, FreeIsFree DEF OpenNew
  <2>3. Becomes(h, "rest", None, Min(FreeFds), wrapper[h].path, wrapper[h].owner, wrapper[h].buffer, wrapper[h].removed)
    BY <1>0, <2>1, CallEffects
  <2>4. pc'[h] = "rest" /\ stage'[h] = "pin" /\ ~wrapper'[h].owner
    BY <1>3, <2>1, <2>3 DEF Becomes, Is, OpenNew, CallOK
  <2>5. StageOK(h)' /\ Good(h)'
    BY <2>4 DEF StageOK, Good, Uses
  <2>7. \A g \in Starters \ {h} : wrapper'[g] = wrapper[g] /\ pc'[g] = pc[g] /\ arg'[g] = arg[g]
    BY <1>0, <2>3 DEF Becomes
  <2>8. \A g \in Starters \ {h} : IsOpen(g) => files'[wrapper[g].fd] = files[wrapper[g].fd]
    BY <1>0, <1>11, <2>1, <2>2
  <2>. QED
    BY <1>2, <1>3, <2>1, <2>2, <2>5, <2>7, <2>8
<1>14. ASSUME NEW h \in Starters, MapInfoFails(h), UNCHANGED <<stage, disturbed>>
       PROVE  StartupInv'
  <2>1. h \in Handles /\ pc[h] = "info" /\ stage[h] = "opening"
    BY <1>0, <1>14 DEF MapInfoFails, StageOK
  <2>2. Files(wrapper[h].fd, None) /\ pins' = pins
    BY <1>0, <1>14, <2>1, KernelForms
  <2>3. Becomes(h, "rest", None, None, None, FALSE, None, FALSE)
    BY <1>0, <1>14, <2>1, CallEffects
  <2>4. pc'[h] = "rest" /\ stage'[h] = "opening" /\ ~wrapper'[h].owner /\ wrapper'[h].fd = None
    BY <1>14, <2>1, <2>3 DEF Becomes, Is
  <2>5. StageOK(h)' /\ Good(h)'
    BY <2>4 DEF StageOK, Good, Uses, IsOpen
  <2>7. \A g \in Starters \ {h} : wrapper'[g] = wrapper[g] /\ pc'[g] = pc[g] /\ arg'[g] = arg[g]
    BY <1>0, <2>3 DEF Becomes
  <2>8. \A g \in Starters \ {h} : IsOpen(g) => files'[wrapper[g].fd] = files[wrapper[g].fd]
    BY <1>0, <1>11, <2>1, <2>2
  <2>. QED
    BY <1>0, <1>2, <1>14, <2>2, <2>5, <2>7, <2>8
\* The first pin: nobody uses a map yet.
<1>15. ASSUME NEW h \in Starters, ObjPin(h), UNCHANGED <<stage, disturbed>>
       PROVE  StartupInv'
  <2>1. h \in Handles /\ pc[h] = "pin" /\ stage[h] = "pinning" /\ arg[h] = P /\ pins[P] = None /\ IsOpen(h)
    BY <1>0, <1>15 DEF ObjPin, StageOK, P, CallOK
  <2>2. files' = files /\ Pins(P, MapOf(h))
    BY <1>0, <1>15, <2>1, KernelForms DEF QuietFiles
  <2>3. Becomes(h, "rest", None, wrapper[h].fd, arg[h], TRUE, wrapper[h].buffer, wrapper[h].removed)
    BY <1>0, <1>15, <2>1, CallEffects
  <2>4. pc'[h] = "rest" /\ stage' = stage /\ disturbed' = disturbed /\ wrapper'[h].fd = wrapper[h].fd
    BY <1>15, <2>3 DEF Becomes, Is
  <2>5. StageOK(h)'
    BY <2>1, <2>4 DEF StageOK
  <2>6. Good(h)'
    BY <1>0, <2>1, <2>2, <2>4 DEF Good, IsOpen, MapOf, Pins, P
  <2>7. \A g \in Starters \ {h} : wrapper'[g] = wrapper[g] /\ pc'[g] = pc[g] /\ arg'[g] = arg[g]
    BY <1>0, <2>3 DEF Becomes
  <2>8. ASSUME NEW g \in Starters \ {h}
        PROVE  StageOK(g)' /\ Good(g)'
    <3>1. StageOK(g)'
      BY <1>0, <2>4, <2>7 DEF StageOK, IsOpen
    <3>2. disturbed \/ ~Uses(g)
      BY <1>0, <2>1 DEF Good, P, Holders, WrappersHold
    <3>3. Good(g)'
      BY <2>4, <2>7, <3>2 DEF Good, Uses, IsOpen
    <3>. QED
      BY <3>1, <3>3
  <2>. QED
    BY <1>0, <1>1, <2>4, <2>5, <2>6, <2>8
<1>16. ASSUME NEW h \in Starters, RemovePin(h) \/ RemovePinFails(h)
       PROVE  FALSE
    BY <1>0, <1>16, SMT DEF RemovePin, RemovePinFails, StageOK
<1>17. ASSUME NEW proc, Restart(proc)
       PROVE  StartupInv'
  <2>1. /\ Crash(proc) /\ disturbed' = disturbed
        /\ stage' = [h \in Starters |-> IF Process[h] = proc THEN "open" ELSE stage[h]]
    BY <1>17 DEF Restart
  <2>2. stage' \in [Starters -> Stages]
    BY <1>0, <2>1
  <2>3. /\ pins' = pins
        /\ \A x \in Fds : files'[x] = IF \E h \in Handles : Process[h] = proc /\ wrapper[h].fd = x THEN None ELSE files[x]
    BY <1>0, <2>1, KernelForms
  <2>4. \A g \in Handles :
            IF Process[g] = proc THEN wrapper'[g].fd = None /\ ~wrapper'[g].owner /\ pc'[g] = "rest"
                                 ELSE wrapper'[g] = wrapper[g] /\ pc'[g] = pc[g] /\ arg'[g] = arg[g]
    BY <1>0, <2>1, CrashEffect, ConstructedForm, SMT
  <2>5. ASSUME NEW g \in Starters, Process[g] = proc
        PROVE  StageOK(g)' /\ Good(g)'
    BY <1>0, <2>1, <2>4, <2>5 DEF StageOK, Good, Uses, IsOpen
  <2>6. ASSUME NEW g \in Starters, Process[g] # proc
        PROVE  StageOK(g)' /\ Good(g)'
    <3>1. wrapper'[g] = wrapper[g] /\ pc'[g] = pc[g] /\ arg'[g] = arg[g] /\ stage'[g] = stage[g]
      BY <1>0, <2>1, <2>4, <2>6
    <3>2. IsOpen(g) => files'[wrapper[g].fd] = files[wrapper[g].fd]
      BY <1>0, <2>3, <2>6 DEF Holders, WrappersHold, IsOpen
    <3>. QED
      BY <1>0, <2>1, <2>3, <3>1, <3>2 DEF StageOK, Good, Uses, IsOpen, MapOf
  <2>. QED
    BY <1>1, <2>2, <2>5, <2>6
<1>18. CASE Disturb
  <2>1. PICK p \in Paths : RemovedOutside(p)
    BY <1>18 DEF Disturb
  <2>2. disturbed' /\ stage' = stage
    BY <1>18 DEF Disturb
  <2>3. pc' = pc /\ arg' = arg /\ \A g \in Handles : wrapper'[g].fd = wrapper[g].fd
    BY <1>0, <2>1, RemovedOutsideEffect DEF Loses, Is
  <2>4. \A g \in Starters : StageOK(g)' /\ Good(g)'
    BY <1>0, <2>2, <2>3 DEF StageOK, Good, IsOpen
  <2>. QED
    BY <1>0, <1>1, <2>2, <2>4
<1>19. CASE UNCHANGED startupVars
  <2>1. /\ wrapper' = wrapper /\ pc' = pc /\ arg' = arg /\ files' = files /\ pins' = pins
        /\ stage' = stage /\ disturbed' = disturbed
    BY <1>19, SMT DEF startupVars, handleVars
  <2>2. \A g \in Starters : StageOK(g)' /\ Good(g)'
    BY <1>0, <2>1 DEF StageOK, Good, Uses, IsOpen, MapOf
  <2>. QED
    BY <1>0, <1>1, <2>1, <2>2
<1>20. ASSUME NEW h \in Starters, open_or_create(h)
       PROVE  StartupInv'
    BY <1>6, <1>8, <1>9, <1>10, <1>12, <1>13, <1>14, <1>15, <1>16, <1>20 DEF open_or_create, SystemCalls
<1>. QED
    BY <1>17, <1>18, <1>19, <1>20 DEF StartupNext

\* All processes that are through open_or_create use the one map that is pinned, unless
\* somebody removes the pin (main.cpp:43-65), for any number of processes that look,
\* create, pin and die in any order.
THEOREM StartersShareOneMap == StartupSpec => []SameMap
<1>1. StartupInit => StartupInv
  <2> SUFFICES ASSUME StartupInit PROVE StartupInv
    OBVIOUS
  <2> USE ZenonT(30)
  <2>1. HandleInit /\ stage = [h \in Starters |-> "open"]
    BY DEF StartupInit
  <2>2. \A h \in Starters : h \in Handles /\ wrapper[h] = Constructed(h) /\ pc[h] = "rest" /\ stage[h] = "open"
    BY <2>1, StartupAssumption DEF HandleInit
  <2>3. \A h \in Starters : wrapper[h].fd = None /\ ~wrapper[h].owner
    BY <2>2, ConstructedForm
  <2>4. stage \in [Starters -> {"open", "opening", "create", "pin", "pinning", "ready", "failed"}]
    BY <2>1
  <2>. QED
    BY <2>2, <2>3, <2>4 DEF StartupInv, StageOK, Uses, IsOpen
<1>2. StartupInv => SameMap
    BY ZenonT(30) DEF StartupInv, SameMap, Uses
<1>. QED
    BY <1>1, <1>2, StartupHandles, StartupInvStep, PTL DEF StartupSpec
-----------------------------------------------------------------------------
\* How clear() returns.
Returned == {"rest", "kNoError", "kGetNextKeyError", "kDeleteError"}

\* What a clear() with which nobody interfered has read is still there.
ClearOK(u) ==
    /\ at[u] = "delete" /\ ~raced[u] => key[u] \subseteq entries
    /\ Idle(u) /\ at[u] # "rest" /\ ~raced[u] => at[u] = "kNoError" /\ entries = {}

\* The inductive invariant of the entries.
EntriesInv ==
    /\ IsFiniteSet(entries) /\ Cardinality(entries) <= MaxEntries
    /\ at \in [Users -> Returned \cup {"next", "delete"}]
    /\ DOMAIN key = Users /\ raced \in [Users -> BOOLEAN]
    /\ \A u \in Users : ClearOK(u)

\* Every step of the users preserves EntriesInv.
LEMMA EntriesInvStep == EntriesInv /\ [EntriesNext]_entryVars => EntriesInv'
<1> SUFFICES ASSUME EntriesInv PROVE [EntriesNext]_entryVars => EntriesInv'
    OBVIOUS
<1> DEFINE Places == Returned \cup {"next", "delete"}
<1> USE ZenonT(30)
<1>0. /\ IsFiniteSet(entries) /\ Cardinality(entries) <= MaxEntries
      /\ at \in [Users -> Places] /\ DOMAIN key = Users /\ raced \in [Users -> BOOLEAN]
      /\ \A u \in Users : ClearOK(u)
    BY DEF EntriesInv
<1>1. Cardinality(entries) \in Nat /\ MaxEntries \in Nat
    BY <1>0, FS_CardinalityType, EntriesAssumption
\* A step of u: the others notice nothing, or are marked.
<1>2. ASSUME NEW u \in Users, NEW to \in Places, at' = [at EXCEPT ![u] = to],
             DOMAIN key' = Users, raced' \in [Users -> BOOLEAN],
             IsFiniteSet(entries'), Cardinality(entries') <= MaxEntries, ClearOK(u)',
             \A v \in Users \ {u} : raced'[v] \/ (entries' = entries /\ key'[v] = key[v] /\ (raced'[v] <=> raced[v]))
      PROVE  EntriesInv'
  <2>1. at' \in [Users -> Places] /\ \A v \in Users \ {u} : at'[v] = at[v]
    BY <1>0, <1>2
  <2>2. ASSUME NEW v \in Users \ {u}
        PROVE  ClearOK(v)'
    BY <1>0, <1>2, <2>1 DEF ClearOK, Idle
  <2>. QED
    BY <1>2, <2>1, <2>2 DEF EntriesInv
<1>3. ASSUME NEW u \in Users, NEW S, Change(u, S)
      PROVE  /\ entries' = S /\ raced' \in [Users -> BOOLEAN] /\ (raced'[u] <=> raced[u])
             /\ \A v \in Users \ {u} : raced'[v]
    BY <1>0, <1>3 DEF Change
<1>4. ASSUME NEW S, S \subseteq entries
      PROVE  IsFiniteSet(S) /\ Cardinality(S) <= MaxEntries
    BY <1>0, <1>1, <1>4, FS_Subset, FS_CardinalityType, SMT
<1>5. ASSUME NEW u \in Users, NEW k \in Keys, Update(u, k)
      PROVE  EntriesInv'
  <2>1. IsFiniteSet(entries \cup {k}) /\ Cardinality(entries \cup {k}) <= MaxEntries
    <3> DEFINE n == Cardinality(entries)
    <3>1. IsFiniteSet(entries \cup {k}) /\ Cardinality(entries \cup {k}) = IF k \in entries THEN n ELSE n + 1
      BY <1>0, FS_AddElement
    <3>2. n \in Nat /\ n <= MaxEntries /\ (k \in entries \/ n < MaxEntries)
      BY <1>0, <1>1, <1>5 DEF Update
    <3> HIDE DEF n
    <3>. QED
      BY <1>1, <3>1, <3>2, SMT
  <2>2. at' = [at EXCEPT ![u] = "rest"] /\ key' = key /\ Change(u, entries \cup {k})
    BY <1>5 DEF Update
  <2>3. ClearOK(u)'
    BY <1>0, <2>2 DEF ClearOK, Idle
  <2>4. entries' = entries \cup {k} /\ raced' \in [Users -> BOOLEAN] /\ \A v \in Users \ {u} : raced'[v]
    BY <1>3, <2>2
  <2>. QED
    BY <1>0, <1>2, <2>1, <2>2, <2>3, <2>4 DEF Returned
<1>6. ASSUME NEW u \in Users, NEW k \in Keys, DeleteEntry(u, k)
      PROVE  EntriesInv'
  <2>1. IsFiniteSet(entries \ {k}) /\ Cardinality(entries \ {k}) <= MaxEntries
    BY <1>4
  <2>2. at' = [at EXCEPT ![u] = "rest"] /\ key' = key /\ Change(u, entries \ {k})
    BY <1>6 DEF DeleteEntry
  <2>3. ClearOK(u)'
    BY <1>0, <2>2 DEF ClearOK, Idle
  <2>4. entries' = entries \ {k} /\ raced' \in [Users -> BOOLEAN] /\ \A v \in Users \ {u} : raced'[v]
    BY <1>3, <2>2
  <2>. QED
    BY <1>0, <1>2, <2>1, <2>2, <2>3, <2>4 DEF Returned
<1>7. ASSUME NEW u \in Users, ClearStarts(u)
      PROVE  EntriesInv'
  <2>1. /\ at' = [at EXCEPT ![u] = "next"] /\ key' = key /\ entries' = entries
        /\ raced' \in [Users -> BOOLEAN] /\ \A v \in Users \ {u} : raced'[v] = raced[v]
    BY <1>0, <1>7 DEF ClearStarts
  <2>2. ClearOK(u)'
    BY <1>0, <2>1 DEF ClearOK, Idle
  <2>. QED
    BY <1>0, <1>2, <2>1, <2>2
<1>8. ASSUME NEW u \in Users, FirstKey(u)
      PROVE  EntriesInv'
  <2>1. entries' = entries /\ raced' = raced
    BY <1>8 DEF FirstKey
  <2>2. CASE entries = {} /\ at' = [at EXCEPT ![u] = "kNoError"] /\ key' = key
    <3>1. ClearOK(u)'
      BY <1>0, <2>1, <2>2 DEF ClearOK
    <3>. QED
      BY <1>0, <1>2, <2>1, <2>2, <3>1 DEF Returned
  <2>3. ASSUME NEW k \in entries, at' = [at EXCEPT ![u] = "delete"], key' = [key EXCEPT ![u] = {k}]
        PROVE  EntriesInv'
    <3>1. ClearOK(u)'
      BY <1>0, <2>1, <2>3 DEF ClearOK, Idle
    <3>. QED
      BY <1>0, <1>2, <2>1, <2>3, <3>1
  <2>. QED
    BY <1>8, <2>2, <2>3 DEF FirstKey
<1>9. ASSUME NEW u \in Users, DeleteFirst(u)
      PROVE  EntriesInv'
  <2>0. at[u] = "delete" /\ key' = [key EXCEPT ![u] = {}]
    BY <1>9 DEF DeleteFirst
  <2>1. CASE key[u] \subseteq entries
    <3>1. at' = [at EXCEPT ![u] = "next"] /\ Change(u, entries \ key[u])
      BY <1>9, <2>1 DEF DeleteFirst
    <3>2. ClearOK(u)'
      BY <1>0, <3>1 DEF ClearOK, Idle
    <3>3. IsFiniteSet(entries \ key[u]) /\ Cardinality(entries \ key[u]) <= MaxEntries
      BY <1>4
    <3>4. entries' = entries \ key[u] /\ raced' \in [Users -> BOOLEAN] /\ \A v \in Users \ {u} : raced'[v]
      BY <1>3, <3>1
    <3>. QED
      BY <1>0, <1>2, <2>0, <3>1, <3>2, <3>3, <3>4
  <2>2. CASE ~(key[u] \subseteq entries)
    <3>1. at' = [at EXCEPT ![u] = "kDeleteError"] /\ entries' = entries /\ raced' = raced
      BY <1>9, <2>2 DEF DeleteFirst
    <3>2. raced[u]
      BY <1>0, <2>0, <2>2 DEF ClearOK
    <3>3. ClearOK(u)'
      BY <3>1, <3>2 DEF ClearOK
    <3>. QED
      BY <1>0, <1>2, <2>0, <3>1, <3>3 DEF Returned
  <2>. QED
    BY <2>1, <2>2
<1>10. ASSUME NEW u \in Users, ClearFault(u)
       PROVE  EntriesInv'
  <2>1. PICK to \in Returned : at' = [at EXCEPT ![u] = to]
    BY <1>10 DEF ClearFault, Returned
  <2>2. entries' = entries /\ key' = [key EXCEPT ![u] = {}] /\ raced' = [raced EXCEPT ![u] = TRUE]
    BY <1>10 DEF ClearFault
  <2>3. raced' \in [Users -> BOOLEAN] /\ raced'[u] /\ \A v \in Users \ {u} : raced'[v] = raced[v]
    BY <1>0, <2>2
  <2>4. ClearOK(u)'
    BY <2>3 DEF ClearOK
  <2>. QED
    BY <1>0, <1>2, <2>1, <2>2, <2>3, <2>4
<1>11. CASE UNCHANGED entryVars
  <2>1. entries' = entries /\ at' = at /\ key' = key /\ raced' = raced
    BY <1>11 DEF entryVars
  <2>. QED
    BY <1>0, <2>1 DEF EntriesInv, ClearOK, Idle
<1>. QED
    BY <1>5, <1>6, <1>7, <1>8, <1>9, <1>10, <1>11 DEF EntriesNext

\* A clear() with which nobody interferes empties the map and returns kNoError, and the
\* map never holds more than max_entries_ (bpf_map_control.cpp:99-117), for any number
\* of users, keys and entries.
THEOREM UndisturbedClear == EntriesSpec => []ClearAlone
<1>1. EntriesInit => EntriesInv
  <2> SUFFICES ASSUME EntriesInit PROVE EntriesInv
    OBVIOUS
  <2>1. IsFiniteSet(entries) /\ Cardinality(entries) <= MaxEntries
    BY FS_EmptySet, EntriesAssumption DEF EntriesInit
  <2>. QED
    BY <2>1, ZenonT(30) DEF EntriesInit, EntriesInv, ClearOK, Idle, Returned
<1>2. EntriesInv => ClearAlone
    BY ZenonT(30) DEF EntriesInv, ClearOK, ClearAlone
<1>. QED
    BY <1>1, <1>2, EntriesInvStep, PTL DEF EntriesSpec
=============================================================================
