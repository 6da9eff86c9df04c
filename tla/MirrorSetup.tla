---------------------------- MODULE MirrorSetup ----------------------------
(***************************************************************************)
(* set_mirroring and set_monitoring_target of main.cpp, as main calls them *)
(* at every start of a process, on maps that are pinned and outlive it.    *)
(* set_mirroring reads a value, adds a destination and writes it back:     *)
(* two starts may overlap, and the interfaces may have other indexes at    *)
(* the next start.                                                         *)
(***************************************************************************)
EXTENDS TcMirroring, FiniteSets

CONSTANTS
    Starters,     \* processes that start at the same time
    MaxStarts,    \* starts of one process after the other
    MaxKeys       \* max_entries of the maps

ASSUME SetupAssumption ==
    MIRRORING_MAX_INSTANCES # 0 /\ Interfaces \subseteq Nat \ {0} /\ {1, 2} \subseteq Interfaces

VARIABLES
    ifindex_of,   \* the index of "eth0" and of "eth3" in the kernel, 0 for none
    starter,      \* per process: where main is, its list of interfaces, and the local value
    started,      \* starts so far
    added,        \* history: per index, set_mirroring calls that found both interfaces
    overlapped    \* history: two calls overlapped on an index, a map call failed, or others write the maps

setupVars == <<mapVars, ifindex_of, starter, started, added, overlapped>>

Nics == {"eth0", "eth3"}
Peer == [n \in Nics |-> IF n = "eth0" THEN "eth3" ELSE "eth0"]

\* The calls of main, in order.
Calls == <<"eth0", "eth3", "eth0", "eth3">>
Off == [at |-> 0, got |-> FALSE, list |-> [n \in Nics |-> 0], value |-> Absent]
Empty == MirrorValue([i \in 1..MIRRORING_MAX_INSTANCES |-> 0], 0)

SetupInit ==
    /\ mirror_map = [i \in Interfaces |-> Absent] /\ monitor_map = mirror_map
    /\ ifindex_of = [n \in Nics |-> IF n = "eth0" THEN 1 ELSE 2]
    /\ starter = [p \in Starters |-> Off] /\ started = 0
    /\ added = [i \in Interfaces |-> 0] /\ overlapped = FALSE

\* The list of the InterfaceLoader `in` is read once, when the process starts.
Start(p) ==
    /\ starter[p] = Off /\ started < MaxStarts
    /\ started' = started + 1
    /\ starter' = [starter EXCEPT ![p] = [Off EXCEPT !.at = 1, !.list = ifindex_of]]
    /\ UNCHANGED <<mapVars, ifindex_of, added, overlapped>>

Key(p) == starter[p].list[Calls[starter[p].at]]
Target(p) == starter[p].list[Peer[Calls[starter[p].at]]]
Mirroring(p) == starter[p].at \in {1, 2}

\* On to the next call of main; after the last one the process runs, and ends some time.
Continue(p) ==
    starter' = [starter EXCEPT ![p] =
        IF starter[p].at = 4 THEN Off ELSE [starter[p] EXCEPT !.at = @ + 1, !.got = FALSE, !.value = Absent]]

\* Overlapping: another process has read the value of the index and will write it.
Overlaps(p) == \E q \in Starters \ {p} : starter[q].got /\ Key(q) = Key(p)

\* Mutant: a value that is full is extended.
MutantFull(v) == v.dst_ifindex_count > MIRRORING_MAX_INSTANCES

Full(v) == v.dst_ifindex_count >= MIRRORING_MAX_INSTANCES

Extended(v, dst) ==
    MirrorValue([i \in DOMAIN v.dst_ifindexes \cup {v.dst_ifindex_count + 1} |->
                     IF i = v.dst_ifindex_count + 1 THEN dst ELSE v.dst_ifindexes[i]],
                v.dst_ifindex_count + 1)

\* set_mirroring: an interface is not found.
NotFound(p) ==
    /\ starter[p].at > 0 /\ ~starter[p].got
    /\ Key(p) = 0 \/ (Mirroring(p) /\ Target(p) = 0)
    /\ Continue(p)
    /\ UNCHANGED <<mapVars, ifindex_of, started, added, overlapped>>

\* The value looked up, or zeroes when there is none.
Lookup(p, found) ==
    /\ Mirroring(p) /\ ~starter[p].got /\ Key(p) # 0 /\ Target(p) # 0
    /\ added' = [added EXCEPT ![Key(p)] = @ + 1]
    /\ IF Full(found) THEN Continue(p)
       ELSE starter' = [starter EXCEPT ![p].got = TRUE, ![p].value = Extended(found, Target(p))]
    /\ UNCHANGED <<mapVars, ifindex_of, started>>

\* Mutant: every call starts from zeroes.
MutantLookupValue(p) ==
    /\ Lookup(p, Empty)
    /\ overlapped' = (overlapped \/ Overlaps(p))

LookupValue(p) ==
    /\ Lookup(p, IF mirror_map[Key(p)] = Absent THEN Empty ELSE mirror_map[Key(p)])
    /\ overlapped' = (overlapped \/ Overlaps(p))
LookupFails(p) ==
    /\ Lookup(p, Empty)
    /\ overlapped' = TRUE

\* A map takes MaxKeys keys.
Fits(map, key) == map[key] # Absent \/ Cardinality({i \in Interfaces : map[i] # Absent}) < MaxKeys

UpdateMirror(p) ==
    /\ starter[p].got /\ Fits(mirror_map, Key(p))
    /\ mirror_map' = [mirror_map EXCEPT ![Key(p)] = starter[p].value]
    /\ Continue(p)
    /\ UNCHANGED <<monitor_map, ifindex_of, started, added, overlapped>>

set_monitoring_target(p) ==
    /\ starter[p].at \in {3, 4} /\ Key(p) # 0 /\ Fits(monitor_map, Key(p))
    /\ monitor_map' = [monitor_map EXCEPT ![Key(p)] = <<1>>]
    /\ Continue(p)
    /\ UNCHANGED <<mirror_map, ifindex_of, started, added, overlapped>>

\* The map is full, or the kernel reports an error; main goes on.
UpdateFails(p) ==
    /\ starter[p].got \/ (starter[p].at \in {3, 4} /\ Key(p) # 0)
    /\ overlapped' = TRUE
    /\ Continue(p)
    /\ UNCHANGED <<mapVars, ifindex_of, started, added>>

\* A process ends anywhere.
Ended(p) ==
    /\ starter[p] # Off
    /\ starter' = [starter EXCEPT ![p] = Off]
    /\ overlapped' = (overlapped \/ starter[p].got)
    /\ UNCHANGED <<mapVars, ifindex_of, started, added>>

\* An interface goes, or comes back under another index.
Changes(n, i) ==
    /\ i \in (Interfaces \cup {0}) \ {ifindex_of[m] : m \in Nics}
    /\ i # 0 => ifindex_of[n] = 0 /\ \A m \in Nics : i > ifindex_of[m]
    /\ ifindex_of' = [ifindex_of EXCEPT ![n] = i]
    /\ UNCHANGED <<mapVars, starter, started, added, overlapped>>

Process(p) ==
    \/ Start(p) \/ NotFound(p) \/ LookupValue(p) \/ LookupFails(p) \/ UpdateMirror(p)
    \/ set_monitoring_target(p) \/ UpdateFails(p) \/ Ended(p)
SetupNext == (\E p \in Starters : Process(p)) \/ \E n \in Nics, i \in Interfaces \cup {0} : Changes(n, i)
SetupSpec == SetupInit /\ [][SetupNext]_setupVars
-----------------------------------------------------------------------------
\* Every value that set_mirroring has left in mirror_map is well formed: the count
\* fits the array, the slots below it hold an interface other than the source, and
\* those above are zero, after any number of starts, overlapping or not.
MirrorValueSound ==
    \A i \in Interfaces : LET v == mirror_map[i] IN
        v # Absent /\ added[i] > 0 =>
            /\ v.dst_ifindex_count \in 1..MIRRORING_MAX_INSTANCES
            /\ v.dst_ifindexes \in [1..MIRRORING_MAX_INSTANCES -> (Interfaces \cup {0}) \ {i}]
            /\ \A k \in 1..MIRRORING_MAX_INSTANCES : (v.dst_ifindexes[k] # 0) = (k <= v.dst_ifindex_count)

\* Starts that do not overlap lose no destination: a packet of the source is cloned
\* once for every set_mirroring that was made, in every process since the map was
\* created, until the array is full.  (So it is cloned twice to the same interface
\* after the second start: nothing looks for the destination in the array.)
EveryStartCounts ==
    \A i \in Interfaces :
        ~overlapped /\ (\A p \in Starters : ~starter[p].got) =>
            Len(Copies(mirror_map[i])) =
                IF added[i] > MIRRORING_MAX_INSTANCES THEN MIRRORING_MAX_INSTANCES ELSE added[i]
=============================================================================
