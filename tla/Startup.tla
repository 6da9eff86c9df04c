------------------------------ MODULE Startup ------------------------------
(***************************************************************************)
(* open_or_create (main.cpp) in processes that start together, die and are *)
(* started again: each has one wrapper and wants the map behind one path.  *)
(***************************************************************************)
EXTENDS MapHandle

CONSTANT Starters   \* one wrapper in each process

ASSUME StartupAssumption == Starters \subseteq Handles /\ Paths # {}

VARIABLES
    stage,      \* how far open_or_create of each wrapper is
    disturbed   \* history: rm took the pin away

startupVars == <<handleVars, stage, disturbed>>

StartupInit ==
    /\ HandleInit
    /\ stage = [h \in Starters |-> "open"]
    /\ disturbed = FALSE

ThePath == CHOOSE p \in Paths : TRUE

Stage(h, from, to) == stage[h] = from /\ stage' = [stage EXCEPT ![h] = to] /\ UNCHANGED disturbed

\* open(true, pin_path): absent, or the existence check fails.
TryPinned(h) == Stage(h, "open", "opening") /\ OpenPinned(h, ThePath)
NotPinned(h) == Stage(h, "open", "create") /\ UNCHANGED handleVars

\* Its result: any failure leads to a new map.
Opened(h) == Stage(h, "opening", IF IsOpen(h) THEN "ready" ELSE "create") /\ Resting(h) /\ UNCHANGED handleVars

Create(h) == Stage(h, "create", "pin") /\ OpenNew(h)
CreateFails(h) == Stage(h, "create", "failed") /\ UNCHANGED handleVars

TryPin(h) == Stage(h, "pin", "pinning") /\ Pin(h, ThePath)

\* pin() refuses: the path is there, or the existence check fails.
PinRefused(h) == Stage(h, "pin", "failed") /\ UNCHANGED handleVars

\* Mutant: the map is used whether or not it could be pinned.
MutantPinned(h) ==
    Stage(h, "pinning", "ready") /\ Resting(h) /\ UNCHANGED handleVars

Pinned(h) ==
    Stage(h, "pinning", IF wrapper[h].owner THEN "ready" ELSE "failed") /\ Resting(h) /\ UNCHANGED handleVars

open_or_create(h) ==
    \/ TryPinned(h) \/ NotPinned(h) \/ Opened(h)
    \/ Create(h) \/ CreateFails(h) \/ TryPin(h) \/ PinRefused(h) \/ Pinned(h)
    \/ SystemCalls(h) /\ UNCHANGED <<stage, disturbed>>

\* main returns after a failure, or the process dies; it is started again.
Restart(proc) ==
    /\ Crash(proc)
    /\ stage' = [h \in Starters |-> IF Process[h] = proc THEN "open" ELSE stage[h]]
    /\ UNCHANGED disturbed

Disturb ==
    /\ \E p \in Paths : RemovedOutside(p)
    /\ disturbed' = TRUE /\ UNCHANGED stage

StartupNext ==
    \/ \E h \in Starters : open_or_create(h)
    \/ \E h \in Starters : Restart(Process[h])
    \/ Disturb

StartupSpec == StartupInit /\ [][StartupNext]_startupVars
-----------------------------------------------------------------------------
\* Unless somebody removes the pin, all processes that got through
\* open_or_create, in whatever order they looked, created, pinned and died, use
\* the one map that is pinned (main.cpp:43-65).
SameMap ==
    ~disturbed => \A h \in Starters : stage[h] = "ready" => MapOf(h) = pins[ThePath]

\* A process that got through open_or_create can load its program with the map,
\* whether it created the map or found it: the map "only needs to be open and
\* expose a valid FD" (README.md:102; bpf_prog_loader.cpp:92-117).
ReadyMapsLoad ==
    \A h \in Starters : stage[h] = "ready" => LoadAccepts(h)
=============================================================================
