------------------------------- MODULE MCMaps -------------------------------
(***************************************************************************)
(* The map wrappers for model checking.  No operation touches both the     *)
(* pins and the entries of a map, and open_or_create uses the operations   *)
(* in one order only, so an initial state picks one part to explore and    *)
(* the others rest.                                                        *)
(***************************************************************************)
EXTENDS Startup, MapEntries

CONSTANTS h1, h2, h3, h4, h5, h6, h7, Name

VARIABLE part
mapVars == <<startupVars, entryVars, part>>

\* Two ring buffers in one process, plain maps of different sizes in two others and
\* two perf buffers of different sizes in a fourth; h1 and h4 ask for the same in two
\* processes that start together.
MCProcess == [h \in Handles |-> CASE h \in {h1, h2} -> 1 [] h = h3 -> 2 [] h \in {h4, h7} -> 3 [] h \in {h5, h6} -> 4]
MCRequest ==
    [h \in Handles |-> [type |-> IF h \in {h3, h7} THEN "map" ELSE IF h \in {h5, h6} THEN "perf" ELSE "ringbuf",
                        size |-> IF h \in {h6, h7} THEN 2 ELSE 1, name |-> Name]]

\* The kernel keeps 15 characters of a name.
MCKernelName == [n \in {"fits", "over_15_characters", "cut", None} |-> IF n = "over_15_characters" THEN "cut" ELSE n]

MapsInit == StartupInit /\ EntriesInit /\ part \in {"wrappers", "sizes", "perf", "programs", "startup", "entries"}

MapsNext ==
    /\ UNCHANGED part
    /\ \/ part = "wrappers" /\ WrapperNext({h1, h2, h3}) /\ UNCHANGED <<stage, disturbed, entryVars>>
       \/ part = "sizes" /\ WrapperNext({h3, h7}) /\ UNCHANGED <<stage, disturbed, entryVars>>
       \/ part = "perf" /\ WrapperNext({h5, h6}) /\ UNCHANGED <<stage, disturbed, entryVars>>
       \/ part = "programs" /\ HandleNext({h1}) /\ UNCHANGED <<stage, disturbed, entryVars>>
       \/ part = "startup" /\ StartupNext /\ UNCHANGED entryVars
       \/ part = "entries" /\ EntriesNext /\ UNCHANGED startupVars

MapsSpec == MapsInit /\ [][MapsNext]_mapVars
=============================================================================
