----------------------------- MODULE MapEntries -----------------------------
(***************************************************************************)
(* The entries of one hash map under the update, delete_entry and clear of *)
(* several users (BpfMapControl), each with a wrapper of its own.  Values  *)
(* play no part; lookup and get_next_key with a key change nothing.        *)
(***************************************************************************)
EXTENDS Naturals, FiniteSets

CONSTANTS Users, Keys,
          MaxEntries   \* max_entries_

ASSUME EntriesAssumption == MaxEntries \in Nat

VARIABLES
    entries,   \* the keys in the map
    at,        \* where the clear() of each user is; "rest" or how it returned
    key,       \* the set of the key it has read
    raced      \* history: somebody else, or the kernel, interfered with it

entryVars == <<entries, at, key, raced>>

Idle(u) == at[u] \notin {"next", "delete"}

EntriesInit ==
    /\ entries = {} /\ at = [u \in Users |-> "rest"]
    /\ key = [u \in Users |-> {}] /\ raced = [u \in Users |-> FALSE]

\* The map changes by the hand of u while the others clear it.
Change(u, keys) ==
    /\ entries' = keys
    /\ raced' = [v \in Users |-> raced[v] \/ v # u]

\* update fails on a full map, delete_entry on a key that is not there.
Update(u, k) ==
    /\ Idle(u) /\ (k \in entries \/ Cardinality(entries) < MaxEntries)
    /\ Change(u, entries \cup {k}) /\ at' = [at EXCEPT ![u] = "rest"]
    /\ UNCHANGED key

DeleteEntry(u, k) ==
    /\ Idle(u) /\ k \in entries
    /\ Change(u, entries \ {k}) /\ at' = [at EXCEPT ![u] = "rest"]
    /\ UNCHANGED key

ClearStarts(u) ==
    /\ Idle(u) /\ at' = [at EXCEPT ![u] = "next"]
    /\ raced' = [raced EXCEPT ![u] = FALSE]
    /\ UNCHANGED <<entries, key>>

\* get_next_key(nullptr): the first key of the hash order, or ENOENT.
FirstKey(u) ==
    /\ at[u] = "next"
    /\ \/ entries = {} /\ at' = [at EXCEPT ![u] = "kNoError"] /\ UNCHANGED key
       \/ \E k \in entries : at' = [at EXCEPT ![u] = "delete"] /\ key' = [key EXCEPT ![u] = {k}]
    /\ UNCHANGED <<entries, raced>>

\* Mutant: one key is deleted, and the rest of the map is not looked at.
MutantDeleteFirst(u) ==
    /\ at[u] = "delete"
    /\ IF key[u] \subseteq entries
       THEN Change(u, entries \ key[u]) /\ at' = [at EXCEPT ![u] = "kNoError"]
       ELSE at' = [at EXCEPT ![u] = "kDeleteError"] /\ UNCHANGED <<entries, raced>>
    /\ key' = [key EXCEPT ![u] = {}]

\* A key that somebody else has deleted meanwhile ends the clear() with an error.
DeleteFirst(u) ==
    /\ at[u] = "delete"
    /\ IF key[u] \subseteq entries
       THEN Change(u, entries \ key[u]) /\ at' = [at EXCEPT ![u] = "next"]
       ELSE at' = [at EXCEPT ![u] = "kDeleteError"] /\ UNCHANGED <<entries, raced>>
    /\ key' = [key EXCEPT ![u] = {}]

\* A system call of clear() fails.
ClearFault(u) ==
    /\ ~Idle(u)
    /\ at' = [at EXCEPT ![u] = IF at[u] = "next" THEN "kGetNextKeyError" ELSE "kDeleteError"]
    /\ key' = [key EXCEPT ![u] = {}] /\ raced' = [raced EXCEPT ![u] = TRUE]
    /\ UNCHANGED entries

EntriesNext ==
    \E u \in Users :
        \/ \E k \in Keys : Update(u, k) \/ DeleteEntry(u, k)
        \/ ClearStarts(u) \/ FirstKey(u) \/ DeleteFirst(u) \/ ClearFault(u)

EntriesSpec == EntriesInit /\ [][EntriesNext]_entryVars
-----------------------------------------------------------------------------
\* The map holds at most max_entries_ entries, and a clear() with which nobody
\* interferes returns kNoError and leaves the map empty: an error, or an entry
\* that is left, means that another user or the kernel got in between
\* (bpf_map_control.cpp:99-117).
ClearAlone ==
    /\ Cardinality(entries) <= MaxEntries
    /\ \A u \in Users : Idle(u) /\ at[u] # "rest" /\ ~raced[u] => at[u] = "kNoError" /\ entries = {}
=============================================================================
