--------------------------- MODULE InterfaceList ---------------------------
(***************************************************************************)
(* The loop of InterfaceLoader::reload_snapshot over the entries that      *)
(* getifaddrs returned, one entry a step.  The entries are of the past:    *)
(* the index of an interface is asked for entry by entry, and meanwhile    *)
(* interfaces may go, come back and be renamed.  An address is a model     *)
(* value; the MAC address is left out, but not the failure to read it.     *)
(***************************************************************************)
EXTENDS Naturals, Sequences

CONSTANTS
    Names,         \* of interfaces
    FirstIndexes,  \* the index of each when getifaddrs has returned
    LastIndex,     \* the highest index the kernel has given so far
    Addresses,     \* IPv4 addresses in text form
    MaxEntries,    \* of the getifaddrs list
    MaxRenames,    \* changes of an interface during the loop
    kNoAddress     \* "N/A"

\* Every interface has an index of its own; "N/A" is no address.
ASSUME ListAssumption ==
    /\ FirstIndexes \in [Names -> Nat \ {0}] /\ \A n, m \in Names : FirstIndexes[n] = FirstIndexes[m] => n = m
    /\ LastIndex \in Nat /\ \A n \in Names : FirstIndexes[n] <= LastIndex
    /\ kNoAddress \notin Addresses

VARIABLES
    entries,     \* what getifaddrs returned
    at,          \* the entry the loop is at
    processed,   \* the list being built
    published,   \* interfaces_
    ifindexes,   \* the index of each name in the kernel, 0 when there is none
    renames,     \* changes so far
    held,        \* history: the indexes each name has had
    unread       \* history: an entry was skipped because its interface could not be read

listVars == <<entries, at, processed, published>>
nameVars == <<ifindexes, renames, held>>
ifListVars == <<listVars, nameVars, unread>>

NoInfo == [ifindex |-> 0, ip_address |-> "absent"]

\* Loopback, no address and other families are all skipped; so is no IPv4
\* address that inet_ntop can write, nor one it cannot ("unwritable").
Entries == [name : Names, what : Addresses \cup {"packet", "unwritable"}] \cup [what : {"ignored"}]
Lists == UNION {[1..k -> Entries] : k \in 0..MaxEntries}

ListInit ==
    /\ entries \in Lists /\ at = 1
    /\ processed = [n \in Names |-> NoInfo] /\ published = processed
    /\ ifindexes = FirstIndexes
    /\ renames = 0 /\ held = [n \in Names |-> {ifindexes[n]}]
    /\ unread = FALSE
-----------------------------------------------------------------------------
Entry == entries[at]
Handling == at <= Len(entries)

\* Mutant: an address is taken whether it could be written or not.
MutantWritten(e) == e.what # "packet"

Written(e) == e.what \in Addresses

\* Mutant: the last address wins.
MutantFilled(info, e) == IF Written(e) THEN [info EXCEPT !.ip_address = e.what] ELSE info

\* Of several IPv4 addresses the first one that can be written stays.
Filled(info, e) ==
    IF Written(e) /\ info.ip_address = kNoAddress THEN [info EXCEPT !.ip_address = e.what] ELSE info

Merge(info) ==
    /\ processed' = [processed EXCEPT ![Entry.name] = Filled(info, Entry)]
    /\ at' = at + 1
    /\ UNCHANGED <<entries, published, nameVars, unread>>

Skip ==
    /\ Handling /\ Entry.what = "ignored"
    /\ at' = at + 1
    /\ UNCHANGED <<entries, processed, published, nameVars, unread>>

Known ==
    /\ Handling /\ Entry.what # "ignored" /\ processed[Entry.name] # NoInfo
    /\ Merge(processed[Entry.name])

\* The first entry of an interface, of whichever family, registers it.
Register ==
    /\ Handling /\ Entry.what # "ignored" /\ processed[Entry.name] = NoInfo
    /\ ifindexes[Entry.name] # 0
    /\ Merge([ifindex |-> ifindexes[Entry.name], ip_address |-> kNoAddress])

\* if_nametoindex or SIOCGIFHWADDR fails: the next entry of the name tries again.
Unread ==
    /\ Handling /\ Entry.what # "ignored" /\ processed[Entry.name] = NoInfo
    /\ at' = at + 1 /\ unread' = TRUE
    /\ UNCHANGED <<entries, processed, published, nameVars>>

PublishList ==
    /\ at = Len(entries) + 1
    /\ published' = processed /\ at' = at + 1
    /\ UNCHANGED <<entries, processed, nameVars, unread>>

\* The kernel changes the interfaces: n goes, or takes the index of m, or a new one.
Rename(n, m) ==
    /\ Handling /\ renames < MaxRenames /\ renames' = renames + 1
    /\ \/ m = n /\ ifindexes' = [ifindexes EXCEPT ![n] = IF @ = 0 THEN LastIndex + renames' ELSE 0]
       \/ ifindexes[n] = 0 /\ ifindexes[m] # 0
          /\ ifindexes' = [ifindexes EXCEPT ![n] = ifindexes[m], ![m] = 0]
    /\ held' = [held EXCEPT ![n] = @ \cup ({ifindexes'[n]} \ {0})]
    /\ UNCHANGED <<listVars, unread>>

ListNext == Skip \/ Known \/ Register \/ Unread \/ PublishList \/ \E n, m \in Names : Rename(n, m)
ListSpec == ListInit /\ [][ListNext]_ifListVars
-----------------------------------------------------------------------------
\* The lookups.  get_ifname_by_ifindex takes any name of the index.
get_ifinfo_by_ifname(n) == published[n]
get_ifindex_by_ifname(n) == published[n].ifindex
get_ifname_by_ifindex(i) == {n \in Names : published[n] # NoInfo /\ published[n].ifindex = i}

Published == at = Len(entries) + 2
Steady == renames = 0 /\ ~unread

\* Addresses of a name in the list, by position.
Positions(n) == {i \in 1..Len(entries) : entries[i].what # "ignored" /\ entries[i].name = n}
AddressedAt(n) == {i \in Positions(n) : entries[i].what \in Addresses}
First(S) == CHOOSE i \in S : \A j \in S : i <= j

\* An interface is in the list as soon as one entry of it is, and has the first
\* IPv4 address that could be written, in whatever order the families come: the
\* list does not depend on where the AF_PACKET entry stands.
Expected(n) ==
    IF Positions(n) = {} THEN NoInfo
    ELSE [ifindex |-> ifindexes[n],
          ip_address |-> IF AddressedAt(n) = {} THEN kNoAddress ELSE entries[First(AddressedAt(n))].what]

\* With the interfaces at rest reload_snapshot publishes exactly what getifaddrs
\* described, whatever the order of the entries of the families and interfaces.
ListMatches == Published /\ Steady => published = [n \in Names |-> Expected(n)]

\* Whatever changes meanwhile, the lookups return for an interface an index it has had
\* and an address of its own, and the index leads back to its name, and to no other
\* unless an interface was renamed while the list was read
\* (interface_loader.cpp:520-586, :612-662).
OwnData ==
    \A n \in Names : get_ifinfo_by_ifname(n) # NoInfo =>
        /\ get_ifindex_by_ifname(n) \in held[n]
        /\ get_ifinfo_by_ifname(n).ip_address \in {kNoAddress} \cup {entries[i].what : i \in AddressedAt(n)}
        /\ n \in get_ifname_by_ifindex(get_ifindex_by_ifname(n))
        /\ renames = 0 => get_ifname_by_ifindex(get_ifindex_by_ifname(n)) = {n}
=============================================================================
