----------------------------- MODULE Tc_proofs -----------------------------
(***************************************************************************)
(* What the manager is given and what it calls: the list of interfaces     *)
(* that reload_snapshot builds (ListInv) and the calls of TcFilter         *)
(* (TcInv).  Both invariants are inductive; the two models share no state. *)
(***************************************************************************)
EXTENDS TcFilter, InterfaceList, TLAPS

(***************************************************************************)
(* The list of interfaces, entry by entry.                                 *)
(***************************************************************************)


\* The loop stays within the list, and every list it builds has all the names.
ListTypes ==
    /\ Len(entries) \in Nat /\ at \in 1 .. Len(entries) + 2 /\ renames \in Nat
    /\ \A i \in 1 .. Len(entries) : entries[i].what # "ignored" => entries[i].name \in Names
    /\ processed = [n \in Names |-> processed[n]] /\ published = [n \in Names |-> published[n]]
    /\ held = [n \in Names |-> held[n]]
    /\ ifindexes \in [Names -> Nat]

\* As long as no interface has changed, each one is there and no two share an index.
FirstIndexesHeld ==
    renames = 0 => \A n, m \in Names : ifindexes[n] # 0 /\ (ifindexes[n] = ifindexes[m] => n = m)

\* The entries of an interface that the loop has behind it, and those with an
\* address that inet_ntop could write.
Seen(n) == {i \in Positions(n) : i < at}
SeenAddressed(n) == {i \in AddressedAt(n) : i < at}

\* Whatever changed meanwhile, what the loop has registered for an interface is an
\* index that it has had and an address of one of its own entries.
InfoOK(n, info) ==
    info # NoInfo =>
        /\ info.ifindex \in held[n] /\ (renames = 0 => info.ifindex = ifindexes[n])
        /\ info = [ifindex |-> info.ifindex, ip_address |-> info.ip_address]
        /\ info.ip_address = kNoAddress \/ \E i \in AddressedAt(n) : info.ip_address = entries[i].what

\* With the interfaces at rest it is exactly what the entries so far describe: the
\* interface is registered by its first entry, and the least of its entries with an
\* address gives the address.
Described(n, info) ==
    /\ Seen(n) = {} => info = NoInfo
    /\ Seen(n) # {} =>
        /\ info.ifindex = ifindexes[n] /\ info # NoInfo
        /\ info = [ifindex |-> ifindexes[n], ip_address |-> info.ip_address]
        /\ SeenAddressed(n) = {} => info.ip_address = kNoAddress
        /\ SeenAddressed(n) # {} =>
            \E i \in SeenAddressed(n) : info.ip_address = entries[i].what /\ \A j \in SeenAddressed(n) : i <= j

\* The inductive invariant of the loop.  Nothing is published before the end, so that
\* the list of an unfinished reload is never seen, and processed is what is published.
ListInv ==
    /\ ListTypes /\ FirstIndexesHeld
    /\ \A n \in Names : ifindexes[n] # 0 => ifindexes[n] \in held[n]
    /\ \A n \in Names : InfoOK(n, processed[n])
    /\ at <= Len(entries) + 1 => published = [n \in Names |-> NoInfo]
    /\ at = Len(entries) + 2 => published = processed
    /\ Steady => \A n \in Names : Described(n, processed[n])

\* The loop starts with an empty list, and every interface has an index of its own.
LEMMA ListInitially == ListInit => ListInv
<1> SUFFICES ASSUME ListInit PROVE ListInv
    OBVIOUS
<1>1. PICK k \in 0 .. MaxEntries : entries \in [1..k -> Entries]
    BY DEF ListInit, Lists
<1>2. Len(entries) = k /\ k \in Nat
    BY <1>1
<1>3. \A i \in 1 .. Len(entries) : entries[i].what # "ignored" => entries[i].name \in Names
  <2> SUFFICES ASSUME NEW i \in 1 .. k PROVE entries[i].what # "ignored" => entries[i].name \in Names
    BY <1>2
  <2>1. entries[i] \in Entries
    BY <1>1
  <2>. QED
    BY <2>1 DEF Entries
<1>4. ListTypes
    BY <1>2, <1>3, ListAssumption DEF ListInit, ListTypes
<1>5. FirstIndexesHeld /\ \A n \in Names : ifindexes[n] # 0 => ifindexes[n] \in held[n]
    BY ListAssumption DEF ListInit, FirstIndexesHeld
<1>6. \A n \in Names : processed[n] = NoInfo /\ Seen(n) = {}
    BY <1>2 DEF ListInit, Seen, Positions
<1>. QED
    BY <1>2, <1>4, <1>5, <1>6 DEF ListInv, ListInit, InfoOK, Described

\* An entry that is handled joins the entries of its own interface, and no others.
LEMMA OneMoreSeen ==
    ASSUME ListTypes, Handling, at' = at + 1, entries' = entries, NEW n
    PROVE  /\ ListTypes => at \in Nat
           /\ Positions(n)' = Positions(n) /\ AddressedAt(n)' = AddressedAt(n)
           /\ at \notin Seen(n) /\ SeenAddressed(n) \subseteq Seen(n) /\ Seen(n) \subseteq Nat /\ \A i \in Seen(n) : i < at
           /\ Entry.what # "ignored" /\ Entry.name = n =>
                /\ Seen(n)' = Seen(n) \cup {at}
                /\ Written(Entry) => SeenAddressed(n)' = SeenAddressed(n) \cup {at} /\ at \in AddressedAt(n)
                /\ ~Written(Entry) => SeenAddressed(n)' = SeenAddressed(n)
           /\ ~(Entry.what # "ignored" /\ Entry.name = n) => Seen(n)' = Seen(n) /\ SeenAddressed(n)' = SeenAddressed(n)
BY DEF ListTypes, Handling, Positions, AddressedAt, Seen, SeenAddressed, Entry, Written

\* Filled keeps the first address that could be written: an entry changes the address
\* only while none of the entries before it had one.
LEMMA FilledDescribes ==
    ASSUME ListTypes, Handling, at' = at + 1, entries' = entries, ifindexes' = ifindexes,
           NEW n \in Names, Entry.what # "ignored", Entry.name = n, NEW info, ifindexes[n] # 0,
           info = [ifindex |-> ifindexes[n], ip_address |-> info.ip_address],
           SeenAddressed(n) = {} => info.ip_address = kNoAddress,
           SeenAddressed(n) # {} =>
                \E i \in SeenAddressed(n) : info.ip_address = entries[i].what /\ \A j \in SeenAddressed(n) : i <= j,
           NEW v, v = Filled(info, Entry)
    PROVE  Described(n, v)'
<1>0. /\ Seen(n)' = Seen(n) \cup {at} /\ at \in Nat /\ \A i \in SeenAddressed(n) : i \in Nat /\ i < at
      /\ Written(Entry) => SeenAddressed(n)' = SeenAddressed(n) \cup {at}
      /\ ~Written(Entry) => SeenAddressed(n)' = SeenAddressed(n)
    BY OneMoreSeen
<1>1. v = [ifindex |-> ifindexes[n], ip_address |-> v.ip_address] /\ v # NoInfo /\ v.ifindex = ifindexes[n]
    BY DEF Filled, NoInfo
<1>2. CASE ~Written(Entry)
  <2>1. v = info
    BY <1>2 DEF Filled
  <2>. QED
    BY <1>0, <1>1, <1>2, <2>1 DEF Described
<1>3. CASE Written(Entry) /\ SeenAddressed(n) = {}
  <2>1. v.ip_address = Entry.what
    BY <1>3 DEF Filled
  <2>2. SeenAddressed(n)' = {at}
    BY <1>0, <1>3
  <2>. QED
    BY <1>0, <1>1, <2>1, <2>2 DEF Described, Entry
<1>4. CASE Written(Entry) /\ SeenAddressed(n) # {}
  <2>1. PICK i \in SeenAddressed(n) : info.ip_address = entries[i].what /\ \A j \in SeenAddressed(n) : i <= j
    BY <1>4
  <2>2. info.ip_address # kNoAddress
    BY <2>1, ListAssumption DEF SeenAddressed, AddressedAt
  <2>3. v = info
    BY <2>2 DEF Filled
  <2>4. \A j \in SeenAddressed(n)' : i <= j
    BY <1>0, <1>4, <2>1
  <2>. QED
    BY <1>0, <1>1, <1>4, <2>1, <2>3, <2>4 DEF Described
<1>. QED
    BY <1>2, <1>3, <1>4

\* An entry is merged into what is known of its interface, whether that was registered
\* just now (Register) or by an earlier entry (Known).
LEMMA MergeStep ==
    ASSUME ListInv, Handling, Entry.what # "ignored", NEW info, Merge(info),
           info.ifindex \in held[Entry.name], renames = 0 => info.ifindex = ifindexes[Entry.name],
           info = [ifindex |-> info.ifindex, ip_address |-> info.ip_address],
           info.ip_address = kNoAddress \/ \E i \in AddressedAt(Entry.name) : info.ip_address = entries[i].what,
           Steady => /\ SeenAddressed(Entry.name) = {} => info.ip_address = kNoAddress
                     /\ SeenAddressed(Entry.name) # {} =>
                            \E i \in SeenAddressed(Entry.name) :
                                info.ip_address = entries[i].what /\ \A j \in SeenAddressed(Entry.name) : i <= j
    PROVE  ListInv'
<1> SUFFICES ASSUME NEW e, e = Entry.name, NEW v, v = Filled(info, Entry)
             PROVE  ListInv'
    OBVIOUS
<1>1. /\ processed' = [processed EXCEPT ![e] = v] /\ at' = at + 1
      /\ entries' = entries /\ published' = published /\ ifindexes' = ifindexes
      /\ renames' = renames /\ held' = held /\ unread' = unread
    BY DEF Merge, nameVars
<1>2. e \in Names /\ at \in Nat /\ ListTypes
    BY DEF ListInv, ListTypes, Handling, Entry
<1>3. ListTypes'
  <2>1. processed' = [n \in Names |-> processed'[n]]
    BY <1>1, <1>2, Zenon DEF ListTypes
  <2>2. at' \in 1 .. Len(entries) + 2
    BY <1>1, <1>2 DEF ListTypes, Handling
  <2>. QED
    BY <1>1, <1>2, <2>1, <2>2, Zenon DEF ListTypes
<1>4. /\ v.ifindex = info.ifindex /\ v = [ifindex |-> v.ifindex, ip_address |-> v.ip_address]
      /\ v.ip_address = kNoAddress \/ \E i \in AddressedAt(e) : v.ip_address = entries[i].what
  <2>1. Written(Entry) => at \in AddressedAt(e)
    BY <1>1, <1>2, OneMoreSeen
  <2>. QED
    BY <2>1 DEF Filled, Entry
<1>5. processed'[e] = v /\ \A n \in Names \ {e} : processed'[n] = processed[n]
    BY <1>1, <1>2 DEF ListTypes
<1>6. \A n \in Names : AddressedAt(n)' = AddressedAt(n)
    BY <1>1, <1>2, OneMoreSeen
<1>7. \A n \in Names : InfoOK(n, processed[n])'
  <2> SUFFICES ASSUME NEW n \in Names PROVE InfoOK(n, processed[n])'
    OBVIOUS
  <2>1. CASE n = e
    BY <1>1, <1>4, <1>5, <1>6, <2>1 DEF InfoOK
  <2>2. CASE n # e
    <3>1. InfoOK(n, processed[n]) /\ processed'[n] = processed[n] /\ AddressedAt(n)' = AddressedAt(n)
      BY <1>5, <1>6, <2>2 DEF ListInv
    <3>. QED
      BY <1>1, <3>1, Zenon DEF InfoOK
  <2>. QED
    BY <2>1, <2>2
<1>8. Steady' => \A n \in Names : Described(n, processed[n])'
  <2> SUFFICES ASSUME Steady', NEW n \in Names PROVE Described(n, processed[n])'
    OBVIOUS
  <2>0. Steady /\ renames = 0
    BY <1>1 DEF Steady
  <2>1. CASE n = e
    <3>1. ifindexes[e] # 0 /\ info = [ifindex |-> ifindexes[e], ip_address |-> info.ip_address]
      BY <1>2, <2>0 DEF ListInv, FirstIndexesHeld
    <3>2. Described(e, v)'
      BY <1>1, <1>2, <2>0, <3>1, FilledDescribes 
    <3>. QED
      BY <1>5, <2>1, <3>2
  <2>2. CASE n # e
    <3>1. Seen(n)' = Seen(n) /\ SeenAddressed(n)' = SeenAddressed(n)
      BY <1>1, <1>2, <2>2, OneMoreSeen
    <3>2. Described(n, processed[n])
      BY <2>0 DEF ListInv
    <3>3. Described(n, processed[n]) /\ processed'[n] = processed[n]
      BY <1>5, <2>2, <3>2
    <3>. QED
      BY <1>1, <3>1, <3>3, Zenon DEF Described
  <2>. QED
    BY <2>1, <2>2
<1>9. at' <= Len(entries') + 1 => published' = [n \in Names |-> NoInfo]
    BY <1>1, <1>2 DEF ListInv, Handling, ListTypes
<1>10. at' # Len(entries') + 2
    BY <1>1, <1>2 DEF Handling, ListTypes
<1>11. FirstIndexesHeld' /\ \A n \in Names : ifindexes'[n] # 0 => ifindexes'[n] \in held'[n]
    BY <1>1 DEF ListInv, FirstIndexesHeld
<1>. QED
    BY <1>3, <1>7, <1>8, <1>9, <1>10, <1>11, Zenon DEF ListInv

\* Every step of the loop, and every change of the interfaces, keeps ListInv.
LEMMA ListStep == ListInv => ([ListNext]_ifListVars => ListInv')
<1> SUFFICES ASSUME ListInv PROVE [ListNext]_ifListVars => ListInv'
    OBVIOUS
<1>0. ListTypes /\ at \in Nat /\ Len(entries) \in Nat
    BY DEF ListInv, ListTypes
<1>1. ASSUME Skip PROVE ListInv'
  <2>1. /\ at' = at + 1 /\ Handling /\ Entry.what = "ignored"
        /\ entries' = entries /\ processed' = processed /\ published' = published /\ ifindexes' = ifindexes
        /\ renames' = renames /\ held' = held /\ unread' = unread
    BY <1>1 DEF Skip, nameVars
  <2>2. \A n \in Names : AddressedAt(n)' = AddressedAt(n) /\ Seen(n)' = Seen(n) /\ SeenAddressed(n)' = SeenAddressed(n)
    BY <1>0, <2>1, OneMoreSeen
  <2>3. ListTypes' /\ at <= Len(entries) /\ at' # Len(entries') + 2
    BY <1>0, <2>1 DEF ListTypes, Handling
  <2>4. \A n \in Names : InfoOK(n, processed[n])'
    BY <2>1, <2>2, Zenon DEF InfoOK, ListInv
  <2>5. Steady' => \A n \in Names : Described(n, processed[n])'
    BY <2>1, <2>2, Zenon DEF Described, ListInv, Steady
  <2>6. published' = [n \in Names |-> NoInfo]
    BY <1>0, <2>1, <2>3 DEF ListInv
  <2>7. FirstIndexesHeld' /\ \A n \in Names : ifindexes'[n] # 0 => ifindexes'[n] \in held'[n]
    BY <2>1 DEF ListInv, FirstIndexesHeld
  <2>. QED
    BY <2>3, <2>4, <2>5, <2>6, <2>7, Zenon DEF ListInv
<1>2. ASSUME Known PROVE ListInv'
  <2> SUFFICES ASSUME NEW e, e = Entry.name, NEW info, info = processed[e] PROVE ListInv'
    OBVIOUS
  <2>1. Handling /\ Entry.what # "ignored" /\ info # NoInfo /\ Merge(info)
    BY <1>2 DEF Known
  <2>2. e \in Names /\ at \in Seen(e)' /\ at' = at + 1
    BY <1>0, <2>1 DEF ListTypes, Handling, Entry, Seen, Positions, Merge
  <2>3. InfoOK(e, info)
    BY <2>2 DEF ListInv
  <2>4. Steady => Described(e, info)
    BY <2>2 DEF ListInv
  <2>. QED
    BY <2>1, <2>2, <2>3, <2>4, MergeStep DEF InfoOK, Described, Steady
<1>3. ASSUME Register PROVE ListInv'
  <2> SUFFICES ASSUME NEW e, e = Entry.name, NEW info, info = [ifindex |-> ifindexes[e], ip_address |-> kNoAddress]
               PROVE  ListInv'
    BY Zenon
  <2>1. Handling /\ Entry.what # "ignored" /\ processed[e] = NoInfo /\ ifindexes[e] # 0 /\ Merge(info)
    BY <1>3 DEF Register
  <2>2. e \in Names
    BY <1>0, <2>1 DEF ListTypes, Handling, Entry
  <2>3. Steady => Seen(e) = {}
    BY <2>1, <2>2, Zenon DEF ListInv, Described
  <2>4. Steady => SeenAddressed(e) = {}
    BY <2>3 DEF Seen, SeenAddressed, AddressedAt
  <2>5. ifindexes[e] \in held[e]
    BY <2>1, <2>2 DEF ListInv
  <2>6. /\ info = [ifindex |-> info.ifindex, ip_address |-> info.ip_address]
        /\ info.ifindex = ifindexes[e] /\ info.ip_address = kNoAddress
    OBVIOUS
  <2>. QED
    BY <2>1, <2>2, <2>4, <2>5, <2>6, MergeStep
<1>4. ASSUME Unread PROVE ListInv'
  <2>1. /\ at' = at + 1 /\ Handling /\ unread' = TRUE
        /\ entries' = entries /\ processed' = processed /\ published' = published /\ ifindexes' = ifindexes
        /\ renames' = renames /\ held' = held
    BY <1>4 DEF Unread, nameVars
  <2>2. \A n \in Names : AddressedAt(n)' = AddressedAt(n)
    BY <1>0, <2>1, OneMoreSeen
  <2>3. ListTypes' /\ at <= Len(entries) /\ at' # Len(entries') + 2
    BY <1>0, <2>1 DEF ListTypes, Handling
  <2>4. \A n \in Names : InfoOK(n, processed[n])'
    BY <2>1, <2>2, Zenon DEF InfoOK, ListInv
  <2>5. ~Steady'
    BY <2>1 DEF Steady
  <2>6. published' = [n \in Names |-> NoInfo]
    BY <1>0, <2>1, <2>3 DEF ListInv
  <2>7. FirstIndexesHeld' /\ \A n \in Names : ifindexes'[n] # 0 => ifindexes'[n] \in held'[n]
    BY <2>1 DEF ListInv, FirstIndexesHeld
  <2>. QED
    BY <2>3, <2>4, <2>5, <2>6, <2>7, Zenon DEF ListInv
<1>5. ASSUME PublishList PROVE ListInv'
  <2>1. /\ at = Len(entries) + 1 /\ at' = at + 1 /\ published' = processed
        /\ entries' = entries /\ processed' = processed /\ ifindexes' = ifindexes
        /\ renames' = renames /\ held' = held /\ unread' = unread
    BY <1>5 DEF PublishList, nameVars
  <2>2. \A n \in Names : AddressedAt(n)' = AddressedAt(n) /\ Seen(n)' = Seen(n) /\ SeenAddressed(n)' = SeenAddressed(n)
    BY <1>0, <2>1 DEF AddressedAt, Seen, SeenAddressed, Positions
  <2>3. ListTypes' /\ ~(at' <= Len(entries') + 1)
    BY <1>0, <2>1 DEF ListTypes
  <2>4. \A n \in Names : InfoOK(n, processed[n])'
    BY <2>1, <2>2, Zenon DEF InfoOK, ListInv
  <2>5. Steady' => \A n \in Names : Described(n, processed[n])'
    BY <2>1, <2>2, Zenon DEF Described, ListInv, Steady
  <2>7. FirstIndexesHeld' /\ \A n \in Names : ifindexes'[n] # 0 => ifindexes'[n] \in held'[n]
    BY <2>1 DEF ListInv, FirstIndexesHeld
  <2>. QED
    BY <2>1, <2>3, <2>4, <2>5, <2>7, Zenon DEF ListInv
<1>6. ASSUME NEW x \in Names, NEW m \in Names, Rename(x, m) PROVE ListInv'
  <2>1. /\ Handling /\ renames' = renames + 1 /\ held' = [held EXCEPT ![x] = @ \cup ({ifindexes'[x]} \ {0})]
        /\ entries' = entries /\ at' = at /\ processed' = processed /\ published' = published
    BY <1>6 DEF Rename, listVars
  <2>2. renames' \in Nat /\ renames' # 0
    BY <1>0, <2>1 DEF ListTypes
  <2>3. /\ ifindexes' \in [Names -> Nat]
        /\ \A n \in Names : n # x => ifindexes'[n] \in {0, ifindexes[n]}
    <3>0. LastIndex \in Nat
      BY ListAssumption, Zenon
    <3>a. \A a, b \in Nat : a + b \in Nat
      OBVIOUS
    <3>1. LastIndex + renames' \in Nat
      BY <2>2, <3>0, <3>a, Zenon
    <3>2. ifindexes \in [Names -> Nat]
      BY <1>0 DEF ListTypes
    <3>3. CASE ifindexes' = [ifindexes EXCEPT ![x] = IF @ = 0 THEN LastIndex + renames' ELSE 0]
      BY <3>1, <3>2, <3>3
    <3>4. CASE ifindexes' = [ifindexes EXCEPT ![x] = ifindexes[m], ![m] = 0]
      BY <3>2, <3>4
    <3>. QED
      BY <1>6, <3>3, <3>4 DEF Rename
  <2>4. held' = [n \in Names |-> held'[n]] /\ \A n \in Names : held[n] \subseteq held'[n] /\ (n # x => held'[n] = held[n])
    BY <1>0, <2>1, Zenon DEF ListTypes
  <2>5. ifindexes'[x] # 0 => ifindexes'[x] \in held'[x]
    BY <1>0, <2>1 DEF ListTypes
  <2>6. \A n \in Names : ifindexes'[n] # 0 => ifindexes'[n] \in held'[n]
    BY <2>3, <2>4, <2>5 DEF ListInv
  <2>7. ListTypes'
    BY <1>0, <2>1, <2>2, <2>3, <2>4 DEF ListTypes
  <2>8. \A n \in Names : AddressedAt(n)' = AddressedAt(n)
    BY <2>1 DEF AddressedAt, Positions
  <2>9. \A n \in Names : InfoOK(n, processed[n])'
    <3> SUFFICES ASSUME NEW n \in Names PROVE InfoOK(n, processed[n])'
      OBVIOUS
    <3>1. InfoOK(n, processed[n]) /\ held[n] \subseteq held'[n] /\ AddressedAt(n)' = AddressedAt(n)
      BY <2>4, <2>8 DEF ListInv
    <3>. QED
      BY <2>1, <2>2, <3>1, Zenon DEF InfoOK
  <2>10. ~Steady' /\ FirstIndexesHeld'
    BY <2>2 DEF Steady, FirstIndexesHeld
  <2>. QED
    BY <2>1, <2>6, <2>7, <2>9, <2>10, Zenon DEF ListInv
<1>7. ASSUME UNCHANGED ifListVars PROVE ListInv'
  <2>1. /\ entries' = entries /\ at' = at /\ processed' = processed /\ published' = published /\ ifindexes' = ifindexes
        /\ renames' = renames /\ held' = held /\ unread' = unread
    BY <1>7 DEF ifListVars, listVars, nameVars
  <2>2. \A n \in Names : AddressedAt(n)' = AddressedAt(n) /\ Seen(n)' = Seen(n) /\ SeenAddressed(n)' = SeenAddressed(n)
    BY <2>1 DEF Seen, SeenAddressed, AddressedAt, Positions
  <2>3. \A n \in Names : InfoOK(n, processed[n])'
    BY <2>1, <2>2, Zenon DEF ListInv, InfoOK
  <2>4. Steady' => \A n \in Names : Described(n, processed[n])'
    BY <2>1, <2>2, Zenon DEF ListInv, Described, Steady
  <2>. QED
    BY <2>1, <2>3, <2>4, Zenon DEF ListInv, ListTypes, FirstIndexesHeld
<1>. QED
    BY <1>1, <1>2, <1>3, <1>4, <1>5, <1>6, <1>7, Zenon DEF ListNext

\* So it holds throughout.
LEMMA ListInvariant == ListSpec => []ListInv
BY ListInitially, ListStep, PTL DEF ListSpec

\* get_ifinfo_by_ifname and its sisters (interface_loader.cpp:612-662) never mix two
\* interfaces up: for lists of any length and any number of changes while
\* reload_snapshot reads them, an interface has an index it has had and an address of
\* its own, and without renames the index leads back to it alone.
THEOREM LookupsGiveOwnData == ListSpec => []OwnData
<1>1. ASSUME ListInv PROVE OwnData
  <2> SUFFICES ASSUME NEW n \in Names, published[n] # NoInfo
      PROVE /\ published[n].ifindex \in held[n]
            /\ published[n].ip_address \in {kNoAddress} \cup {entries[i].what : i \in AddressedAt(n)}
            /\ renames = 0 => \A m \in Names : published[m] # NoInfo /\ published[m].ifindex = published[n].ifindex => m = n
    BY Zenon DEF OwnData, get_ifinfo_by_ifname, get_ifindex_by_ifname, get_ifname_by_ifindex
  <2>1. ~(at <= Len(entries) + 1)
    BY <1>1 DEF ListInv
  <2>2. published = processed
    BY <1>1, <2>1 DEF ListInv, ListTypes
  <2>3. \A m \in Names : InfoOK(m, published[m])
    BY <1>1, <2>2 DEF ListInv
  <2>4. /\ published[n].ifindex \in held[n]
        /\ published[n].ip_address \in {kNoAddress} \cup {entries[i].what : i \in AddressedAt(n)}
    BY <2>3, Zenon DEF InfoOK
  <2>5. renames = 0 => \A m \in Names : published[m] # NoInfo => published[m].ifindex = ifindexes[m]
    BY <2>3, Zenon DEF InfoOK
  <2>. QED
    BY <1>1, <2>4, <2>5, Zenon DEF ListInv, FirstIndexesHeld
<1>. QED
    BY <1>1, ListInvariant, PTL

\* With the interfaces at rest reload_snapshot (interface_loader.cpp:520-586) publishes
\* exactly what getifaddrs described, for lists of any length in any order: the order
\* of the families and of the interfaces in the list does not matter.
THEOREM ListIsExact == ListSpec => []ListMatches
<1>1. ASSUME ListInv PROVE ListMatches
  <2> SUFFICES ASSUME Published, Steady PROVE published = [n \in Names |-> Expected(n)]
    BY DEF ListMatches
  <2>1. published = processed /\ DOMAIN published = Names
    BY <1>1 DEF ListInv, Published, ListTypes
  <2>2. ASSUME NEW n \in Names PROVE published[n] = Expected(n)
    <3>1. Seen(n) = Positions(n) /\ SeenAddressed(n) = AddressedAt(n)
      BY <1>1 DEF ListInv, ListTypes, Published, Seen, SeenAddressed, Positions, AddressedAt
    <3>2. Described(n, published[n])
      BY <1>1, <2>1 DEF ListInv
    <3>3. AddressedAt(n) # {} => published[n].ip_address = entries[First(AddressedAt(n))].what
      <4> SUFFICES ASSUME AddressedAt(n) # {} PROVE published[n].ip_address = entries[First(AddressedAt(n))].what
        OBVIOUS
      <4>1. AddressedAt(n) \subseteq Nat /\ AddressedAt(n) \subseteq Positions(n)
        BY <1>1 DEF AddressedAt, Positions, ListInv, ListTypes
      <4>2. PICK i \in AddressedAt(n) : published[n].ip_address = entries[i].what /\ \A j \in AddressedAt(n) : i <= j
        BY <3>1, <3>2, <4>1 DEF Described
      <4>3. First(AddressedAt(n)) \in AddressedAt(n) /\ \A j \in AddressedAt(n) : First(AddressedAt(n)) <= j
        BY <4>2, Zenon DEF First
      <4>4. First(AddressedAt(n)) = i
        BY <4>1, <4>2, <4>3
      <4>. QED
        BY <4>2, <4>4
    <3>4. AddressedAt(n) \subseteq Positions(n)
      BY DEF AddressedAt
    <3>. QED
      BY <3>1, <3>2, <3>3, <3>4 DEF Described, Expected
  <2>3. published = [n \in Names |-> published[n]]
    BY <1>1 DEF ListInv, ListTypes
  <2>. QED
    BY <2>1, <2>2, <2>3
<1>. QED
    BY <1>1, ListInvariant, PTL

(***************************************************************************)
(* The calls of TcFilter, however often the interface is recreated: a call *)
(* that nothing disturbs knows the kernel's index and slot at every step,  *)
(* and a call that is disturbed has that recorded against it.              *)
(***************************************************************************)

USE IndexAssumption

\* The kernel's answer to a query tells what is in the slot of the interface.
LEMMA AnswerTells ==
    ASSUME KindsOK, NEW i
    PROVE  /\ Answer(i) \in Answers
           /\ Answer(i) = "kOurProgram" => i = ifindex /\ slot = "ours"
           /\ Answer(i) = "kNotFound" => i = ifindex /\ slot = "none"
           /\ Answer(i) = "kNoHook" => i = ifindex /\ slot = "no clsact"
           /\ Answer(i) = "kOtherProgram" => i = ifindex /\ slot = "other"
           /\ Answer(i) = "kError" => i # ifindex
BY Zenon DEF Answer, Answers, KindsOK, Slots

\* What a call returns is TRUE or FALSE.
LEMMA ResultStep ==
    ASSUME result \in BOOLEAN, [TcNext]_tcVars
    PROVE  result' \in BOOLEAN
BY Zenon DEF TcNext, Worker, Others, tcVars, callVars, attach_filter, detach_filter, Begin, NoInterface, HookCreate, Makes,
       QueryIndex, QueryFilter, QueryErrs, Query, GoOn, Return, DetachIndex, IndexFails, Attach, Detach, Refused,
       CallFails, OtherAttaches, OtherDetaches, ClsactRemoved, Removed, Created, Meddle, ReadList, Publish

\* A call that returns gives its indexes up.
LEMMA ReturnIndexes ==
    ASSUME IndexesOK, UNCHANGED ifindex, NEW value, Return(value)
    PROVE  IndexesOK'
<1>1. syscall' = "idle" /\ hook' = 0 /\ asked' = 0 /\ UNCHANGED <<ifindex, created, read, snapshot>>
    BY DEF Return, snapshotVars
<1>. QED
    BY <1>1 DEF IndexesOK

\* So does a query; the hook of an attach that goes on is the one it had.
LEMMA QueryIndexes ==
    ASSUME IndexesOK, NEW answer, NEW past, Query(answer, past)
    PROVE  IndexesOK'
<1>1. UNCHANGED ifindex /\ syscall = "asking"
    BY DEF Query
<1>2. CASE \E value \in BOOLEAN : Return(value)
    BY <1>1, <1>2, ReturnIndexes
<1>3. CASE GoOn(answer, past)
    <2>1. syscall' = (IF op = "attach" THEN "attach" ELSE "reread") /\ asked' = 0
        BY <1>3 DEF GoOn, Makes
    <2>2. UNCHANGED <<created, ifindex, read, snapshot, hook, op>>
        BY <1>1, <1>3 DEF GoOn, Makes, snapshotVars
    <2>. QED
        BY <1>1, <2>1, <2>2 DEF IndexesOK
<1>. QED
    BY <1>2, <1>3, Zenon DEF Query

\* Every index in use was given to the interface once.
LEMMA IndexStep ==
    ASSUME IndexesOK, [TcNext]_tcVars
    PROVE  IndexesOK'
<1> USE DEF IndexesOK, Present, kernelVars, snapshotVars, callVars
<1>1. CASE attach_filter
    BY <1>1 DEF attach_filter, Begin
<1>2. CASE detach_filter
    BY <1>2 DEF detach_filter, Begin
<1>3. CASE NoInterface
    BY <1>3 DEF NoInterface
<1>4. CASE HookCreate
    BY <1>4, Zenon DEF HookCreate, Makes
<1>5. CASE QueryIndex
    BY <1>5 DEF QueryIndex, Makes
<1>6. CASE QueryFilter
    BY <1>6, QueryIndexes DEF QueryFilter
<1>7. CASE QueryErrs
    BY <1>7, QueryIndexes DEF QueryErrs
<1>8. CASE DetachIndex
    BY <1>8 DEF DetachIndex, Makes
<1>9. CASE IndexFails
    BY <1>9, ReturnIndexes, Zenon DEF IndexFails
<1>10. CASE Attach
    BY <1>10, ReturnIndexes, Zenon DEF Attach
<1>11. CASE Detach
    BY <1>11, ReturnIndexes, Zenon DEF Detach
<1>12. CASE Refused
    BY <1>12, ReturnIndexes, Zenon DEF Refused
<1>13. CASE CallFails
    BY <1>13, ReturnIndexes, Zenon DEF CallFails
<1>14. CASE OtherAttaches
    BY <1>14 DEF OtherAttaches, Meddle
<1>15. CASE OtherDetaches
    BY <1>15 DEF OtherDetaches, Meddle
<1>16. CASE ClsactRemoved
    BY <1>16, Zenon DEF ClsactRemoved, Meddle
<1>17. CASE Removed
    <2>1. ifindex' = 0 /\ UNCHANGED <<created, read, snapshot, hook, asked, syscall, op>>
        BY <1>17, Zenon DEF Removed, Meddle
    <2>. QED
        BY <2>1
<1>18. CASE Created
    <2>1. /\ created < MaxIndex /\ created' = created + 1 /\ ifindex' = created + 1
          /\ UNCHANGED <<read, snapshot, hook, asked, syscall, op>>
        BY <1>18, Zenon DEF Created, Meddle
    <2>. QED
        BY <2>1
<1>19. CASE ReadList
    BY <1>19 DEF ReadList
<1>20. CASE Publish
    BY <1>20 DEF Publish
<1>21. CASE UNCHANGED tcVars
    BY <1>21 DEF tcVars
<1>. QED
    BY <1>1, <1>2, <1>3, <1>4, <1>5, <1>6, <1>7, <1>8, <1>9, <1>10, <1>11, <1>12, <1>13, <1>14,
       <1>15, <1>16, <1>17, <1>18, <1>19, <1>20, <1>21
       DEF TcNext, Worker, Others

\* The kinds are preserved.
LEMMA KindStep ==
    ASSUME KindsOK, [TcNext]_tcVars
    PROVE  KindsOK'
<1> USE DEF KindsOK, Answers, Slots, kernelVars, snapshotVars, callVars
<1>1. CASE attach_filter
    BY <1>1, Zenon DEF attach_filter, Begin
<1>2. CASE detach_filter
    BY <1>2, Zenon DEF detach_filter, Begin
<1>3. CASE NoInterface
    BY <1>3, Zenon DEF NoInterface
<1>4. CASE HookCreate
    BY <1>4, Zenon DEF HookCreate, Makes
<1>5. CASE QueryIndex
    BY <1>5, Zenon DEF QueryIndex, Makes
<1>6. CASE QueryFilter
    <2>1. Answer(asked) \in Answers
        BY AnswerTells, Zenon
    <2>. QED
        BY <1>6, <2>1, Zenon DEF QueryFilter, Query, GoOn, Makes, Return
<1>7. CASE QueryErrs
    BY <1>7, Zenon DEF QueryErrs, Query, GoOn, Makes, Return
<1>8. CASE DetachIndex
    BY <1>8, Zenon DEF DetachIndex, Makes
<1>9. CASE IndexFails
    BY <1>9, Zenon DEF IndexFails, Return
<1>10. CASE Attach
    BY <1>10, Zenon DEF Attach, Return
<1>11. CASE Detach
    BY <1>11, Zenon DEF Detach, Return
<1>12. CASE Refused
    BY <1>12, Zenon DEF Refused, Return
<1>13. CASE CallFails
    BY <1>13, Zenon DEF CallFails, Return
<1>14. CASE OtherAttaches
    BY <1>14, Zenon DEF OtherAttaches, Meddle
<1>15. CASE OtherDetaches
    BY <1>15, Zenon DEF OtherDetaches, Meddle
<1>16. CASE ClsactRemoved
    BY <1>16, Zenon DEF ClsactRemoved, Meddle
<1>17. CASE Removed
    BY <1>17, Zenon DEF Removed, Meddle
<1>18. CASE Created
    BY <1>18, Zenon DEF Created, Meddle
<1>19. CASE ReadList
    BY <1>19, Zenon DEF ReadList
<1>20. CASE Publish
    BY <1>20, Zenon DEF Publish
<1>21. CASE UNCHANGED tcVars
    BY <1>21, Zenon DEF tcVars
<1>. QED
    BY Zenon, <1>1, <1>2, <1>3, <1>4, <1>5, <1>6, <1>7, <1>8, <1>9, <1>10, <1>11, <1>12, <1>13, <1>14,
       <1>15, <1>16, <1>17, <1>18, <1>19, <1>20, <1>21
       DEF TcNext, Worker, Others

\* What a query leads to: an error, a call that is done, or a call that goes on
\* knowing what is in the slot.
LEMMA QueryOutcome ==
    ASSUME KindsOK, QueryFilter
    PROVE  /\ syscall = "asking" /\ UNCHANGED <<ifindex, slot, snapshot, op>>
           /\ \/ syscall' = "idle" /\ result' = FALSE /\ since' = since /\ asked # ifindex
              \/ syscall' = "idle" /\ result' = TRUE /\ since' = since /\ (op = "attach" <=> slot = "ours")
              \/ /\ since' = since \ {"seized"} /\ UNCHANGED hook
                 /\ \/ op = "attach" /\ syscall' = "attach" /\ slot # "ours" /\ (slot = "other" => state' = "kOtherProgram")
                    \/ op = "detach" /\ syscall' = "reread" /\ slot = "ours"
<1>1. syscall = "asking" /\ UNCHANGED <<ifindex, slot, snapshot, op>>
    BY DEF QueryFilter, Query, GoOn, Makes, Return, snapshotVars
<1>2. CASE Answer(asked) = "kError"
    BY <1>1, <1>2, AnswerTells, Zenon DEF QueryFilter, Query, Return
<1>3. CASE Answer(asked) # "kError" /\ Leave(Answer(asked))
    <2>1. op = "attach" <=> slot = "ours"
        BY <1>3, AnswerTells, Zenon DEF Leave, KindsOK, Answers, Slots
    <2>. QED
        BY <1>1, <1>3, <2>1 DEF QueryFilter, Query, Return
<1>4. CASE Answer(asked) # "kError" /\ ~Leave(Answer(asked))
    <2>1. GoOn(Answer(asked), since)
        BY <1>4, Zenon DEF QueryFilter, Query
    <2>2. (op = "attach" /\ slot # "ours") \/ (op = "detach" /\ slot = "ours")
        <3>1. Answer(asked) \in Answers \ {"kError"} /\ op \in {"attach", "detach"}
            BY <1>4, AnswerTells, Zenon DEF KindsOK
        <3>2. CASE op = "attach"
            <4>1. Answer(asked) \in {"kNotFound", "kNoHook", "kOtherProgram"}
                BY <1>4, <3>1, <3>2 DEF Leave, Answers
            <4>2. slot \in {"none", "no clsact", "other"}
                BY <4>1, AnswerTells, Zenon
            <4>. QED
                BY <3>2, <4>2, Zenon
        <3>3. CASE op = "detach"
            BY <1>4, <3>1, <3>3, AnswerTells, Zenon DEF Leave, Answers
        <3>. QED
            BY <3>1, <3>2, <3>3
    <2>3. slot = "other" => Answer(asked) = "kOtherProgram"
        BY <1>4, AnswerTells DEF Answers
    <2>. QED
        BY <1>1, <2>1, <2>2, <2>3 DEF GoOn, Makes
<1>. QED
    BY <1>2, <1>3, <1>4, Zenon

\* Each system call belongs to one of the two operations.
LEMMA PhaseStep ==
    ASSUME KindsOK, Phase, [TcNext]_tcVars
    PROVE  Phase'
<1> USE DEF Phase, kernelVars, snapshotVars, callVars
<1>1. CASE attach_filter
    BY <1>1 DEF attach_filter, Begin
<1>2. CASE detach_filter
    BY <1>2 DEF detach_filter, Begin
<1>3. CASE NoInterface
    BY <1>3 DEF NoInterface
<1>4. CASE HookCreate
    BY <1>4, Zenon DEF HookCreate, Makes
<1>5. CASE QueryIndex
    BY <1>5 DEF QueryIndex, Makes
<1>6. CASE QueryFilter
    BY <1>6, QueryOutcome, Zenon
<1>7. CASE QueryErrs
    BY <1>7 DEF QueryErrs, Query, Return
<1>8. CASE DetachIndex
    BY <1>8 DEF DetachIndex, Makes
<1>9. CASE IndexFails
    BY <1>9 DEF IndexFails, Return
<1>10. CASE Attach
    BY <1>10, Zenon DEF Attach, Return
<1>11. CASE Detach
    BY <1>11, Zenon DEF Detach, Return
<1>12. CASE Refused
    BY <1>12, Zenon DEF Refused, Return
<1>13. CASE CallFails
    BY <1>13 DEF CallFails, Return
<1>14. CASE OtherAttaches
    BY <1>14 DEF OtherAttaches, Meddle
<1>15. CASE OtherDetaches
    BY <1>15 DEF OtherDetaches, Meddle
<1>16. CASE ClsactRemoved
    BY <1>16, Zenon DEF ClsactRemoved, Meddle
<1>17. CASE Removed
    BY <1>17, Zenon DEF Removed, Meddle
<1>18. CASE Created
    BY <1>18, Zenon DEF Created, Meddle
<1>19. CASE ReadList
    BY <1>19 DEF ReadList
<1>20. CASE Publish
    BY <1>20 DEF Publish
<1>21. CASE UNCHANGED tcVars
    BY <1>21 DEF tcVars
<1>. QED
    BY <1>1, <1>2, <1>3, <1>4, <1>5, <1>6, <1>7, <1>8, <1>9, <1>10, <1>11, <1>12, <1>13, <1>14,
       <1>15, <1>16, <1>17, <1>18, <1>19, <1>20, <1>21
       DEF TcNext, Worker, Others

\* The interface bpf_tc_hook_create finds is there.
LEMMA HookedIsPresent ==
    ASSUME IndexesOK, HookCreate
    PROVE  Present
<1>1. hook > 0 /\ hook \in 0..created /\ created \in 1..MaxIndex
    BY Zenon DEF IndexesOK, HookCreate
<1>2. hook # 0
    BY <1>1
<1>. QED
    BY <1>2, Zenon DEF HookCreate, Present

\* An interface that is gone has no slot.
LEMMA PresenceStep ==
    ASSUME IndexesOK, Present \/ slot = "no clsact", [TcNext]_tcVars
    PROVE  (Present \/ slot = "no clsact")'
<1> USE DEF Present, kernelVars, snapshotVars, callVars
<1>1. CASE attach_filter
    BY <1>1, Zenon DEF attach_filter, Begin
<1>2. CASE detach_filter
    BY <1>2, Zenon DEF detach_filter, Begin
<1>3. CASE NoInterface
    BY <1>3, Zenon DEF NoInterface
<1>4. CASE HookCreate
    BY <1>4, HookedIsPresent, Zenon DEF HookCreate
<1>5. CASE QueryIndex
    BY <1>5, Zenon DEF QueryIndex, Makes
<1>6. CASE QueryFilter
    BY <1>6, Zenon DEF QueryFilter, Query, GoOn, Makes, Return, Leave
<1>7. CASE QueryErrs
    BY <1>7, Zenon DEF QueryErrs, Query, Return
<1>8. CASE DetachIndex
    BY <1>8, Zenon DEF DetachIndex, Makes
<1>9. CASE IndexFails
    BY <1>9, Zenon DEF IndexFails, Return
<1>10. CASE Attach
    BY <1>10, Zenon DEF Attach, Return
<1>11. CASE Detach
    BY <1>11, Zenon DEF Detach, Return
<1>12. CASE Refused
    BY <1>12, Zenon DEF Refused, Return
<1>13. CASE CallFails
    BY <1>13, Zenon DEF CallFails, Return
<1>14. CASE OtherAttaches
    BY <1>14, Zenon DEF OtherAttaches, Meddle
<1>15. CASE OtherDetaches
    BY <1>15, Zenon DEF OtherDetaches, Meddle
<1>16. CASE ClsactRemoved
    BY <1>16, Zenon DEF ClsactRemoved, Meddle
<1>17. CASE Removed
    BY <1>17, Zenon DEF Removed, Meddle
<1>18. CASE Created
    BY <1>18, Zenon DEF Created, Meddle
<1>19. CASE ReadList
    BY <1>19, Zenon DEF ReadList
<1>20. CASE Publish
    BY <1>20, Zenon DEF Publish
<1>21. CASE UNCHANGED tcVars
    BY <1>21, Zenon DEF tcVars
<1>. QED
    BY Zenon, <1>1, <1>2, <1>3, <1>4, <1>5, <1>6, <1>7, <1>8, <1>9, <1>10, <1>11, <1>12, <1>13, <1>14,
       <1>15, <1>16, <1>17, <1>18, <1>19, <1>20, <1>21
       DEF TcNext, Worker, Others

\* Only another's change takes the program that query_filter saw out of the slot.
LEMMA StillOursStep ==
    ASSUME TcTypeOK, StillOurs, [TcNext]_tcVars
    PROVE  StillOurs'
<1> USE DEF StillOurs, kernelVars, snapshotVars, callVars
<1>1. CASE attach_filter
    BY <1>1 DEF attach_filter, Begin
<1>2. CASE detach_filter
    BY <1>2 DEF detach_filter, Begin
<1>3. CASE NoInterface
    BY <1>3 DEF NoInterface
<1>4. CASE HookCreate
    BY <1>4, Zenon DEF HookCreate, Makes
<1>5. CASE QueryIndex
    BY <1>5 DEF QueryIndex, Makes
<1>6. CASE QueryFilter
    BY <1>6, QueryOutcome, Zenon DEF TcTypeOK, KindsOK
<1>7. CASE QueryErrs
    BY <1>7 DEF QueryErrs, Query, Return
<1>8. CASE DetachIndex
    BY <1>8 DEF DetachIndex, Makes
<1>9. CASE IndexFails
    BY <1>9 DEF IndexFails, Return
<1>10. CASE Attach
    BY <1>10, Zenon DEF Attach, Return
<1>11. CASE Detach
    BY <1>11 DEF Detach, Return
<1>12. CASE Refused
    BY <1>12, Zenon DEF Refused, Return
<1>13. CASE CallFails
    BY <1>13 DEF CallFails, Return
<1>14. CASE OtherAttaches
    BY <1>14 DEF OtherAttaches, Meddle
<1>15. CASE OtherDetaches
    BY <1>15 DEF OtherDetaches, Meddle
<1>16. CASE ClsactRemoved
    BY <1>16, Zenon DEF ClsactRemoved, Meddle
<1>17. CASE Removed
    BY <1>17, Zenon DEF Removed, Meddle
<1>18. CASE Created
    BY <1>18, Zenon DEF Created, Meddle
<1>19. CASE ReadList
    BY <1>19 DEF ReadList
<1>20. CASE Publish
    BY <1>20 DEF Publish
<1>21. CASE UNCHANGED tcVars
    BY <1>21 DEF tcVars
<1>. QED
    BY <1>1, <1>2, <1>3, <1>4, <1>5, <1>6, <1>7, <1>8, <1>9, <1>10, <1>11, <1>12, <1>13, <1>14,
       <1>15, <1>16, <1>17, <1>18, <1>19, <1>20, <1>21
       DEF TcNext, Worker, Others

\* An undisturbed call stays in agreement with the kernel.
LEMMA UndisturbedStep ==
    ASSUME TcTypeOK, Phase, Undisturbed, [TcNext]_tcVars
    PROVE  Undisturbed'
<1> USE DEF Undisturbed, Present, kernelVars, snapshotVars, callVars
<1>1. CASE attach_filter
    BY <1>1 DEF attach_filter, Begin
<1>2. CASE detach_filter
    BY <1>2 DEF detach_filter, Begin
<1>3. CASE NoInterface
    BY <1>3, Zenon DEF NoInterface
<1>4. CASE HookCreate
    BY <1>4, Zenon DEF HookCreate, Makes
<1>5. CASE QueryIndex
    BY <1>5, Zenon DEF QueryIndex, Makes
<1>6. CASE QueryFilter
    <2>1. since \ {"seized"} = {} => since = {}
        <3>1. "meddled" \in since => "meddled" \in since \ {"seized"}
            BY Zenon
        <3>2. "seized" \in since => "meddled" \in since
            BY Zenon DEF TcTypeOK, KindsOK
        <3>. QED
            BY <3>1, <3>2, Zenon
    <2>2. slot \in Slots
        BY Zenon DEF TcTypeOK, KindsOK
    <2>. QED
        BY <1>6, <2>1, <2>2, QueryOutcome, Zenon DEF TcTypeOK, Slots
<1>7. CASE QueryErrs
    BY <1>7, Zenon DEF QueryErrs, Query, Return
<1>8. CASE DetachIndex
    BY <1>8 DEF DetachIndex, Makes
<1>9. CASE IndexFails
    BY <1>9, Zenon DEF IndexFails, Return
<1>10. CASE Attach
    BY <1>10, Zenon DEF Attach, Return
<1>11. CASE Detach
    BY <1>11 DEF Detach, Return
<1>12. CASE Refused
    BY <1>12, Zenon DEF Refused, Return
<1>13. CASE CallFails
    BY <1>13, Zenon DEF CallFails, Return
<1>14. CASE OtherAttaches
    BY <1>14, Zenon DEF OtherAttaches, Meddle
<1>15. CASE OtherDetaches
    BY <1>15, Zenon DEF OtherDetaches, Meddle
<1>16. CASE ClsactRemoved
    BY <1>16, Zenon DEF ClsactRemoved, Meddle
<1>17. CASE Removed
    BY <1>17, Zenon DEF Removed, Meddle
<1>18. CASE Created
    BY <1>18, Zenon DEF Created, Meddle
<1>19. CASE ReadList
    BY <1>19, Zenon DEF ReadList
<1>20. CASE Publish
    BY <1>20, Zenon DEF Publish
<1>21. CASE UNCHANGED tcVars
    BY <1>21, Zenon DEF tcVars
<1>. QED
    BY Zenon, <1>1, <1>2, <1>3, <1>4, <1>5, <1>6, <1>7, <1>8, <1>9, <1>10, <1>11, <1>12, <1>13, <1>14,
       <1>15, <1>16, <1>17, <1>18, <1>19, <1>20, <1>21
       DEF TcNext, Worker, Others

\* An undisturbed call has no reason to fail.
LEMMA SettledStep ==
    ASSUME TcTypeOK, Phase, Undisturbed, SettledCallSucceeds, [TcNext]_tcVars
    PROVE  SettledCallSucceeds'
<1> USE DEF SettledCallSucceeds, Undisturbed, Present, kernelVars, snapshotVars, callVars
<1>1. CASE attach_filter
    BY <1>1 DEF attach_filter, Begin
<1>2. CASE detach_filter
    BY <1>2 DEF detach_filter, Begin
<1>3. CASE NoInterface
    BY <1>3 DEF NoInterface
<1>4. CASE HookCreate
    BY <1>4, Zenon DEF HookCreate, Makes
<1>5. CASE QueryIndex
    BY <1>5, Zenon DEF QueryIndex, Makes
<1>6. CASE QueryFilter
    BY <1>6, QueryOutcome, Zenon DEF TcTypeOK, KindsOK
<1>7. CASE QueryErrs
    BY <1>7, Zenon DEF QueryErrs, Query, Return
<1>8. CASE DetachIndex
    BY <1>8 DEF DetachIndex, Makes
<1>9. CASE IndexFails
    BY <1>9, Zenon DEF IndexFails, Return
<1>10. CASE Attach
    BY <1>10, Zenon DEF Attach, Return
<1>11. CASE Detach
    BY <1>11 DEF Detach, Return
<1>12. CASE Refused
    BY <1>12, Zenon DEF Refused, Return, Taken, Phase
<1>13. CASE CallFails
    BY <1>13, Zenon DEF CallFails, Return
<1>14. CASE OtherAttaches
    BY <1>14 DEF OtherAttaches, Meddle
<1>15. CASE OtherDetaches
    BY <1>15 DEF OtherDetaches, Meddle
<1>16. CASE ClsactRemoved
    BY <1>16, Zenon DEF ClsactRemoved, Meddle
<1>17. CASE Removed
    BY <1>17, Zenon DEF Removed, Meddle
<1>18. CASE Created
    BY <1>18, Zenon DEF Created, Meddle
<1>19. CASE ReadList
    BY <1>19 DEF ReadList
<1>20. CASE Publish
    BY <1>20 DEF Publish
<1>21. CASE UNCHANGED tcVars
    BY <1>21 DEF tcVars
<1>. QED
    BY Zenon, <1>1, <1>2, <1>3, <1>4, <1>5, <1>6, <1>7, <1>8, <1>9, <1>10, <1>11, <1>12, <1>13, <1>14,
       <1>15, <1>16, <1>17, <1>18, <1>19, <1>20, <1>21
       DEF TcNext, Worker, Others

\* A call returns true on what it did or saw.
LEMMA CallStep ==
    ASSUME TcTypeOK, Phase, CallAsWanted, [TcNext]_tcVars
    PROVE  CallAsWanted'
<1> USE DEF CallAsWanted, AsWanted, kernelVars, snapshotVars, callVars
<1>1. CASE attach_filter
    BY <1>1 DEF attach_filter, Begin
<1>2. CASE detach_filter
    BY <1>2 DEF detach_filter, Begin
<1>3. CASE NoInterface
    BY <1>3 DEF NoInterface
<1>4. CASE HookCreate
    BY <1>4, Zenon DEF HookCreate, Makes
<1>5. CASE QueryIndex
    BY <1>5 DEF QueryIndex, Makes
<1>6. CASE QueryFilter
    BY <1>6, QueryOutcome, Zenon DEF TcTypeOK, KindsOK
<1>7. CASE QueryErrs
    BY <1>7 DEF QueryErrs, Query, Return
<1>8. CASE DetachIndex
    BY <1>8 DEF DetachIndex, Makes
<1>9. CASE IndexFails
    BY <1>9 DEF IndexFails, Return
<1>10. CASE Attach
    BY <1>10, Zenon DEF Attach, Return, Phase
<1>11. CASE Detach
    BY <1>11, Zenon DEF Detach, Return, Phase
<1>12. CASE Refused
    BY <1>12, Zenon DEF Refused, Return
<1>13. CASE CallFails
    BY <1>13 DEF CallFails, Return
<1>14. CASE OtherAttaches
    BY <1>14 DEF OtherAttaches, Meddle
<1>15. CASE OtherDetaches
    BY <1>15 DEF OtherDetaches, Meddle
<1>16. CASE ClsactRemoved
    BY <1>16, Zenon DEF ClsactRemoved, Meddle
<1>17. CASE Removed
    BY <1>17, Zenon DEF Removed, Meddle
<1>18. CASE Created
    BY <1>18, Zenon DEF Created, Meddle
<1>19. CASE ReadList
    BY <1>19 DEF ReadList
<1>20. CASE Publish
    BY <1>20 DEF Publish
<1>21. CASE UNCHANGED tcVars
    BY <1>21 DEF tcVars
<1>. QED
    BY <1>1, <1>2, <1>3, <1>4, <1>5, <1>6, <1>7, <1>8, <1>9, <1>10, <1>11, <1>12, <1>13, <1>14,
       <1>15, <1>16, <1>17, <1>18, <1>19, <1>20, <1>21
       DEF TcNext, Worker, Others

\* The initial states.
LEMMA TcInitially == TcInit => TcInv
<1> SUFFICES ASSUME TcInit
             PROVE  TcInv
    OBVIOUS
<1>1. since # {} /\ syscall = "idle" /\ result = FALSE
    BY Zenon DEF TcInit
<1>2. IndexesOK /\ Present
    <2>1. created = 1 /\ ifindex = 1 /\ read = 1 /\ snapshot \in {0, 1} /\ hook = 0 /\ asked = 0 /\ op = "detach"
        BY Zenon DEF TcInit
    <2>. QED
        BY <1>1, <2>1 DEF IndexesOK, Present
<1>3. KindsOK /\ slot = "no clsact"
    BY Zenon DEF TcInit, KindsOK, Answers, Slots
<1>4. TcTypeOK
    BY <1>1, <1>2, <1>3, Zenon DEF TcTypeOK
<1>. QED
    BY <1>1, <1>4 DEF TcInv, Phase, Undisturbed, StillOurs, CallAsWanted, SettledCallSucceeds

\* Every step of the worker and of the others.
LEMMA TcStep == TcInv /\ [TcNext]_tcVars => TcInv'
<1> SUFFICES ASSUME TcInv, [TcNext]_tcVars
             PROVE  TcInv'
    OBVIOUS
<1> USE DEF TcInv
<1>1. TcTypeOK'
    BY IndexStep, KindStep, ResultStep, PresenceStep, Zenon DEF TcTypeOK
<1>2. Phase' /\ StillOurs' /\ Undisturbed'
    BY PhaseStep, StillOursStep, UndisturbedStep, Zenon DEF TcTypeOK
<1>3. SettledCallSucceeds' /\ CallAsWanted'
    BY SettledStep, CallStep
<1>. QED
    BY <1>1, <1>2, <1>3

\* However often the interface is recreated and the snapshot replaced, every system
\* call of query_filter, attach_filter and detach_filter is made for an index that
\* the interface was once given.
THEOREM TcTypesCorrect == TcSpec => []TcTypeOK
<1>1. TcInv => TcTypeOK
    BY DEF TcInv
<1>. QED
    BY <1>1, TcInitially, TcStep, PTL DEF TcSpec

\* True is returned only for a slot that is as the policy wants it, or that another
\* changed during the call.
THEOREM SuccessIsTrue == TcSpec => []CallAsWanted
<1>1. TcInv => CallAsWanted
    BY DEF TcInv
<1>. QED
    BY <1>1, TcInitially, TcStep, PTL DEF TcSpec

\* A call that nothing disturbs succeeds, whatever it finds in the slot.
THEOREM FailureHasReason == TcSpec => []SettledCallSucceeds
<1>1. TcInv => SettledCallSucceeds
    BY DEF TcInv
<1>. QED
    BY <1>1, TcInitially, TcStep, PTL DEF TcSpec

\* detach_filter takes another's program away only in the window after its query.
THEOREM DetachTakesOurs == TcSpec => DetachOnlyOurs
<1>1. TcInv /\ [TcNext]_tcVars => [Detach /\ slot = "other" => "seized" \in since]_tcVars
    BY Zenon DEF TcInv, StillOurs, Detach
<1>. QED
    BY <1>1, TcInitially, TcStep, PTL DEF TcSpec, DetachOnlyOurs
=============================================================================
