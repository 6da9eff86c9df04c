---------------------------- MODULE TcMirroring ----------------------------
(***************************************************************************)
(* The TC program tc_mirroring.c on one packet after the other, and the    *)
(* two maps that main.cpp fills for it.  A packet is its length, the       *)
(* EtherTypes met while VLAN tags are skipped, and the version and header  *)
(* length of what follows them.                                            *)
(***************************************************************************)
EXTENDS Naturals, Sequences

CONSTANTS
    Interfaces,               \* interface indexes
    Lengths,                  \* of packets
    HeaderLengths,            \* values of ihl
    MIRRORING_MAX_INSTANCES

ASSUME PacketAssumption ==
    Lengths \subseteq Nat /\ HeaderLengths \subseteq Nat /\ MIRRORING_MAX_INSTANCES \in Nat

VARIABLES
    mirror_map,    \* per source index, Absent or a mirror_value
    monitor_map,   \* per source index, Absent or <<monitor_value>>
    packet,
    step,            \* where in tc_mirroring it is
    header,        \* the offset of the next header
    tags,          \* VLAN tags skipped, the i of the loop
    end,           \* one past the last byte the program has read
    copies,        \* the interfaces the packet was cloned to
    event          \* the IP header reported in the ring buffer, 0 for none

mapVars == <<mirror_map, monitor_map>>
packetVars == <<packet, step, header, tags, end, copies, event>>

ETH == 14
VLAN == 4
IP == 20
Types == {"vlan", "ip", "other"}
Packets ==
    [len : Lengths, ifindex : Interfaces, types : [0..3 -> Types], version : {4, 6}, ihl : HeaderLengths]

Absent == <<>>
MirrorValue(dst, count) == [dst_ifindexes |-> dst, enabled |-> 1, dst_ifindex_count |-> count]

\* Any value that a program may have put into mirror_map, any count included.
MirrorValues ==
    [dst_ifindexes : [1..MIRRORING_MAX_INSTANCES -> Nat], enabled : Nat, dst_ifindex_count : Nat]

PacketInit ==
    /\ packet \in Packets
    /\ step = "mirroring" /\ header = 0 /\ tags = 0 /\ end = 0 /\ copies = <<>> /\ event = 0

Ends == step' = "end" /\ UNCHANGED <<mapVars, packet, header, tags, end, copies, event>>
Reads(to, from, size) ==
    /\ step' = to /\ header' = from /\ end' = from + size
    /\ UNCHANGED <<mapVars, packet, copies, event>>
-----------------------------------------------------------------------------
\* Mutant: the count alone bounds the loop.
MutantCopies(v) ==
    IF v = Absent \/ v.enabled = 0 THEN <<>>
    ELSE [i \in 1..v.dst_ifindex_count |-> IF i <= MIRRORING_MAX_INSTANCES THEN v.dst_ifindexes[i] ELSE 0]

\* The clones of a packet: none for a value that is not enabled or whose count is
\* more than fits.
Copies(v) ==
    IF v = Absent \/ v.enabled = 0 \/ v.dst_ifindex_count > MIRRORING_MAX_INSTANCES THEN <<>>
    ELSE SubSeq(v.dst_ifindexes, 1, v.dst_ifindex_count)

mirroring ==
    /\ step = "mirroring"
    /\ copies' = Copies(mirror_map[packet.ifindex])
    /\ step' = "eth"
    /\ UNCHANGED <<mapVars, packet, header, tags, end, event>>

parse_ethhdr ==
    /\ step = "eth"
    /\ IF ETH > packet.len THEN Ends ELSE Reads("type", 0, ETH) /\ UNCHANGED tags

\* What follows the Ethernet header and the tags skipped so far.
NextHeader == ETH + tags * VLAN
Tagged == packet.types[tags] = "vlan"

\* Mutant: a fourth tag is taken for the payload.
MutantTypeKnown == tags = 3 \/ ~Tagged

TypeKnown == ~Tagged

\* One round of the loop in parse_ether_type_and_next.
SkipTag ==
    /\ step = "type" /\ Tagged /\ tags < 3
    /\ IF NextHeader + VLAN > packet.len THEN Ends ELSE Reads("type", NextHeader, VLAN) /\ tags' = tags + 1

\* The loop is over.
EtherType ==
    /\ step = "type" /\ (~Tagged \/ tags = 3)
    /\ IF TypeKnown /\ packet.types[tags] # "other"
       THEN step' = "ip" /\ UNCHANGED <<mapVars, packet, header, tags, end, copies, event>>
       ELSE Ends

Whole(at) == packet.version = 4 /\ packet.ihl >= 5 /\ at + packet.ihl * 4 <= packet.len

parse_iphdr ==
    /\ step = "ip"
    /\ IF NextHeader + IP <= packet.len /\ Whole(NextHeader)
       THEN Reads("monitor", NextHeader, packet.ihl * 4) /\ UNCHANGED tags
       ELSE Ends

\* The lookup in monitor_map; the event is lost when the ring buffer is full.
Monitored == monitor_map[packet.ifindex] \notin {Absent, <<0>>}
Submit ==
    /\ step = "monitor" /\ Monitored
    /\ event' = header /\ step' = "end"
    /\ UNCHANGED <<mapVars, packet, header, tags, end, copies>>
NoEvent == step = "monitor" /\ Ends

PacketNext == mirroring \/ parse_ethhdr \/ SkipTag \/ EtherType \/ parse_iphdr \/ Submit \/ NoEvent

\* Packets on maps that somebody has filled.
PacketSpec ==
    /\ mirror_map \in [Interfaces -> MirrorValues \cup {Absent}]
    /\ monitor_map \in [Interfaces -> {Absent} \cup {<<n>> : n \in Nat}]
    /\ PacketInit /\ [][PacketNext]_<<mapVars, packetVars>>
-----------------------------------------------------------------------------
\* The IPv4 header of a packet: behind at most three tags, with all its options.
HeaderAt(k) ==
    /\ \A i \in 0..(k - 1) : packet.types[i] = "vlan"
    /\ packet.types[k] = "ip"
    /\ packet.version = 4 /\ packet.ihl >= 5
    /\ ETH + k * VLAN + packet.ihl * 4 <= packet.len

\* An event reports the IPv4 header of a packet of a monitored interface, found
\* behind at most three VLAN tags; and a packet that has one gets as far as the
\* event, whatever its tags and options.  No header is read that reaches beyond the
\* packet (tc_mirroring.c:52-100, :136-159).
EventsAreIPv4 ==
    /\ end <= packet.len
    /\ event # 0 => Monitored /\ \E k \in 0..3 : HeaderAt(k) /\ event = ETH + k * VLAN
    /\ step = "end" /\ (\E k \in 0..3 : HeaderAt(k)) => header = ETH + tags * VLAN

\* A packet is cloned to stored destinations only, and to no more than the array
\* holds, whatever count is in the map: mirroring tests it and the loop is bounded.
CopiesStored ==
    LET v == mirror_map[packet.ifindex] IN
    copies # <<>> =>
        /\ v.enabled # 0 /\ Len(copies) <= MIRRORING_MAX_INSTANCES
        /\ \A i \in 1..Len(copies) : copies[i] = v.dst_ifindexes[i]
=============================================================================
