-------------------------------- MODULE MCTc --------------------------------
(***************************************************************************)
(* What lies on either side of the manager, for model checking: the system *)
(* calls it makes, the list of interfaces it is given, and the TC program  *)
(* it attaches.  They share no state, so an initial state picks one part   *)
(* to explore and the others rest.                                         *)
(***************************************************************************)
EXTENDS TcFilter, InterfaceList, MirrorSetup

\* "eth0" was there first.
MCFirstIndexes == [n \in {"eth0", "eth3"} |-> IF n = "eth0" THEN 1 ELSE 2]

VARIABLE part
sidesVars == <<tcVars, ifListVars, packetVars, setupVars, part>>

\* Any value that a program may have put into mirror_map.
MCMirrorValues ==
    [dst_ifindexes : [1..MIRRORING_MAX_INSTANCES -> {1, 2}], enabled : {0, 1},
     dst_ifindex_count : 0..(MIRRORING_MAX_INSTANCES + 1)]

\* What a packet is cloned to does not depend on its headers: one packet meets every
\* value, and every packet meets none.
MCPackets == {p \in Packets : p.ifindex = 1}
ThePacket == CHOOSE p \in MCPackets : p.len = 0

MapsInit ==
    IF part # "packets" THEN SetupInit
    ELSE /\ mirror_map \in {[i \in Interfaces |-> v] :
                              v \in IF packet = ThePacket THEN MCMirrorValues ELSE {Absent}}
         /\ monitor_map \in {[i \in Interfaces |-> v] : v \in {Absent, <<0>>, <<1>>, <<2>>}}
         /\ ifindex_of = [n \in Nics |-> 0] /\ starter = [p \in Starters |-> Off] /\ started = 0
         /\ added = [i \in Interfaces |-> 0] /\ overlapped = TRUE


SidesInit ==
    /\ part \in {"filter", "list", "packets", "setup"}
    /\ entries \in IF part = "list" THEN Lists ELSE {<<>>}
    /\ packet \in IF part = "packets" THEN MCPackets ELSE {ThePacket}
    /\ snapshot \in IF part = "filter" THEN {0, 1} ELSE {1}
    /\ TcInit /\ ListInit /\ PacketInit /\ MapsInit

SidesNext ==
    /\ UNCHANGED part
    /\ \/ part = "filter" /\ TcNext /\ UNCHANGED <<ifListVars, packetVars, setupVars>>
       \/ part = "list" /\ ListNext /\ UNCHANGED <<tcVars, packetVars, setupVars>>
       \/ part = "packets" /\ PacketNext /\ UNCHANGED <<tcVars, ifListVars, ifindex_of, starter, started, added, overlapped>>
       \/ part = "setup" /\ SetupNext /\ UNCHANGED <<tcVars, ifListVars, packetVars>>

SidesSpec == SidesInit /\ [][SidesNext]_sidesVars
=============================================================================
