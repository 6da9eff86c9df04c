----------------------------- MODULE App_proofs -----------------------------
(***************************************************************************)
(* Proofs about TerminationSignalWaiter under any owner, and about main(). *)
(*                                                                         *)
(* The waiter alone: a thread that runs has a handle and has not called    *)
(* the handler yet (ThreadOK), and the signals are blocked from the        *)
(* constructor to the end of the drain, after which only a late one can be *)
(* pending (MaskOK).  main() adds that its consumer runs only between the  *)
(* start of the event loop and the join, and that the handler works only   *)
(* while the waiter's thread is in it (MainOK).                            *)
(*                                                                         *)
(* Then what main fills and loads: the TC program on a packet (PacketInv)  *)
(* and the values that set_mirroring leaves for it in mirror_map, start    *)
(* after start (SetupInv).                                                 *)
(***************************************************************************)
EXTENDS App, MirrorSetup, TLAPS

\* The waiting thread: whoever runs can be joined, a waiter that is being destroyed
\* has none, and the calls of the handler are those of threads that have ended.
ThreadOK ==
    /\ starts \in Nat /\ calls \in Nat /\ calls <= starts
    /\ waiter # "off" => joinable /\ calls + 1 <= starts
    /\ owner \in {"drain", "restore", "gone"} => ~joinable

\* The mask: nothing is killed before the waiter exists; until the destructor has
\* restored it, the mask holds signals back, or is known to have failed; and what
\* is pending after the drain came late.
MaskOK ==
    /\ owner \in {"new", "idle", "joining", "drain", "restore", "gone"}
    /\ owner = "new" => ~killed
    /\ owner \in {"idle", "joining", "drain", "restore"} => is_masked \/ mask_error
    /\ owner = "restore" => pending = {} \/ late
    /\ killed => late \/ mask_error

\* The steps of the waiter, with no bound on the threads it starts.
WaiterNext ==
    \/ OwnerSteps \/ WaiterSteps \/ Faults \/ start
    \/ \E destroy \in BOOLEAN : stop_thread(destroy)
    \/ \E s \in Signals : Send(s)

\* The invariant of the thread holds from the constructor on.
LEMMA ThreadInit == Init => ThreadOK /\ MaskOK
BY DEF Init, ThreadOK, MaskOK

\* No step starts a second thread, or lets one call the handler twice.
LEMMA ThreadStep == ThreadOK /\ [WaiterNext]_vars => ThreadOK'
<1> SUFFICES ASSUME ThreadOK PROVE [WaiterNext]_vars => ThreadOK'
    OBVIOUS
<1>1. ASSUME NEW masked, Construct(masked)
      PROVE  ThreadOK'
    BY <1>1 DEF Construct, ThreadOK, historyVars
<1>2. CASE start
    BY <1>2 DEF start, ThreadOK
<1>3. ASSUME NEW destroy, stop_thread(destroy)
      PROVE  ThreadOK'
    BY <1>3 DEF stop_thread, ThreadOK, historyVars
<1>4. CASE Join \/ Drain \/ Restore \/ RestoreFails
    BY <1>4 DEF Join, Drain, Restore, RestoreFails, ThreadOK, historyVars
<1>5. CASE TestStop \/ TakeSignal \/ TimeOut \/ WaitFails \/ invoke_handler
    BY <1>5 DEF TestStop, TakeSignal, TimeOut, WaitFails, invoke_handler, WaiterGoes, ThreadOK, ownerVars
<1>6. ASSUME NEW s, Send(s)
      PROVE  ThreadOK'
    BY <1>6 DEF Send, ThreadOK, ownerVars
<1>7. CASE UNCHANGED vars
    BY <1>7 DEF vars, ownerVars, historyVars, ThreadOK
<1>. QED
    BY <1>1, <1>2, <1>3, <1>4, <1>5, <1>6, <1>7, Zenon DEF WaiterNext, OwnerSteps, WaiterSteps, Faults

\* No step unblocks the signals while one is pending that was not late.
LEMMA MaskStep == MaskOK /\ [WaiterNext]_vars => MaskOK'
<1> SUFFICES ASSUME MaskOK PROVE [WaiterNext]_vars => MaskOK'
    OBVIOUS
<1> USE ZenonT(30)
<1>1. ASSUME NEW masked \in BOOLEAN, Construct(masked)
      PROVE  MaskOK'
    BY <1>1 DEF Construct, MaskOK, historyVars
<1>2. CASE start
    BY <1>2 DEF start, MaskOK
<1>3. ASSUME NEW destroy, stop_thread(destroy)
      PROVE  MaskOK'
    BY <1>3 DEF stop_thread, MaskOK, historyVars
<1>4. CASE Join
    BY <1>4 DEF Join, MaskOK, historyVars
<1>5. CASE Drain
    BY <1>5 DEF Drain, MaskOK, historyVars
<1>6. CASE Restore
    BY <1>6 DEF Restore, MaskOK, historyVars
<1>7. CASE RestoreFails
    BY <1>7 DEF RestoreFails, MaskOK, historyVars
<1>8. CASE TestStop \/ TimeOut \/ WaitFails \/ invoke_handler
    BY <1>8 DEF TestStop, TimeOut, WaitFails, invoke_handler, WaiterGoes, MaskOK, ownerVars
<1>9. CASE TakeSignal
    BY <1>9 DEF TakeSignal, WaiterGoes, MaskOK, ownerVars
<1>10. ASSUME NEW s, Send(s)
       PROVE  MaskOK'
  <2>1. CASE is_masked
    BY <1>10, <2>1 DEF Send, MaskOK, ownerVars
  <2>2. CASE ~is_masked
    BY <1>10, <2>2 DEF Send, MaskOK, ownerVars
  <2>. QED
    BY <2>1, <2>2
<1>11. CASE UNCHANGED vars
    BY <1>11 DEF vars, ownerVars, historyVars, MaskOK
<1>. QED
    BY <1>1, <1>2, <1>3, <1>4, <1>5, <1>6, <1>7, <1>8, <1>9, <1>10, <1>11 DEF WaiterNext, OwnerSteps, WaiterSteps, Faults

\* An owner that starts a bounded number of threads is an owner.
LEMMA NextIsWaiterNext == [Next]_vars => [WaiterNext]_vars
BY Zenon DEF Next, Inputs, WaiterNext

\* The types and bounds of the waiter's state, without what ThreadOK says of it.
WaiterTypes ==
    /\ owner \in {"new", "idle", "joining", "drain", "restore", "gone"}
    /\ waiter \in {"off", "test", "wait", "invoke"}
    /\ {destroying, is_masked, mask_error, joinable, stop, killed, late} \subseteq BOOLEAN
    /\ pending \in SUBSET Signals
    /\ sent \in 0 .. MaxSignals /\ starts \in 0 .. MaxSignals

\* Every step keeps the types, and the bounds on signals and threads.
LEMMA WaiterTypesStep == WaiterTypes /\ [Next]_vars => WaiterTypes'
<1> SUFFICES ASSUME WaiterTypes PROVE [Next]_vars => WaiterTypes'
    OBVIOUS
<1> USE ZenonT(30)
<1>1. ASSUME NEW masked \in BOOLEAN, Construct(masked)
      PROVE  WaiterTypes'
    BY <1>1 DEF Construct, WaiterTypes, historyVars
<1>2. CASE starts < MaxSignals /\ start
  <2>1. starts' \in 0 .. MaxSignals
    BY <1>2, WaiterAssumption, SMT DEF start, WaiterTypes
  <2>. QED
    BY <1>2, <2>1 DEF start, WaiterTypes
<1>3. ASSUME NEW destroy \in BOOLEAN, stop_thread(destroy)
      PROVE  WaiterTypes'
    BY <1>3 DEF stop_thread, WaiterTypes, historyVars
<1>4. CASE Join
    BY <1>4 DEF Join, WaiterTypes, historyVars
<1>5. CASE Drain
    BY <1>5 DEF Drain, WaiterTypes, historyVars
<1>6. CASE Restore
    BY <1>6 DEF Restore, WaiterTypes, historyVars
<1>7. CASE RestoreFails
    BY <1>7 DEF RestoreFails, WaiterTypes, historyVars
<1>8. CASE TestStop \/ TimeOut \/ WaitFails \/ invoke_handler
    BY <1>8 DEF TestStop, TimeOut, WaitFails, invoke_handler, WaiterGoes, WaiterTypes, ownerVars
<1>9. CASE TakeSignal
    BY <1>9 DEF TakeSignal, WaiterGoes, WaiterTypes, ownerVars
<1>10. ASSUME NEW s \in Signals, Send(s)
       PROVE  WaiterTypes'
  <2>1. sent' \in 0 .. MaxSignals
    BY <1>10, WaiterAssumption, SMT DEF Send, WaiterTypes
  <2>2. pending' \in SUBSET Signals
    BY <1>10 DEF Send, WaiterTypes
  <2>3. killed' \in BOOLEAN /\ late' \in BOOLEAN
    BY <1>10 DEF Send, WaiterTypes
  <2>. QED
    BY <1>10, <2>1, <2>2, <2>3 DEF Send, WaiterTypes, ownerVars
<1>11. CASE UNCHANGED vars
    BY <1>11 DEF vars, ownerVars, historyVars, WaiterTypes
<1>. QED
    BY <1>1, <1>2, <1>3, <1>4, <1>5, <1>6, <1>7, <1>8, <1>9, <1>10, <1>11 DEF Next, OwnerSteps, WaiterSteps, Faults, Inputs

\* Under any owner and any signals the waiter keeps its types, a thread that runs can
\* be joined, and each thread calls the handler at most once
\* (termination_signal_waiter.cpp:65-106).
THEOREM WaiterTypeCorrect == Spec => []WaiterTypeOK
<1>1. Init => WaiterTypes
  <2>1. 0 \in 0 .. MaxSignals
    BY WaiterAssumption
  <2>. QED
    BY <2>1, ZenonT(30) DEF Init, WaiterTypes
<1>2. WaiterTypes /\ ThreadOK => WaiterTypeOK
  <2> SUFFICES ASSUME WaiterTypes, ThreadOK PROVE WaiterTypeOK
    OBVIOUS
  <2>1. calls \in 0 .. starts
    BY DEF ThreadOK
  <2>. QED
    BY <2>1, ZenonT(30) DEF WaiterTypes, ThreadOK, WaiterTypeOK
<1>. QED
    BY <1>1, <1>2, ThreadInit, ThreadStep, WaiterTypesStep, NextIsWaiterNext, PTL DEF Spec

\* No signal takes its default action between the constructor and the drain in the
\* destructor, whatever the owner does with start and stop and however many signals
\* come, unless blocking them failed (termination_signal_waiter.cpp:125-145).
THEOREM SignalsSurvived == Spec => []SignalsDoNotKill
<1>1. MaskOK => SignalsDoNotKill
    BY DEF MaskOK, SignalsDoNotKill
<1>. QED
    BY <1>1, ThreadInit, MaskStep, NextIsWaiterNext, PTL DEF Spec
-----------------------------------------------------------------------------
\* main is one of the owners: each of its steps is a step of the waiter or leaves the
\* waiter alone.
LEMMA AppIsWaiter == [AppNext]_allVars => [WaiterNext]_vars
<1> SUFFICES ASSUME [AppNext]_allVars PROVE WaiterNext \/ UNCHANGED vars
    OBVIOUS
<1> USE ZenonT(30)
<1>1. StartFails \/ SetUp \/ SetUpFails \/ StartConsumer \/ TestRunning \/ Wait \/ HandleEvents \/ RequestStop
      \/ JoinConsumer \/ CloseMaps \/ Return => UNCHANGED vars
    BY DEF StartFails, SetUp, SetUpFails, StartConsumer, TestRunning, Wait, HandleEvents, RequestStop, JoinConsumer,
           CloseMaps, Return
<1>4. ConstructWaiter \/ StartWaiter \/ DestroyWaiter \/ DestroyingWaiter => WaiterNext
  <2>1. \A masked \in BOOLEAN : Construct(masked) => Construct(TRUE) \/ Construct(FALSE)
    OBVIOUS
  <2>. QED
    BY <2>1 DEF ConstructWaiter, StartWaiter, DestroyWaiter, DestroyingWaiter, WaiterNext, OwnerSteps, Faults
<1>2. WaitThread \/ Consumer \/ Outside => WaiterNext \/ UNCHANGED vars
    BY DEF WaitThread, Consumer, Outside, Push, Notify, HandlerReturns, EventBufferCreate, TestConsumer, Poll, SpuriousWakeup,
           WaiterNext, WaiterSteps, Faults
<1>3. UNCHANGED allVars => UNCHANGED vars
    BY DEF allVars
<1>. QED
    BY <1>1, <1>2, <1>3, <1>4 DEF AppNext, Main

\* main: the consumer runs only from the start of the event loop to the join, the
\* waiter is gone when main has returned, the handler is at work only on the waiter's
\* thread, and main starts one such thread.
MainOK ==
    /\ main \notin {"loop", "wait", "asleep", "handle", "request_stop", "joining"} => consumer = "off"
    /\ main = "returned" => owner = "gone"
    /\ notify # "none" => waiter = "invoke"
    /\ main \in {"new", "starting"} => starts = 0
    /\ starts <= 1

\* Every step of main, of its two threads and of the outside keeps MainOK.
LEMMA MainStep == ThreadOK /\ MainOK /\ [AppNext]_allVars => MainOK'
<1> SUFFICES ASSUME ThreadOK, MainOK PROVE [AppNext]_allVars => MainOK'
    OBVIOUS
<1> USE DEF MainOK, MainGoes, ConsumerGoes, vars, ownerVars, historyVars, loopVars, consumerVars, appVars
<1>1. CASE ConstructWaiter
    BY <1>1 DEF ConstructWaiter, Construct
<1>2. CASE StartWaiter
    BY <1>2 DEF StartWaiter, start, ThreadOK
<1>3. CASE StartFails \/ SetUp \/ SetUpFails
    BY <1>3 DEF StartFails, SetUp, SetUpFails, Steps
<1>4. CASE StartConsumer \/ TestRunning \/ Wait \/ HandleEvents \/ SpuriousWakeup
    BY <1>4 DEF StartConsumer, TestRunning, Wait, HandleEvents, SpuriousWakeup
<1>5. CASE RequestStop \/ JoinConsumer \/ CloseMaps \/ Return
    BY <1>5 DEF RequestStop, JoinConsumer, CloseMaps, Return
<1>6. CASE DestroyWaiter
    BY <1>6 DEF DestroyWaiter, stop_thread
<1>7. CASE DestroyingWaiter
    BY <1>7 DEF DestroyingWaiter, Join, Drain, Restore, RestoreFails
<1>8. CASE (TestStop \/ TakeSignal \/ TimeOut \/ WaitFails) /\ UNCHANGED appVars
    BY <1>8 DEF TestStop, TakeSignal, TimeOut, WaitFails, WaiterGoes
<1>9. CASE Push \/ Notify
    BY <1>9 DEF Push, Notify
<1>10. CASE HandlerReturns
    BY <1>10 DEF HandlerReturns, invoke_handler, WaiterGoes
<1>11. CASE Consumer
    BY <1>11 DEF Consumer, EventBufferCreate, TestConsumer, Poll
<1>12. ASSUME NEW s, Send(s), UNCHANGED appVars
       PROVE  MainOK'
    BY <1>12 DEF Send
<1>13. CASE UNCHANGED allVars
    BY <1>13 DEF allVars
<1> HIDE DEF MainOK, vars, appVars
<1>. QED
    BY <1>1, <1>2, <1>3, <1>4, <1>5, <1>6, <1>7, <1>8, <1>9, <1>10, <1>11, <1>12, <1>13,
       Zenon DEF AppNext, Main, WaitThread, Outside

\* The three parts together are inductive.
LEMMA AppInvariant == AppSpec => [](ThreadOK /\ MaskOK /\ MainOK)
<1>1. Init /\ AppInit => MainOK
    BY DEF Init, AppInit, MainOK
<1>. QED
    BY <1>1, ThreadInit, ThreadStep, MaskStep, MainStep, AppIsWaiter, PTL DEF AppSpec

\* On every way out of main (main.cpp), early returns included, the thread that polls
\* the ring buffer has ended before the maps are closed, and the waiter's thread
\* before the events, the mutex and the condition variable of its handler go.
THEOREM ThreadsEndBeforeLocals == AppSpec => []LocalsOutliveThreads
<1>1. ThreadOK /\ MainOK => LocalsOutliveThreads
    BY DEF ThreadOK, MainOK, LocalsOutliveThreads
<1>. QED
    BY <1>1, AppInvariant, PTL

\* main as the owner: SIGINT and SIGTERM do not kill the process while it sets up,
\* runs or shuts down, unless they come when the destructor has drained them.
THEOREM MainSurvivesSignals == AppSpec => []SignalsDoNotKill
<1>1. MaskOK => SignalsDoNotKill
    BY DEF MaskOK, SignalsDoNotKill
<1>. QED
    BY <1>1, AppInvariant, PTL

\* The handler that main passes is called at most once (termination_signal_waiter.h:37):
\* main starts the waiter once.  An owner that starts it again may see a second call.
THEOREM MainHandlesOnce == AppSpec => []HandlerAtMostOnce
<1>1. ThreadOK /\ MainOK => HandlerAtMostOnce
    BY DEF ThreadOK, MainOK, HandlerAtMostOnce
<1>. QED
    BY <1>1, AppInvariant, PTL

(***************************************************************************)
(* A packet in tc_mirroring.                                               *)
(***************************************************************************)

\* The EtherTypes that the loop over the tags has passed were VLAN tags.
TagsSkipped == \A i \in 0 .. (tags - 1) : packet.types[i] = "vlan"

\* What tc_mirroring knows of the packet at each step: how far it has read, which tags
\* it has passed, and, at the end, that it has reported the IPv4 header or that the
\* packet has none it could have found.
Parsed ==
    /\ step \in {"mirroring", "eth"} => header = 0 /\ tags = 0 /\ end = 0 /\ event = 0
    /\ step \in {"type", "ip"} => TagsSkipped /\ NextHeader <= packet.len /\ event = 0
    /\ step = "ip" => packet.types[tags] = "ip"
    /\ step = "monitor" => HeaderAt(tags) /\ header = NextHeader /\ event = 0
    /\ step = "end" =>
        /\ event # 0 => Monitored /\ HeaderAt(tags) /\ event = NextHeader
        /\ \A k \in 0 .. 3 : HeaderAt(k) => header = NextHeader

\* The program stays within the packet.
PacketTypes ==
    /\ packet.len \in Nat /\ packet.ihl \in Nat /\ packet.ifindex \in Interfaces
    /\ packet.types \in [0..3 -> Types]
    /\ step \in {"mirroring", "eth", "type", "ip", "monitor", "end"}
    /\ tags \in 0 .. 3 /\ header \in Nat /\ end \in Nat /\ end <= packet.len
    /\ mirror_map \in [Interfaces -> MirrorValues \cup {Absent}]

\* The inductive invariant of one packet's way through the program.
PacketInv ==
    /\ PacketTypes /\ Parsed
    /\ step = "mirroring" => copies = <<>>
    /\ step # "mirroring" => copies = Copies(mirror_map[packet.ifindex])

\* A packet with an IPv4 header behind k tags has room for it.
LEMMA HeaderFits ==
    ASSUME PacketTypes, NEW k \in 0 .. 3, HeaderAt(k)
    PROVE  /\ 34 + 4 * k <= packet.len /\ packet.types[k] = "ip"
           /\ \A i \in 0 .. 3 : i < k => packet.types[i] = "vlan"
BY SMT DEF HeaderAt, PacketTypes, ETH, VLAN

\* A packet arrives.
LEMMA PacketInitially ==
    PacketInit /\ mirror_map \in [Interfaces -> MirrorValues \cup {Absent}] => PacketInv
<1> SUFFICES ASSUME PacketInit, mirror_map \in [Interfaces -> MirrorValues \cup {Absent}] PROVE PacketInv
    OBVIOUS
<1>1. packet.len \in Nat /\ packet.ihl \in Nat /\ packet.ifindex \in Interfaces
      /\ packet.types \in [0..3 -> Types]
    BY PacketAssumption, Zenon DEF PacketInit, Packets
<1>. QED
    BY <1>1 DEF PacketInit, PacketInv, PacketTypes, Parsed

\* The program may give up when the packet has no header, or when it is past it.
LEMMA EndsWell ==
    ASSUME PacketInv, step # "mirroring", Ends, event = 0, \A k \in 0 .. 3 : HeaderAt(k) => header = NextHeader
    PROVE  PacketInv'
<1>1. /\ step' = "end" /\ mirror_map' = mirror_map /\ packet' = packet /\ header' = header /\ tags' = tags
      /\ end' = end /\ copies' = copies /\ event' = event
    BY DEF Ends, mapVars
<1>2. PacketTypes'
    BY <1>1 DEF PacketInv, PacketTypes
<1>3. \A k \in 0 .. 3 : HeaderAt(k)' => header' = NextHeader'
    BY <1>1 DEF HeaderAt, NextHeader
<1>. QED
    BY <1>1, <1>2, <1>3 DEF PacketInv, Parsed

\* Every step of the program keeps PacketInv.
LEMMA PacketStep == PacketInv => ([PacketNext]_<<mapVars, packetVars>> => PacketInv')
<1> SUFFICES ASSUME PacketInv PROVE [PacketNext]_<<mapVars, packetVars>> => PacketInv'
    OBVIOUS
<1>0. PacketTypes /\ Parsed
    BY DEF PacketInv
<1>a. /\ packet.len \in Nat /\ packet.ihl \in Nat /\ tags \in 0 .. 3 /\ NextHeader = 14 + 4 * tags
    BY <1>0, SMT DEF PacketTypes, NextHeader, ETH, VLAN
<1>1. ASSUME mirroring PROVE PacketInv'
  <2>1. /\ step = "mirroring" /\ copies' = Copies(mirror_map[packet.ifindex]) /\ step' = "eth"
        /\ mirror_map' = mirror_map /\ packet' = packet /\ header' = header /\ tags' = tags /\ end' = end /\ event' = event
    BY <1>1 DEF mirroring, mapVars
  <2>2. Copies(mirror_map[packet.ifindex])' = Copies(mirror_map[packet.ifindex])
    BY <2>1, Zenon DEF Copies
  <2>. QED
    BY <2>1, <2>2 DEF PacketInv, PacketTypes, Parsed
<1>2. ASSUME parse_ethhdr PROVE PacketInv'
  <2>1. CASE ETH > packet.len
    <3>1. \A k \in 0 .. 3 : ~HeaderAt(k)
      BY <1>0, <2>1, HeaderFits DEF ETH, PacketTypes
    <3>. QED
      BY <1>0, <1>2, <2>1, <3>1, EndsWell DEF parse_ethhdr, Parsed
  <2>2. CASE ~(ETH > packet.len)
    <3>1. /\ step = "eth" /\ step' = "type" /\ header' = 0 /\ end' = 0 + ETH /\ tags' = tags
          /\ mirror_map' = mirror_map /\ packet' = packet /\ copies' = copies /\ event' = event
      BY <1>2, <2>2 DEF parse_ethhdr, Reads, mapVars
    <3>2. ETH <= packet.len /\ tags = 0 /\ NextHeader' = ETH /\ TagsSkipped' /\ event = 0 /\ end' = ETH /\ ETH \in Nat
      BY <1>a, <1>0, <2>2, <3>1 DEF Parsed, NextHeader, TagsSkipped, ETH, VLAN
    <3>3. PacketTypes'
      BY <1>0, <3>1, <3>2 DEF PacketTypes
    <3>4. Parsed'
      BY <3>1, <3>2 DEF Parsed
    <3>5. copies' = Copies(mirror_map[packet.ifindex])'
      BY <3>1, Zenon DEF PacketInv, Copies
    <3>. QED
      BY <3>1, <3>3, <3>4, <3>5, Zenon DEF PacketInv
  <2>. QED
    BY <2>1, <2>2
<1>3. ASSUME SkipTag PROVE PacketInv'
  <2>0. step = "type" /\ packet.types[tags] = "vlan" /\ tags < 3 /\ TagsSkipped /\ event = 0
    BY <1>0, <1>3 DEF SkipTag, Tagged, Parsed
  <2>1. CASE NextHeader + VLAN > packet.len
    <3>1. ASSUME NEW k \in 0 .. 3, HeaderAt(k) PROVE FALSE
      <4>1. 34 + 4 * k <= packet.len /\ packet.types[k] = "ip"
        BY <1>0, <3>1, HeaderFits
      <4>2. k <= tags
        BY <1>a, <2>1, <4>1 DEF VLAN
      <4>3. k # tags /\ ~(k \in 0 .. (tags - 1))
        BY <2>0, <4>1 DEF TagsSkipped
      <4>. QED
        BY <1>a, <4>2, <4>3
    <3>. QED
      BY <1>3, <2>0, <2>1, <3>1, EndsWell DEF SkipTag
  <2>2. CASE ~(NextHeader + VLAN > packet.len)
    <3>1. /\ step' = "type" /\ header' = NextHeader /\ end' = NextHeader + VLAN /\ tags' = tags + 1
          /\ mirror_map' = mirror_map /\ packet' = packet /\ copies' = copies /\ event' = event
      BY <1>3, <2>2 DEF SkipTag, Reads, mapVars
    <3>2. /\ NextHeader' = NextHeader + VLAN /\ NextHeader \in Nat /\ NextHeader + VLAN \in Nat
          /\ NextHeader + VLAN <= packet.len /\ tags' \in 0 .. 3
      BY <1>a, <2>0, <2>2, <3>1 DEF NextHeader, ETH, VLAN
    <3>3. TagsSkipped'
      BY <1>a, <2>0, <3>1 DEF TagsSkipped
    <3>4. PacketTypes'
      BY <1>0, <3>1, <3>2 DEF PacketTypes
    <3>5. Parsed'
      BY <2>0, <3>1, <3>2, <3>3 DEF Parsed
    <3>6. copies' = Copies(mirror_map[packet.ifindex])'
      BY <2>0, <3>1, Zenon DEF PacketInv, Copies
    <3>. QED
      BY <3>1, <3>4, <3>5, <3>6, Zenon DEF PacketInv
  <2>. QED
    BY <2>1, <2>2
<1>4. ASSUME EtherType PROVE PacketInv'
  <2>0. step = "type" /\ (packet.types[tags] # "vlan" \/ tags = 3) /\ TagsSkipped /\ event = 0 /\ NextHeader <= packet.len
    BY <1>0, <1>4 DEF EtherType, Tagged, Parsed
  <2>1. CASE ~(TypeKnown /\ packet.types[tags] # "other")
    <3>1. ASSUME NEW k \in 0 .. 3, HeaderAt(k) PROVE FALSE
      <4>1. packet.types[k] = "ip" /\ \A i \in 0 .. 3 : i < k => packet.types[i] = "vlan"
        BY <1>0, <3>1, HeaderFits
      <4>2. k # tags
        BY <2>1, <4>1 DEF TypeKnown, Tagged
      <4>3. ~(k \in 0 .. (tags - 1))
        BY <2>0, <4>1 DEF TagsSkipped
      <4>. QED
        BY <1>a, <2>0, <4>1, <4>2, <4>3
    <3>. QED
      BY <1>4, <2>0, <2>1, <3>1, EndsWell DEF EtherType
  <2>2. CASE TypeKnown /\ packet.types[tags] # "other"
    <3>1. /\ step' = "ip" /\ header' = header /\ end' = end /\ tags' = tags
          /\ mirror_map' = mirror_map /\ packet' = packet /\ copies' = copies /\ event' = event
      BY <1>4, <2>2 DEF EtherType, mapVars
    <3>2. packet.types[tags] = "ip"
      BY <1>0, <2>2 DEF PacketTypes, TypeKnown, Tagged, Types
    <3>4. PacketTypes'
      BY <1>0, <3>1 DEF PacketTypes
    <3>5. Parsed'
      BY <2>0, <3>1, <3>2 DEF Parsed, TagsSkipped, NextHeader
    <3>6. copies' = Copies(mirror_map[packet.ifindex])'
      BY <2>0, <3>1, Zenon DEF PacketInv, Copies
    <3>. QED
      BY <3>1, <3>4, <3>5, <3>6, Zenon DEF PacketInv
  <2>. QED
    BY <2>1, <2>2
<1>5. ASSUME parse_iphdr PROVE PacketInv'
  <2>0. step = "ip" /\ packet.types[tags] = "ip" /\ TagsSkipped /\ event = 0
    BY <1>0, <1>5 DEF parse_iphdr, Parsed
  <2>1. CASE ~(NextHeader + IP <= packet.len /\ Whole(NextHeader))
    <3>1. ASSUME NEW k \in 0 .. 3, HeaderAt(k) PROVE FALSE
      <4>1. packet.types[k] = "ip" /\ \A i \in 0 .. 3 : i < k => packet.types[i] = "vlan"
        BY <1>0, <3>1, HeaderFits
      <4>2. k = tags
        BY <1>a, <2>0, <4>1 DEF TagsSkipped
      <4>3. packet.version = 4 /\ packet.ihl >= 5 /\ ETH + tags * VLAN + packet.ihl * 4 <= packet.len
        BY <3>1, <4>2 DEF HeaderAt
      <4>. QED
        BY <1>a, <2>1, <4>3 DEF Whole, NextHeader, ETH, VLAN, IP
    <3>. QED
      BY <1>5, <2>0, <2>1, <3>1, EndsWell DEF parse_iphdr
  <2>2. CASE NextHeader + IP <= packet.len /\ Whole(NextHeader)
    <3>1. /\ step' = "monitor" /\ header' = NextHeader /\ end' = NextHeader + packet.ihl * 4 /\ tags' = tags
          /\ mirror_map' = mirror_map /\ packet' = packet /\ copies' = copies /\ event' = event
      BY <1>5, <2>2 DEF parse_iphdr, Reads, mapVars
    <3>2. HeaderAt(tags)'
      BY <2>0, <2>2, <3>1 DEF HeaderAt, Whole, TagsSkipped, NextHeader
    <3>3. NextHeader' = NextHeader
      BY <3>1 DEF NextHeader
    <3>4. PacketTypes'
      <4>1. end' \in Nat /\ end' <= packet.len /\ header' \in Nat
        BY <1>a, <2>2, <3>1 DEF Whole
      <4>. QED
        BY <1>0, <3>1, <4>1 DEF PacketTypes
    <3>5. Parsed'
      BY <2>0, <3>1, <3>2, <3>3 DEF Parsed
    <3>6. copies' = Copies(mirror_map[packet.ifindex])'
      BY <2>0, <3>1, Zenon DEF PacketInv, Copies
    <3>. QED
      BY <3>1, <3>4, <3>5, <3>6, Zenon DEF PacketInv
  <2>. QED
    BY <2>1, <2>2
<1>6. ASSUME Submit PROVE PacketInv'
  <2>1. /\ step = "monitor" /\ Monitored /\ event' = header /\ step' = "end"
        /\ header' = header /\ end' = end /\ tags' = tags
        /\ mirror_map' = mirror_map /\ monitor_map' = monitor_map /\ packet' = packet /\ copies' = copies
    BY <1>6 DEF Submit, mapVars
  <2>2. HeaderAt(tags) /\ header = NextHeader
    BY <1>0, <2>1 DEF Parsed
  <2>3. HeaderAt(tags)' /\ Monitored' /\ NextHeader' = NextHeader
    BY <2>1, <2>2 DEF HeaderAt, Monitored, NextHeader
  <2>4. PacketTypes'
    BY <1>0, <2>1 DEF PacketTypes
  <2>5. Parsed'
    BY <2>1, <2>2, <2>3 DEF Parsed
  <2>6. copies' = Copies(mirror_map[packet.ifindex])'
    BY <2>1, Zenon DEF PacketInv, Copies
  <2>. QED
    BY <2>1, <2>4, <2>5, <2>6, Zenon DEF PacketInv
<1>7. ASSUME NoEvent PROVE PacketInv'
    BY <1>0, <1>7, EndsWell DEF NoEvent, Parsed
<1>8. ASSUME UNCHANGED <<mapVars, packetVars>> PROVE PacketInv'
  <2>1. /\ step' = step /\ event' = event /\ header' = header /\ end' = end /\ tags' = tags
        /\ mirror_map' = mirror_map /\ monitor_map' = monitor_map /\ packet' = packet /\ copies' = copies
    BY <1>8 DEF mapVars, packetVars
  <2>. QED
    BY <2>1, Zenon DEF PacketInv, PacketTypes, Parsed, TagsSkipped, NextHeader, HeaderAt, Monitored, Copies
<1>. QED
    BY <1>1, <1>2, <1>3, <1>4, <1>5, <1>6, <1>7, <1>8, Zenon DEF PacketNext

\* So it holds throughout.
LEMMA PacketInvariant == PacketSpec => []PacketInv
BY PacketInitially, PacketStep, PTL DEF PacketSpec

\* For packets of every length, with every header length and any contents of the maps,
\* tc_mirroring (tc_mirroring.c:52-159) reads no header beyond the end of the packet,
\* reports only IPv4 headers of monitored interfaces, and misses none that stands
\* behind at most three VLAN tags.
THEOREM OnlyIPv4Reported == PacketSpec => []EventsAreIPv4
<1>1. ASSUME PacketInv PROVE EventsAreIPv4
    BY <1>1 DEF PacketInv, PacketTypes, Parsed, EventsAreIPv4, NextHeader
<1>. QED
    BY <1>1, PacketInvariant, PTL

\* A function on 1..n is a sequence.
LEMMA SeqDef == \A S : Seq(S) = UNION {[1..n -> S] : n \in Nat}
OBVIOUS

\* Whatever value is in mirror_map, mirroring (tc_mirroring.c) clones a packet to
\* destinations stored in it only, and to no more than the array holds, for any
\* MIRRORING_MAX_INSTANCES.
THEOREM OnlyStoredCopies == PacketSpec => []CopiesStored
<1>1. ASSUME PacketInv PROVE CopiesStored
  <2> SUFFICES ASSUME copies # <<>>, NEW v, v = mirror_map[packet.ifindex]
      PROVE /\ v.enabled # 0 /\ Len(copies) <= MIRRORING_MAX_INSTANCES
            /\ \A i \in 1 .. Len(copies) : copies[i] = v.dst_ifindexes[i]
    BY DEF CopiesStored
  <2>1. copies = Copies(v)
    BY <1>1 DEF PacketInv
  <2>2. /\ v # Absent /\ v.enabled # 0 /\ ~(v.dst_ifindex_count > MIRRORING_MAX_INSTANCES)
        /\ copies = SubSeq(v.dst_ifindexes, 1, v.dst_ifindex_count)
    BY <2>1, Zenon DEF Copies
  <2>3. v \in MirrorValues
    BY <1>1, <2>2 DEF PacketInv, PacketTypes
  <2>4. /\ v.dst_ifindex_count \in Nat /\ v.dst_ifindex_count <= MIRRORING_MAX_INSTANCES
        /\ v.dst_ifindexes \in [1..MIRRORING_MAX_INSTANCES -> Nat]
    BY <2>2, <2>3, PacketAssumption DEF MirrorValues
  <2>5. v.dst_ifindexes \in Seq(Nat) /\ Len(v.dst_ifindexes) = MIRRORING_MAX_INSTANCES
    <3>1. \E n \in Nat : v.dst_ifindexes \in [1..n -> Nat]
      BY <2>4, PacketAssumption, Zenon
    <3>2. v.dst_ifindexes \in Seq(Nat)
      BY <3>1, SeqDef
    <3>3. DOMAIN v.dst_ifindexes = 1 .. MIRRORING_MAX_INSTANCES
      BY <2>4
    <3>. QED
      BY <3>2, <3>3, PacketAssumption
  <2>6. /\ Len(copies) = v.dst_ifindex_count
        /\ \A i \in 1 .. v.dst_ifindex_count : copies[i] = v.dst_ifindexes[i]
    BY <2>2, <2>4, <2>5, SMT
  <2>. QED
    BY <2>2, <2>4, <2>6
<1>. QED
    BY <1>1, PacketInvariant, PTL

(***************************************************************************)
(* The values of mirror_map, start after start.                            *)
(***************************************************************************)

\* A mirror_value that set_mirroring may leave for the source i.
Sound(i, v) ==
    /\ v # Absent /\ v.enabled = 1 /\ v.dst_ifindex_count \in 1 .. MIRRORING_MAX_INSTANCES
    /\ v.dst_ifindexes \in [1 .. MIRRORING_MAX_INSTANCES -> (Interfaces \cup {0}) \ {i}]
    /\ \A k \in 1 .. MIRRORING_MAX_INSTANCES : v.dst_ifindexes[k] # 0 <=> k <= v.dst_ifindex_count

\* An index is the index of one interface.
Indexes(list) ==
    /\ list \in [Nics -> Interfaces \cup {0}]
    /\ \A n, m \in Nics : list[n] = list[m] /\ list[n] # 0 => n = m

\* The source of the call that a process in state s is at.
KeyOf(s) == s.list[Calls[s.at]]

\* What a process has read is well formed: it holds a value only within a call of
\* set_mirroring, and one that may be written back.
StarterOK(s) ==
    /\ s = [at |-> s.at, got |-> s.got, list |-> s.list, value |-> s.value]
    /\ s.at \in 0 .. 4 /\ s.got \in BOOLEAN /\ Indexes(s.list)
    /\ s.got => s.at \in {1, 2} /\ KeyOf(s) \in Interfaces /\ Sound(KeyOf(s), s.value)

\* So is every value in the map, and every list of interfaces.
SetupTypes ==
    /\ mirror_map = [i \in Interfaces |-> mirror_map[i]] /\ added \in [Interfaces -> Nat]
    /\ \A i \in Interfaces : mirror_map[i] = Absent \/ Sound(i, mirror_map[i])
    /\ starter = [p \in Starters |-> starter[p]] /\ \A p \in Starters : StarterOK(starter[p])
    /\ Indexes(ifindex_of)

\* The destinations that mirror_map has for a source, and a number of calls as far as
\* the array can show it.
Count(i) == IF mirror_map[i] = Absent THEN 0 ELSE mirror_map[i].dst_ifindex_count
Capped(n) == IF n > MIRRORING_MAX_INSTANCES THEN MIRRORING_MAX_INSTANCES ELSE n

\* What holds as long as no two calls overlap and none fails: a source whose value a
\* process has read belongs to that process alone, which is one destination ahead of
\* the map; for every other source the map shows all the calls that were made.
Counted ==
    /\ \A p, q \in Starters : starter[p].got /\ starter[q].got /\ Key(p) = Key(q) => p = q
    /\ \A i \in Interfaces : Count(i) = Capped(added[i]) \/ \E p \in Starters : starter[p].got /\ Key(p) = i
    /\ \A p \in Starters : starter[p].got =>
            starter[p].value.dst_ifindex_count = Count(Key(p)) + 1 /\ added[Key(p)] = Count(Key(p)) + 1

\* The inductive invariant of the processes that start.
SetupInv == SetupTypes /\ (~overlapped => Counted)

\* The source of a call depends on the state of the process alone.
LEMMA KeyIs == \A p : Key(p) = KeyOf(starter[p])
BY DEF Key, KeyOf

\* set_mirroring is called with two different interfaces.
LEMMA CallsAre == \A a \in 1 .. 4 : Calls[a] \in Nics /\ Peer[Calls[a]] \in Nics /\ Peer[Calls[a]] # Calls[a]
BY SMT DEF Calls, Peer, Nics

\* A process that does not run.
LEMMA OffOK == StarterOK(Off) /\ Off.got = FALSE
<1>1. Off = [at |-> Off.at, got |-> Off.got, list |-> Off.list, value |-> Off.value]
    BY DEF Off
<1>2. Off.at = 0 /\ Off.got = FALSE /\ Off.list = [n \in Nics |-> 0]
    BY DEF Off
<1>3. Indexes(Off.list)
    BY <1>2 DEF Indexes
<1>4. Off.at \in 0 .. 4
    BY <1>2
<1>. QED
    BY <1>1, <1>2, <1>3, <1>4, Zenon DEF StarterOK

\* A value with room, extended by another interface than its source, is well formed
\* and has one destination more.
LEMMA ExtendedSound ==
    ASSUME NEW i, NEW v, NEW dst, v = Empty \/ Sound(i, v), ~Full(v), i \in Interfaces, dst \in Interfaces, dst # i
    PROVE  Sound(i, Extended(v, dst)) /\ Extended(v, dst).dst_ifindex_count = v.dst_ifindex_count + 1
<1> DEFINE M == MIRRORING_MAX_INSTANCES
           c == v.dst_ifindex_count
           d == v.dst_ifindexes
<1>0. M \in Nat /\ M # 0 /\ i # 0 /\ dst # 0
    BY PacketAssumption, SetupAssumption
<1>1. c \in 0 .. M /\ d \in [1 .. M -> (Interfaces \cup {0}) \ {i}] /\ \A k \in 1 .. M : d[k] # 0 <=> k <= c
  <2>1. CASE v = Empty
    <3>1. c = 0 /\ d = [k \in 1 .. M |-> 0]
      BY <2>1 DEF Empty, MirrorValue
    <3>. QED
      BY <1>0, <3>1
  <2>2. CASE Sound(i, v)
    BY <1>0, <2>2 DEF Sound
  <2>. QED
    BY <2>1, <2>2
<1>2. c + 1 \in 1 .. M
    BY <1>0, <1>1 DEF Full
<1> DEFINE e == [k \in DOMAIN d \cup {c + 1} |-> IF k = c + 1 THEN dst ELSE d[k]]
           x == Extended(v, dst)
<1>3. DOMAIN d \cup {c + 1} = 1 .. M
    BY <1>1, <1>2, Zenon
<1>4. x.dst_ifindexes = e /\ x.dst_ifindex_count = c + 1 /\ x.enabled = 1
    BY DEF Extended, MirrorValue
<1>5. x # Absent
    BY DEF Extended, MirrorValue, Absent
<1>6. e \in [1 .. M -> (Interfaces \cup {0}) \ {i}]
    BY <1>1, <1>3
<1>7. \A k \in 1 .. M : e[k] = IF k = c + 1 THEN dst ELSE d[k]
    BY <1>3
<1> HIDE DEF e, x, c, d
<1>8. \A k \in 1 .. M : e[k] # 0 <=> k <= c + 1
    BY <1>0, <1>1, <1>2, <1>7
<1>. QED
    BY <1>2, <1>4, <1>5, <1>6, <1>8 DEF Sound, x, c

\* On the way to the next call of main a process gives up what it has read.
LEMMA Continues ==
    ASSUME SetupTypes, NEW p \in Starters, Continue(p)
    PROVE  /\ starter' = [q \in Starters |-> starter'[q]] /\ \A q \in Starters : StarterOK(starter'[q])
           /\ \A q \in Starters : q # p => starter'[q] = starter[q]
           /\ starter'[p].got = FALSE
<1> DEFINE s == starter[p]
           t == IF s.at = 4 THEN Off ELSE [s EXCEPT !.at = @ + 1, !.got = FALSE, !.value = Absent]
<1>1. starter' = [starter EXCEPT ![p] = t]
    BY Zenon DEF Continue
<1>2. starter'[p] = t /\ starter' = [q \in Starters |-> starter'[q]] /\ \A q \in Starters : q # p => starter'[q] = starter[q]
    BY <1>1 DEF SetupTypes
<1>3. StarterOK(s)
    BY DEF SetupTypes
<1>4. StarterOK(t) /\ t.got = FALSE
  <2>1. CASE s.at = 4
    BY <2>1, OffOK
  <2>2. CASE s.at # 4
    <3>1. t = [at |-> s.at + 1, got |-> FALSE, list |-> s.list, value |-> Absent]
      BY <1>3, <2>2, Zenon DEF StarterOK
    <3>2. t.at = s.at + 1 /\ t.got = FALSE /\ t.list = s.list /\ t.value = Absent
      BY <3>1
    <3>3. t.at \in 0 .. 4
      BY <1>3, <2>2, <3>2 DEF StarterOK
    <3> HIDE DEF t
    <3>4. t = [at |-> t.at, got |-> t.got, list |-> t.list, value |-> t.value]
      BY <3>1, <3>2
    <3>. QED
      BY <1>3, <3>2, <3>3, <3>4, Zenon DEF StarterOK
  <2>. QED
    BY <2>1, <2>2, Zenon
<1>. QED
    BY <1>2, <1>3, <1>4, Zenon DEF SetupTypes

\* A step that touches neither the values nor a process that has read one.
LEMMA QuietStep ==
    ASSUME SetupInv, mirror_map' = mirror_map, added' = added, ~overlapped' => ~overlapped,
           ~overlapped' => \A q \in Starters : starter[q].got \/ starter'[q].got => starter'[q] = starter[q]
    PROVE  ~overlapped' => Counted'
<1> SUFFICES ASSUME ~overlapped' PROVE Counted'
    OBVIOUS
<1>1. Counted
    BY DEF SetupInv
<1>2. \A q \in Starters : starter'[q].got => starter[q].got /\ starter'[q] = starter[q]
    OBVIOUS
<1>3. \A q \in Starters : starter[q].got => starter'[q].got /\ starter'[q] = starter[q]
    OBVIOUS
<1>4. \A i : Count(i)' = Count(i) 
    BY DEF Count
<1>5. \A q \in Starters : starter'[q].got => Key(q)' = Key(q)
    BY <1>2, Zenon DEF Key
<1>6. \A q \in Starters : starter[q].got => Key(q)' = Key(q)
    BY <1>3, Zenon DEF Key
<1>7. \A p, q \in Starters : starter'[p].got /\ starter'[q].got /\ Key(p)' = Key(q)' => p = q
  <2> SUFFICES ASSUME NEW p \in Starters, NEW q \in Starters, starter'[p].got, starter'[q].got, Key(p)' = Key(q)' PROVE p = q
    OBVIOUS
  <2>1. starter[p].got /\ starter[q].got /\ Key(p)' = Key(p) /\ Key(q)' = Key(q)
    BY <1>2, <1>5
  <2>2. Key(p) = Key(q)
    BY <2>1, Zenon
  <2>. QED
    BY <1>1, <2>1, <2>2, Zenon DEF Counted
<1>8. \A i \in Interfaces : Count(i)' = Capped(added'[i]) \/ \E p \in Starters : starter'[p].got /\ Key(p)' = i
    BY <1>1, <1>3, <1>4, <1>6, Zenon DEF Counted
<1>9. ASSUME NEW p \in Starters, starter'[p].got
      PROVE starter'[p].value.dst_ifindex_count = Count(Key(p))' + 1 /\ added'[Key(p)'] = Count(Key(p))' + 1
  <2>1. /\ starter[p].got /\ starter'[p] = starter[p] /\ Key(p)' = Key(p)
    BY <1>2, <1>5, <1>9
  <2>2. Count(Key(p))' = Count(Key(p))
    BY <2>1 DEF Count
  <2>. QED
    BY <1>1, <2>1, <2>2, Zenon DEF Counted
<1>. QED
    BY <1>7, <1>8, <1>9, Zenon DEF Counted

\* The maps are created empty.
LEMMA SetupInitially == SetupInit => SetupInv
<1> SUFFICES ASSUME SetupInit PROVE SetupInv
    OBVIOUS
<1>1. /\ mirror_map = [i \in Interfaces |-> Absent] /\ starter = [p \in Starters |-> Off] /\ added = [i \in Interfaces |-> 0]
      /\ ifindex_of = [n \in Nics |-> IF n = "eth0" THEN 1 ELSE 2]
    BY DEF SetupInit
<1>2. Indexes(ifindex_of)
    BY <1>1, SetupAssumption DEF Indexes, Nics
<1>3. SetupTypes
    BY <1>1, <1>2, OffOK DEF SetupTypes
<1>4. \A p \in Starters : ~starter[p].got
    BY <1>1, OffOK
<1>5. \A i \in Interfaces : Count(i) = 0 /\ Capped(added[i]) = 0
  <2>1. Capped(0) = 0
    BY PacketAssumption DEF Capped
  <2>. QED
    BY <1>1, <2>1 DEF Count
<1>. QED
    BY <1>3, <1>4, <1>5 DEF SetupInv, Counted

\* Source and destination of a call of set_mirroring differ.
LEMMA KeyAndTarget ==
    ASSUME SetupTypes, NEW p \in Starters, Mirroring(p)
    PROVE  /\ Key(p) \in Interfaces \cup {0} /\ Target(p) \in Interfaces \cup {0}
           /\ Key(p) # 0 => Target(p) # Key(p)
<1>1. starter[p].at \in 1 .. 4 /\ Indexes(starter[p].list)
    BY DEF SetupTypes, StarterOK, Mirroring
<1>2. /\ Calls[starter[p].at] \in Nics /\ Peer[Calls[starter[p].at]] \in Nics
      /\ Peer[Calls[starter[p].at]] # Calls[starter[p].at]
    BY <1>1, CallsAre
<1>. QED
    BY <1>1, <1>2 DEF Key, Target, Indexes

\* A call that finds the array full adds nothing: the map shows as many as it can.
LEMMA FullStep ==
    ASSUME SetupInv, NEW p \in Starters, NEW K \in Interfaces, K = Key(p), ~starter[p].got, Continue(p),
           added' = [added EXCEPT ![K] = @ + 1], mirror_map' = mirror_map, ifindex_of' = ifindex_of,
           ~overlapped' => ~overlapped /\ ~Overlaps(p) /\ Count(K) >= MIRRORING_MAX_INSTANCES
    PROVE  SetupInv'
<1>0. SetupTypes
    BY DEF SetupInv
<1>1. /\ starter' = [q \in Starters |-> starter'[q]] /\ \A q \in Starters : StarterOK(starter'[q])
      /\ \A q \in Starters : q # p => starter'[q] = starter[q]
      /\ ~starter'[p].got
    BY <1>0, Continues, Zenon
<1>2. added' \in [Interfaces -> Nat] /\ added'[K] = added[K] + 1 /\ (\A i \in Interfaces : i # K => added'[i] = added[i])
      /\ added[K] \in Nat
    BY <1>0 DEF SetupTypes
<1>3. SetupTypes'
    BY <1>0, <1>1, <1>2, Zenon DEF SetupTypes
<1>4. ASSUME ~overlapped' PROVE Counted'
  <2>1. Counted /\ \A q \in Starters : ~(starter[q].got /\ Key(q) = K)
    BY <1>4 DEF SetupInv, Overlaps
  <2>2. \A q \in Starters : starter'[q].got => starter[q].got /\ starter'[q] = starter[q] /\ Key(q)' = Key(q)
    BY <1>1, Zenon DEF Key
  <2>3. \A q \in Starters : starter[q].got => starter'[q].got /\ starter'[q] = starter[q] /\ Key(q)' = Key(q)
    BY <1>1, Zenon DEF Key
  <2>4. \A i : Count(i)' = Count(i)
    BY DEF Count
  <2>5. Count(K)' = Capped(added'[K])
    <3>1. Count(K) = Capped(added[K])
      BY <2>1, Zenon DEF Counted
    <3>2. Count(K) >= MIRRORING_MAX_INSTANCES
      BY <1>4
    <3>. QED
      BY <1>2, <2>4, <3>1, <3>2, PacketAssumption DEF Capped
  <2>6. \A i \in Interfaces : Count(i)' = Capped(added'[i]) \/ \E q \in Starters : starter'[q].got /\ Key(q)' = i
    <3> SUFFICES ASSUME NEW i \in Interfaces, i # K
                 PROVE Count(i)' = Capped(added'[i]) \/ \E q \in Starters : starter'[q].got /\ Key(q)' = i
      BY <2>5
    <3>1. Count(i)' = Count(i) /\ added'[i] = added[i]
      BY <1>2, <2>4
    <3>. QED
      BY <2>1, <2>3, <3>1, Zenon DEF Counted
  <2>7. ASSUME NEW x \in Starters, NEW y \in Starters, starter'[x].got, starter'[y].got, Key(x)' = Key(y)' PROVE x = y
    <3>1. starter[x].got /\ starter[y].got /\ Key(x) = Key(y)
      BY <2>2, <2>7
    <3>. QED
      BY <2>1, <3>1, Zenon DEF Counted
  <2>8. ASSUME NEW q \in Starters, starter'[q].got
        PROVE starter'[q].value.dst_ifindex_count = Count(Key(q))' + 1 /\ added'[Key(q)'] = Count(Key(q))' + 1
    <3>1. starter[q].got /\ starter'[q] = starter[q] /\ Key(q)' = Key(q) /\ Key(q) # K
      BY <2>1, <2>2, <2>8
    <3>2. Key(q) \in Interfaces
      BY <1>0, <3>1, KeyIs, Zenon DEF SetupTypes, StarterOK
    <3>3. Count(Key(q))' = Count(Key(q)) /\ added'[Key(q)] = added[Key(q)]
      BY <1>2, <3>1, <3>2 DEF Count
    <3>. QED
      BY <2>1, <3>1, <3>3, Zenon DEF Counted
  <2>. QED
    BY <2>6, <2>7, <2>8, Zenon DEF Counted
<1>. QED
    BY <1>3, <1>4, Zenon DEF SetupInv

\* A call that finds room is from now on one ahead of the map, and alone with its
\* source unless the calls overlap.
LEMMA GotStep ==
    ASSUME SetupInv, NEW p \in Starters, NEW K \in Interfaces, K = Key(p), ~starter[p].got, Mirroring(p), NEW v, Sound(K, v),
           starter' = [starter EXCEPT ![p].got = TRUE, ![p].value = v],
           added' = [added EXCEPT ![K] = @ + 1], mirror_map' = mirror_map, ifindex_of' = ifindex_of,
           ~overlapped' => ~overlapped /\ ~Overlaps(p) /\ v.dst_ifindex_count = Count(K) + 1
    PROVE  SetupInv'
<1>0. SetupTypes
    BY DEF SetupInv
<1>1. StarterOK(starter[p])
    BY <1>0 DEF SetupTypes
<1>2. /\ starter' = [q \in Starters |-> starter'[q]]
      /\ \A q \in Starters : q # p => starter'[q] = starter[q]
      /\ starter'[p] = [at |-> starter[p].at, got |-> TRUE, list |-> starter[p].list, value |-> v]
    BY <1>0, <1>1, Zenon DEF SetupTypes, StarterOK
<1>3. starter'[p].at = starter[p].at /\ starter'[p].got = TRUE /\ starter'[p].list = starter[p].list /\ starter'[p].value = v
    BY <1>2
<1>4. Key(p)' = K /\ KeyOf(starter'[p]) = K
    BY <1>3 DEF Key, KeyOf
<1>5. StarterOK(starter'[p])
  <2>1. starter'[p] = [at |-> starter'[p].at, got |-> starter'[p].got, list |-> starter'[p].list,
                       value |-> starter'[p].value]
    BY <1>2, <1>3, Zenon
  <2>2. starter[p].at \in {1, 2}
    BY DEF Mirroring
  <2>. QED
    BY <1>1, <1>3, <1>4, <2>1, <2>2, Zenon DEF StarterOK
<1>6. added' \in [Interfaces -> Nat] /\ added'[K] = added[K] + 1 /\ (\A i \in Interfaces : i # K => added'[i] = added[i])
      /\ added[K] \in Nat
    BY <1>0 DEF SetupTypes
<1>7. SetupTypes'
    BY <1>0, <1>2, <1>5, <1>6, Zenon DEF SetupTypes
<1>8. ASSUME ~overlapped' PROVE Counted'
  <2>1. Counted /\ \A q \in Starters : ~(starter[q].got /\ Key(q) = K)
    BY <1>8 DEF SetupInv, Overlaps
  <2>2. \A q \in Starters : q # p => starter'[q] = starter[q] /\ Key(q)' = Key(q)
    BY <1>2, Zenon DEF Key
  <2>4. \A i : Count(i)' = Count(i)
    BY DEF Count
  <2>5. added'[K] = Count(K) + 1
    <3>1. Count(K) = Capped(added[K])
      BY <2>1, Zenon DEF Counted
    <3>2. Count(K) + 1 <= MIRRORING_MAX_INSTANCES
      BY <1>8 DEF Sound
    <3>. QED
      BY <1>6, <3>1, <3>2, PacketAssumption DEF Capped
  <2>6. \A i \in Interfaces : Count(i)' = Capped(added'[i]) \/ \E q \in Starters : starter'[q].got /\ Key(q)' = i
    <3> SUFFICES ASSUME NEW i \in Interfaces, i # K
                 PROVE Count(i)' = Capped(added'[i]) \/ \E q \in Starters : starter'[q].got /\ Key(q)' = i
      BY <1>3, <1>4, Zenon
    <3>1. Count(i)' = Count(i) /\ added'[i] = added[i]
      BY <1>6, <2>4
    <3>2. Count(i) = Capped(added[i]) \/ \E q \in Starters : starter[q].got /\ Key(q) = i
      BY <2>1, Zenon DEF Counted
    <3>. QED
      BY <2>2, <3>1, <3>2, Zenon
  <2>7. ASSUME NEW x \in Starters, NEW y \in Starters, starter'[x].got, starter'[y].got, Key(x)' = Key(y)' PROVE x = y
    <3>1. CASE x # p /\ y # p
      <4>1. starter[x].got /\ starter[y].got /\ Key(x) = Key(y)
        BY <2>2, <2>7, <3>1
      <4>. QED
        BY <2>1, <4>1, Zenon DEF Counted
    <3>2. \A z \in Starters : z # p /\ starter'[z].got => Key(z)' # K
      BY <2>1, <2>2, Zenon
    <3>. QED
      BY <1>4, <2>7, <3>1, <3>2, Zenon
  <2>8. ASSUME NEW q \in Starters, starter'[q].got
        PROVE starter'[q].value.dst_ifindex_count = Count(Key(q))' + 1 /\ added'[Key(q)'] = Count(Key(q))' + 1
    <3>0. CASE q = p
      <4>1. Count(Key(q))' = Count(K)
        BY <1>4, <3>0 DEF Count
      <4>. QED
        BY <1>3, <1>4, <1>8, <2>5, <3>0, <4>1
    <3>a. CASE q # p
      <4>1. starter[q].got /\ starter'[q] = starter[q] /\ Key(q)' = Key(q) /\ Key(q) # K
        BY <2>1, <2>2, <2>8, <3>a, Zenon
      <4>2. Key(q) \in Interfaces
        BY <1>0, <4>1, KeyIs, Zenon DEF SetupTypes, StarterOK
      <4>3. Count(Key(q))' = Count(Key(q)) /\ added'[Key(q)] = added[Key(q)]
        BY <1>6, <4>1, <4>2 DEF Count
      <4>. QED
        BY <2>1, <4>1, <4>3, Zenon DEF Counted
    <3>. QED
      BY <3>0, <3>a
  <2>. QED
    BY <2>6, <2>7, <2>8, Zenon DEF Counted
<1>. QED
    BY <1>7, <1>8, Zenon DEF SetupInv

\* The first half of set_mirroring, whether the lookup finds a value, finds none or
\* fails.
LEMMA LookupStep ==
    ASSUME SetupInv, NEW p \in Starters, NEW found, Lookup(p, found),
           found = Empty \/ Sound(Key(p), found),
           ~overlapped' => ~overlapped /\ ~Overlaps(p) /\ found.dst_ifindex_count = Count(Key(p))
    PROVE  SetupInv'
<1> SUFFICES ASSUME NEW K, K = Key(p) PROVE SetupInv'
    OBVIOUS
<1>0. SetupTypes
    BY DEF SetupInv
<1>1. /\ Mirroring(p) /\ ~starter[p].got /\ K # 0 /\ Target(p) # 0 /\ added' = [added EXCEPT ![K] = @ + 1]
      /\ mirror_map' = mirror_map /\ ifindex_of' = ifindex_of
    BY DEF Lookup, mapVars
<1>2. K \in Interfaces /\ Target(p) \in Interfaces /\ Target(p) # K
    BY <1>0, <1>1, KeyAndTarget
<1>3. CASE Full(found)
  <2>1. Continue(p)
    BY <1>3 DEF Lookup
  <2>2. ~overlapped' => Count(K) >= MIRRORING_MAX_INSTANCES
    BY <1>3 DEF Full
  <2>. QED
    BY <1>1, <1>2, <2>1, <2>2, FullStep, Zenon
<1>4. CASE ~Full(found)
  <2> SUFFICES ASSUME NEW v, v = Extended(found, Target(p)) PROVE SetupInv'
    OBVIOUS
  <2>1. starter' = [starter EXCEPT ![p].got = TRUE, ![p].value = v]
    BY <1>4, Zenon DEF Lookup
  <2>2. Sound(K, v) /\ v.dst_ifindex_count = found.dst_ifindex_count + 1
    BY <1>2, <1>4, ExtendedSound, Zenon
  <2>. QED
    BY <1>1, <1>2, <2>1, <2>2, GotStep, Zenon
<1>. QED
    BY <1>3, <1>4

\* The second half writes the value back, and the map has caught up.
LEMMA UpdateStep ==
    ASSUME SetupInv, NEW p \in Starters, UpdateMirror(p)
    PROVE  SetupInv'
<1> SUFFICES ASSUME NEW K, K = Key(p), NEW v, v = starter[p].value PROVE SetupInv'
    OBVIOUS
<1>0. SetupTypes
    BY DEF SetupInv
<1>1. /\ starter[p].got /\ mirror_map' = [mirror_map EXCEPT ![K] = v] /\ Continue(p)
      /\ ifindex_of' = ifindex_of /\ added' = added /\ overlapped' = overlapped
    BY DEF UpdateMirror
<1>2. /\ starter' = [q \in Starters |-> starter'[q]] /\ \A q \in Starters : StarterOK(starter'[q])
      /\ \A q \in Starters : q # p => starter'[q] = starter[q]
      /\ ~starter'[p].got
    BY <1>0, <1>1, Continues, Zenon
<1>3. K \in Interfaces /\ Sound(K, v)
    BY <1>0, <1>1, KeyIs DEF SetupTypes, StarterOK
<1>4. /\ mirror_map' = [i \in Interfaces |-> mirror_map'[i]] /\ mirror_map'[K] = v
      /\ \A i \in Interfaces : i # K => mirror_map'[i] = mirror_map[i]
    BY <1>0, <1>1, <1>3 DEF SetupTypes
<1>5. \A i \in Interfaces : mirror_map'[i] = Absent \/ Sound(i, mirror_map'[i])
    BY <1>0, <1>3, <1>4, Zenon DEF SetupTypes
<1>6. SetupTypes'
    BY <1>0, <1>1, <1>2, <1>4, <1>5, Zenon DEF SetupTypes
<1>7. ASSUME ~overlapped' PROVE Counted'
  <2>1. Counted
    BY <1>1, <1>7 DEF SetupInv
  <2>2. \A q \in Starters : starter'[q].got =>
            /\ starter[q].got /\ starter'[q] = starter[q] /\ Key(q)' = Key(q)
            /\ q # p /\ Key(q) # K
    BY <1>1, <1>2, <2>1, Zenon DEF Key, Counted
  <2>3. \A q \in Starters : starter[q].got /\ q # p => starter'[q].got /\ Key(q)' = Key(q)
    BY <1>2, Zenon DEF Key
  <2>4. v # Absent /\ Count(K)' = v.dst_ifindex_count
    BY <1>3, <1>4 DEF Count, Sound
  <2>5. \A i \in Interfaces : i # K => Count(i)' = Count(i)
    BY <1>4 DEF Count
  <2>6. v.dst_ifindex_count = Count(K) + 1 /\ added[K] = Count(K) + 1
    BY <1>1, <2>1, Zenon DEF Counted
  <2>7. Count(K)' = Capped(added'[K])
    BY <1>1, <1>3, <2>4, <2>6, PacketAssumption DEF Capped, Sound
  <2>8. \A i \in Interfaces : Count(i)' = Capped(added'[i]) \/ \E q \in Starters : starter'[q].got /\ Key(q)' = i
    <3> SUFFICES ASSUME NEW i \in Interfaces, i # K
                 PROVE Count(i)' = Capped(added'[i]) \/ \E q \in Starters : starter'[q].got /\ Key(q)' = i
      BY <2>7
    <3>1. Count(i)' = Count(i) /\ added'[i] = added[i]
      BY <1>1, <2>5
    <3>2. Count(i) = Capped(added[i]) \/ \E q \in Starters : starter[q].got /\ Key(q) = i
      BY <2>1, Zenon DEF Counted
    <3>. QED
      BY <2>3, <3>1, <3>2, Zenon
  <2>9. ASSUME NEW x \in Starters, NEW y \in Starters, starter'[x].got, starter'[y].got, Key(x)' = Key(y)' PROVE x = y
    <3>1. starter[x].got /\ starter[y].got /\ Key(x) = Key(y)
      BY <2>2, <2>9
    <3>. QED
      BY <2>1, <3>1, Zenon DEF Counted
  <2>10. ASSUME NEW q \in Starters, starter'[q].got
        PROVE starter'[q].value.dst_ifindex_count = Count(Key(q))' + 1 /\ added'[Key(q)'] = Count(Key(q))' + 1
    <3>1. starter[q].got /\ starter'[q] = starter[q] /\ Key(q)' = Key(q) /\ Key(q) # K
      BY <2>2, <2>10
    <3>2. Key(q) \in Interfaces
      BY <1>0, <3>1, KeyIs DEF SetupTypes, StarterOK
    <3>3. Count(Key(q))' = Count(Key(q))
      BY <1>4, <3>1, <3>2 DEF Count
    <3>. QED
      BY <1>1, <2>1, <3>1, <3>3, Zenon DEF Counted
  <2>. QED
    BY <2>8, <2>9, <2>10, Zenon DEF Counted
<1>. QED
    BY <1>6, <1>7, Zenon DEF SetupInv

\* Every step of a process, and every change of the interfaces, keeps SetupInv.
LEMMA SetupStep == SetupInv => ([SetupNext]_setupVars => SetupInv')
<1> SUFFICES ASSUME SetupInv PROVE [SetupNext]_setupVars => SetupInv'
    OBVIOUS
<1>0. SetupTypes
    BY DEF SetupInv
\* A process that moves on and has nothing looked up, or fails.
<1>a. ASSUME NEW p \in Starters, Continue(p), mirror_map' = mirror_map, added' = added, ifindex_of' = ifindex_of,
             ~overlapped' => ~overlapped /\ ~starter[p].got
      PROVE  SetupInv'
  <2>1. /\ starter' = [q \in Starters |-> starter'[q]] /\ \A q \in Starters : StarterOK(starter'[q])
        /\ \A q \in Starters : q # p => starter'[q] = starter[q]
        /\ ~starter'[p].got
    BY <1>0, <1>a, Continues, Zenon
  <2>2. SetupTypes'
    BY <1>0, <1>a, <2>1, Zenon DEF SetupTypes
  <2>3. ~overlapped' => \A q \in Starters : starter[q].got \/ starter'[q].got => starter'[q] = starter[q]
    BY <1>a, <2>1, Zenon
  <2>4. ~overlapped' => Counted'
    BY <1>a, <2>3, QuietStep
  <2>. QED
    BY <2>2, <2>4, Zenon DEF SetupInv
\* A process that starts or ends.
<1>b. ASSUME NEW p \in Starters, NEW s, StarterOK(s), ~s.got, starter' = [starter EXCEPT ![p] = s],
             mirror_map' = mirror_map, added' = added, ifindex_of' = ifindex_of,
             ~overlapped' => ~overlapped /\ ~starter[p].got
      PROVE  SetupInv'
  <2>1. /\ starter' = [q \in Starters |-> starter'[q]] /\ starter'[p] = s
        /\ \A q \in Starters : q # p => starter'[q] = starter[q]
    BY <1>0, <1>b DEF SetupTypes
  <2>2. SetupTypes'
    BY <1>0, <1>b, <2>1, Zenon DEF SetupTypes
  <2>3. ~overlapped' => \A q \in Starters : starter[q].got \/ starter'[q].got => starter'[q] = starter[q]
    BY <1>b, <2>1, Zenon
  <2>4. ~overlapped' => Counted'
    BY <1>b, <2>3, QuietStep
  <2>. QED
    BY <2>2, <2>4, Zenon DEF SetupInv
<1>1. ASSUME NEW p \in Starters, Start(p) PROVE SetupInv'
  <2>1. ASSUME NEW s, s = [Off EXCEPT !.at = 1, !.list = ifindex_of]
        PROVE  s = [at |-> 1, got |-> FALSE, list |-> ifindex_of, value |-> Absent]
    BY <2>1, Zenon DEF Off
  <2> SUFFICES ASSUME NEW s, s = [at |-> 1, got |-> FALSE, list |-> ifindex_of, value |-> Absent] PROVE SetupInv'
    BY Zenon
  <2>2. /\ starter[p] = Off /\ starter' = [starter EXCEPT ![p] = s] /\ mirror_map' = mirror_map
        /\ added' = added /\ ifindex_of' = ifindex_of /\ overlapped' = overlapped
    BY <1>1, <2>1, Zenon DEF Start, mapVars
  <2>3. s.at = 1 /\ s.got = FALSE /\ s.list = ifindex_of /\ s.value = Absent
    OBVIOUS
  <2>4. s = [at |-> s.at, got |-> s.got, list |-> s.list, value |-> s.value]
    BY <2>3
  <2>5. s.at \in 0 .. 4
    BY <2>3
  <2>6. StarterOK(s)
    BY <1>0, <2>3, <2>4, <2>5, Zenon DEF SetupTypes, StarterOK
  <2>. QED
    BY <1>b, <2>2, <2>3, <2>6, OffOK, Zenon
<1>2. ASSUME NEW p \in Starters, NotFound(p) PROVE SetupInv'
  <2>1. /\ ~starter[p].got /\ Continue(p)
        /\ mirror_map' = mirror_map /\ added' = added /\ ifindex_of' = ifindex_of /\ overlapped' = overlapped
    BY <1>2 DEF NotFound, mapVars
  <2>. QED
    BY <1>a, <2>1
<1>3. ASSUME NEW p \in Starters, LookupValue(p) PROVE SetupInv'
  <2> SUFFICES ASSUME NEW found, found = IF mirror_map[Key(p)] = Absent THEN Empty ELSE mirror_map[Key(p)] PROVE SetupInv'
    OBVIOUS
  <2>1. Lookup(p, found) /\ (~overlapped' => ~overlapped /\ ~Overlaps(p))
    BY <1>3, Zenon DEF LookupValue
  <2>2. Key(p) \in Interfaces
    BY <1>0, <2>1, KeyAndTarget DEF Lookup
  <2>3. Empty.dst_ifindex_count = 0
    BY DEF Empty, MirrorValue
  <2>4. found.dst_ifindex_count = Count(Key(p)) /\ (found = Empty \/ Sound(Key(p), found))
    BY <1>0, <2>2, <2>3 DEF SetupTypes, Count
  <2>. QED
    BY <2>1, <2>4, LookupStep
<1>4. ASSUME NEW p \in Starters, LookupFails(p) PROVE SetupInv'
    BY <1>4, LookupStep DEF LookupFails
<1>5. ASSUME NEW p \in Starters, UpdateMirror(p) PROVE SetupInv'
    BY <1>5, UpdateStep
<1>6. ASSUME NEW p \in Starters, set_monitoring_target(p) PROVE SetupInv'
  <2>1. /\ starter[p].at \in {3, 4} /\ Continue(p) /\ mirror_map' = mirror_map /\ added' = added /\ ifindex_of' = ifindex_of
        /\ overlapped' = overlapped
    BY <1>6 DEF set_monitoring_target
  <2>2. ~starter[p].got
    BY <1>0, <2>1 DEF SetupTypes, StarterOK
  <2>. QED
    BY <1>a, <2>1, <2>2
<1>7. ASSUME NEW p \in Starters, UpdateFails(p) PROVE SetupInv'
  <2>1. Continue(p) /\ mirror_map' = mirror_map /\ added' = added /\ ifindex_of' = ifindex_of /\ overlapped' = TRUE
    BY <1>7 DEF UpdateFails, mapVars
  <2>. QED
    BY <1>a, <2>1
<1>8. ASSUME NEW p \in Starters, Ended(p) PROVE SetupInv'
  <2>1. /\ starter' = [starter EXCEPT ![p] = Off] /\ mirror_map' = mirror_map /\ added' = added /\ ifindex_of' = ifindex_of
        /\ ~overlapped' => ~overlapped /\ ~starter[p].got
    BY <1>8, Zenon DEF Ended, mapVars
  <2>. QED
    BY <1>b, <2>1, OffOK, Zenon
<1>9. ASSUME NEW n \in Nics, NEW i \in Interfaces \cup {0}, Changes(n, i) PROVE SetupInv'
  <2>1. /\ i \notin {ifindex_of[m] : m \in Nics} /\ ifindex_of' = [ifindex_of EXCEPT ![n] = i]
        /\ starter' = starter /\ mirror_map' = mirror_map /\ added' = added /\ overlapped' = overlapped
    BY <1>9 DEF Changes, mapVars
  <2>2. Indexes(ifindex_of)'
    BY <1>0, <2>1 DEF SetupTypes, Indexes
  <2>3. SetupTypes'
    BY <1>0, <2>1, <2>2, Zenon DEF SetupTypes
  <2>4. ~overlapped' => Counted'
    BY <2>1, QuietStep
  <2>. QED
    BY <2>3, <2>4, Zenon DEF SetupInv
<1>10. ASSUME UNCHANGED setupVars PROVE SetupInv'
  <2>1. /\ starter' = starter /\ mirror_map' = mirror_map /\ added' = added
        /\ overlapped' = overlapped /\ ifindex_of' = ifindex_of
    BY <1>10 DEF setupVars, mapVars
  <2>2. SetupTypes'
    BY <1>0, <2>1, Zenon DEF SetupTypes
  <2>4. ~overlapped' => Counted'
    BY <2>1, QuietStep
  <2>. QED
    BY <2>2, <2>4, Zenon DEF SetupInv
<1>. QED
    BY <1>1, <1>2, <1>3, <1>4, <1>5, <1>6, <1>7, <1>8, <1>9, <1>10, Zenon DEF SetupNext, Process

\* So it holds throughout.
LEMMA SetupInvariant == SetupSpec => []SetupInv
BY SetupInitially, SetupStep, PTL DEF SetupSpec

\* Any number of processes may start at once, any number of times, and interfaces may
\* go and come back under other indexes: set_mirroring (main.cpp) leaves only
\* well-formed values in mirror_map, for any MIRRORING_MAX_INSTANCES but 0.
THEOREM StoredValuesSound == SetupSpec => []MirrorValueSound
<1>1. ASSUME SetupInv PROVE MirrorValueSound
  <2> SUFFICES ASSUME NEW i \in Interfaces, NEW v, v = mirror_map[i], v # Absent
      PROVE /\ v.dst_ifindex_count \in 1..MIRRORING_MAX_INSTANCES
            /\ v.dst_ifindexes \in [1..MIRRORING_MAX_INSTANCES -> (Interfaces \cup {0}) \ {i}]
            /\ \A k \in 1..MIRRORING_MAX_INSTANCES : (v.dst_ifindexes[k] # 0) = (k <= v.dst_ifindex_count)
    BY Zenon DEF MirrorValueSound
  <2>1. Sound(i, v)
    BY <1>1 DEF SetupInv, SetupTypes
  <2>. QED
    BY <2>1 DEF Sound
<1>. QED
    BY <1>1, SetupInvariant, PTL

\* As long as no two calls of set_mirroring overlap on a source and none fails, the
\* packets of a source are cloned once for every call, in whichever process and start
\* it was made, until the array is full.
THEOREM NoStartIsLost == SetupSpec => []EveryStartCounts
<1>1. ASSUME SetupInv PROVE EveryStartCounts
  <2> SUFFICES ASSUME NEW i \in Interfaces, ~overlapped, \A p \in Starters : ~starter[p].got
      PROVE Len(Copies(mirror_map[i])) = Capped(added[i])
    BY Zenon DEF EveryStartCounts, Capped
  <2> SUFFICES ASSUME NEW v, v = mirror_map[i] PROVE Len(Copies(v)) = Count(i)
    BY <1>1, Zenon DEF SetupInv, Counted
  <2>1. CASE v = Absent
    <3>1. Copies(v) = <<>> /\ Count(i) = 0
      BY <2>1 DEF Copies, Count
    <3>. QED
      BY <3>1
  <2>2. CASE v # Absent
    <3>1. Sound(i, v) /\ Count(i) = v.dst_ifindex_count
      BY <1>1, <2>2 DEF SetupInv, SetupTypes, Count
    <3>2. /\ v.enabled = 1 /\ v.dst_ifindex_count \in 1 .. MIRRORING_MAX_INSTANCES
          /\ v.dst_ifindexes \in [1 .. MIRRORING_MAX_INSTANCES -> (Interfaces \cup {0}) \ {i}]
      BY <3>1 DEF Sound
    <3>3. Copies(v) = SubSeq(v.dst_ifindexes, 1, v.dst_ifindex_count)
      BY <2>2, <3>2, PacketAssumption DEF Copies
    <3>4. \E n \in Nat : v.dst_ifindexes \in [1 .. n -> Interfaces \cup {0}]
      BY <3>2, PacketAssumption
    <3>5. v.dst_ifindexes \in Seq(Interfaces \cup {0})
      BY <3>4, SeqDef
    <3>6. DOMAIN v.dst_ifindexes = 1 .. MIRRORING_MAX_INSTANCES
      BY <3>2
    <3>7. Len(v.dst_ifindexes) = MIRRORING_MAX_INSTANCES
      BY <3>5, <3>6, PacketAssumption
    <3>. QED
      BY <3>1, <3>2, <3>3, <3>5, <3>7, PacketAssumption
  <2>. QED
    BY <2>1, <2>2
<1>. QED
    BY <1>1, SetupInvariant, PTL
=============================================================================
