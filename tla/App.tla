-------------------------------- MODULE App --------------------------------
(***************************************************************************)
(* main() of main.cpp over its lifetime: the thread of the                 *)
(* TerminationSignalWaiter, whose handler pushes kStop and notifies the    *)
(* condition variable, the event loop, the thread that polls the ring      *)
(* buffer, the early returns, and the destructors of main's locals.        *)
(***************************************************************************)
EXTENDS SignalWaiter

VARIABLES
    main,         \* where the main thread is
    is_running,
    events,       \* kStop events in the vector
    pendings,     \* those the loop has taken out
    notify,       \* how far the handler has come
    consumer,     \* where monitor_thread is
    end_consumer, \* its stop_requested()
    polls         \* the ring buffer has its event buffer

loopVars == <<is_running, events, pendings>>
consumerVars == <<consumer, end_consumer, polls>>
appVars == <<main, loopVars, notify, consumerVars>>
allVars == <<vars, appVars>>

AppInit ==
    /\ main = "new" /\ is_running = TRUE /\ events = 0 /\ pendings = 0
    /\ notify = "none" /\ consumer = "off" /\ end_consumer = FALSE /\ polls = FALSE

MainGoes(from, to) == main = from /\ main' = to
-----------------------------------------------------------------------------
\* main up to the event loop.  Every failure leads to the destructors.
ConstructWaiter ==
    /\ MainGoes("new", "starting") /\ \E masked \in BOOLEAN : Construct(masked)
    /\ UNCHANGED <<loopVars, notify, consumerVars>>

StartWaiter ==
    /\ MainGoes("starting", "maps") /\ start
    /\ UNCHANGED <<loopVars, notify, consumerVars>>

\* The mask failed, or the thread cannot be created.
StartFails ==
    /\ MainGoes("starting", "returning")
    /\ UNCHANGED <<vars, loopVars, notify, consumerVars>>

\* The three open_or_create, the program, the attacher and its targets, one after the other.
Steps == <<"maps", "load", "attacher", "consumer">>
SetUp ==
    /\ \E i \in 1..3 : MainGoes(Steps[i], Steps[i + 1])
    /\ UNCHANGED <<vars, loopVars, notify, consumerVars>>
SetUpFails ==
    /\ \E i \in 1..3 : MainGoes(Steps[i], "returning")
    /\ UNCHANGED <<vars, loopVars, notify, consumerVars>>

StartConsumer ==
    /\ MainGoes("consumer", "loop")
    /\ consumer' = "create"
    /\ UNCHANGED <<vars, loopVars, notify, end_consumer, polls>>
-----------------------------------------------------------------------------
\* The event loop.
TestRunning ==
    /\ MainGoes("loop", IF is_running THEN "wait" ELSE "request_stop")
    /\ UNCHANGED <<vars, loopVars, notify, consumerVars>>

\* Mutant: the predicate does not look at the queue.
MutantWait ==
    /\ IF ~is_running
       THEN MainGoes("wait", "handle") /\ pendings' = events /\ events' = 0
       ELSE MainGoes("wait", "asleep") /\ UNCHANGED <<events, pendings>>
    /\ UNCHANGED <<vars, is_running, notify, consumerVars>>

\* event_cv.wait: the predicate is tested, and the sleep begun, under event_mutex.
Wait ==
    /\ IF ~is_running \/ events > 0
       THEN MainGoes("wait", "handle") /\ pendings' = events /\ events' = 0
       ELSE MainGoes("wait", "asleep") /\ UNCHANGED <<events, pendings>>
    /\ UNCHANGED <<vars, is_running, notify, consumerVars>>

SpuriousWakeup ==
    /\ MainGoes("asleep", "wait")
    /\ UNCHANGED <<vars, loopVars, notify, consumerVars>>

\* The loop over the events taken out.
HandleEvents ==
    /\ MainGoes("handle", "loop")
    /\ is_running' = (is_running /\ pendings = 0) /\ pendings' = 0
    /\ UNCHANGED <<vars, events, notify, consumerVars>>

\* The handler, on the waiter's thread: pushes under event_mutex, notifies without.
Push ==
    /\ waiter = "invoke" /\ notify = "none"
    /\ notify' = "pushed" /\ events' = events + 1
    /\ UNCHANGED <<vars, main, is_running, pendings, consumerVars>>

Notify ==
    /\ notify = "pushed" /\ notify' = "notified"
    /\ main' = IF main = "asleep" THEN "wait" ELSE main
    /\ UNCHANGED <<vars, loopVars, consumerVars>>

HandlerReturns ==
    /\ notify = "notified" /\ notify' = "none"
    /\ invoke_handler
    /\ UNCHANGED <<main, loopVars, consumerVars>>
-----------------------------------------------------------------------------
\* monitor_thread.  What event_buffer_create returns is not looked at; poll
\* returns at once when there is no buffer, and within 100 ms otherwise.
ConsumerGoes(from, to) == consumer = from /\ consumer' = to
EventBufferCreate ==
    /\ ConsumerGoes("create", "test")
    /\ polls' \in BOOLEAN
    /\ UNCHANGED <<vars, main, loopVars, notify, end_consumer>>
TestConsumer ==
    /\ ConsumerGoes("test", IF end_consumer THEN "off" ELSE "poll")
    /\ UNCHANGED <<vars, main, loopVars, notify, end_consumer, polls>>
Poll ==
    /\ ConsumerGoes("poll", "test")
    /\ UNCHANGED <<vars, main, loopVars, notify, end_consumer, polls>>
-----------------------------------------------------------------------------
\* The end of main.
RequestStop ==
    /\ MainGoes("request_stop", "joining")
    /\ end_consumer' = TRUE
    /\ UNCHANGED <<vars, loopVars, notify, consumer, polls>>

\* Mutant: the consumer is not waited for.
MutantJoinConsumer ==
    /\ MainGoes("joining", "returning")
    /\ UNCHANGED <<vars, loopVars, notify, consumerVars>>

JoinConsumer ==
    /\ consumer = "off" /\ MainGoes("joining", "returning")
    /\ UNCHANGED <<vars, loopVars, notify, consumerVars>>

\* The locals in reverse order: the maps, whose close frees the ring buffer, ...
CloseMaps ==
    /\ MainGoes("returning", "closed")
    /\ polls' = FALSE
    /\ UNCHANGED <<vars, loopVars, notify, consumer, end_consumer>>

\* ... the waiter, ...
DestroyWaiter ==
    /\ MainGoes("closed", "destroying") /\ stop_thread(TRUE)
    /\ UNCHANGED <<loopVars, notify, consumerVars>>
DestroyingWaiter ==
    /\ main = "destroying" /\ (Join \/ Drain \/ Restore \/ RestoreFails)
    /\ UNCHANGED appVars

\* ... and the events, the mutex and the condition variable.
Return ==
    /\ owner = "gone" /\ MainGoes("destroying", "returned")
    /\ UNCHANGED <<vars, loopVars, notify, consumerVars>>
-----------------------------------------------------------------------------
Main ==
    \/ ConstructWaiter \/ StartWaiter \/ StartFails \/ SetUp \/ SetUpFails \/ StartConsumer \/ TestRunning
    \/ Wait \/ HandleEvents \/ RequestStop \/ JoinConsumer \/ CloseMaps \/ DestroyWaiter \/ DestroyingWaiter \/ Return
WaitThread ==
    \/ (TestStop \/ TakeSignal \/ TimeOut) /\ UNCHANGED appVars
    \/ Push \/ Notify \/ HandlerReturns
Consumer == EventBufferCreate \/ TestConsumer \/ Poll
Outside ==
    \/ (WaitFails \/ \E s \in Signals : Send(s)) /\ UNCHANGED appVars
    \/ SpuriousWakeup

\* A process that was killed does nothing more.
AppNext == ~killed /\ (Main \/ WaitThread \/ Consumer \/ Outside)

AppFairness ==
    /\ WF_allVars(~killed /\ Main) /\ WF_allVars(~killed /\ WaitThread) /\ WF_allVars(~killed /\ Consumer)
AppSpec == Init /\ AppInit /\ [][AppNext]_allVars /\ AppFairness
-----------------------------------------------------------------------------
\* No thread outlives what it uses: the consumer is gone when the ring buffer is
\* closed, and the waiter's thread, whose handler refers to main's events, mutex and
\* condition variable, is gone when main returns.
LocalsOutliveThreads ==
    /\ main \in {"closed", "destroying", "returned"} => consumer = "off"
    /\ main = "returned" => waiter = "off" /\ notify = "none"

\* A signal that the waiter holds back ends main, whatever main is doing when it
\* comes (starting, asleep, handling events or returning), and although the wakeup
\* may come before the sleep.
SignalEndsMain == main # "new" /\ pending # {} ~> main = "returned" \/ killed
=============================================================================
