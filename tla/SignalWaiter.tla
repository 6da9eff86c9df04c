---------------------------- MODULE SignalWaiter ----------------------------
(***************************************************************************)
(* utils::TerminationSignalWaiter (termination_signal_waiter.h, .cpp): the *)
(* signal mask, the thread that waits for SIGINT and SIGTERM, and the      *)
(* owner that constructs, starts, stops and destroys the waiter.  Every    *)
(* other thread is created later and inherits the mask, as the class       *)
(* requires, so a signal is pending for the process while it is blocked.   *)
(***************************************************************************)
EXTENDS Integers

CONSTANTS Signals,     \* SIGINT and SIGTERM
          MaxSignals   \* bound on the signals that are sent

ASSUME WaiterAssumption == MaxSignals \in Nat

VARIABLES
    owner,        \* where the owning thread is
    destroying,   \* its stop() was called by the destructor
    is_masked,    \* is_masked_: the signals are blocked
    mask_error,   \* mask_error_ is not zero
    joinable,     \* wait_thread_.joinable()
    stop,         \* its stop_requested()
    waiter,       \* where the waiting thread is
    pending,      \* the pending signals of the process
    killed,       \* a signal took its default action
    sent,         \* history: signals sent
    starts,       \* history: threads started
    calls,        \* history: calls of the handler
    late          \* history: a signal came after the destructor drained them

ownerVars == <<owner, destroying, is_masked, mask_error, joinable>>
historyVars == <<sent, starts, calls, late>>
vars == <<ownerVars, stop, waiter, pending, killed, historyVars>>

Init ==
    /\ owner = "new" /\ destroying = FALSE /\ is_masked = FALSE /\ mask_error = FALSE /\ joinable = FALSE
    /\ stop = FALSE /\ waiter = "off" /\ pending = {} /\ killed = FALSE
    /\ sent = 0 /\ starts = 0 /\ calls = 0 /\ late = FALSE
-----------------------------------------------------------------------------
\* The constructor blocks the signals, or fails to.
Construct(masked) ==
    /\ owner = "new" /\ owner' = "idle"
    /\ is_masked' = masked /\ mask_error' = ~masked
    /\ UNCHANGED <<destroying, joinable, stop, waiter, pending, killed, historyVars>>

\* start() refuses when the mask failed or a thread exists; otherwise it changes
\* nothing unless the thread is created.
start ==
    /\ owner = "idle" /\ ~mask_error /\ ~joinable
    /\ joinable' = TRUE /\ stop' = FALSE /\ waiter' = "test"
    /\ starts' = starts + 1
    /\ UNCHANGED <<owner, destroying, is_masked, mask_error, pending, killed, sent, calls, late>>

\* stop(), by itself or as the first step of the destructor.
stop_thread(destroy) ==
    /\ owner = "idle"
    /\ joinable \/ destroy
    /\ destroying' = destroy
    /\ stop' = (stop \/ joinable)
    /\ owner' = IF joinable THEN "joining" ELSE "drain"
    /\ UNCHANGED <<is_masked, mask_error, joinable, waiter, pending, killed, historyVars>>

Join ==
    /\ owner = "joining" /\ waiter = "off"
    /\ joinable' = FALSE
    /\ owner' = IF destroying THEN "drain" ELSE "idle"
    /\ UNCHANGED <<destroying, is_masked, mask_error, stop, waiter, pending, killed, historyVars>>

\* Mutant: pending signals are not drained.
MutantDrain ==
    /\ owner = "drain"
    /\ owner' = IF is_masked THEN "restore" ELSE "gone"
    /\ UNCHANGED <<destroying, is_masked, mask_error, joinable, stop, waiter, pending, killed, historyVars>>

\* restore_signal_mask discards what is pending, then restores the mask.
Drain ==
    /\ owner = "drain"
    /\ IF is_masked THEN pending' = {} /\ owner' = "restore" ELSE owner' = "gone" /\ UNCHANGED pending
    /\ UNCHANGED <<destroying, is_masked, mask_error, joinable, stop, waiter, killed, historyVars>>

\* A signal that is pending when it is unblocked takes its default action.
Restore ==
    /\ owner = "restore" /\ owner' = "gone"
    /\ is_masked' = FALSE
    /\ killed' = (pending # {})
    /\ UNCHANGED <<destroying, mask_error, joinable, stop, waiter, pending, historyVars>>

RestoreFails ==
    /\ owner = "restore" /\ owner' = "gone"
    /\ UNCHANGED <<destroying, is_masked, mask_error, joinable, stop, waiter, pending, killed, historyVars>>
-----------------------------------------------------------------------------
\* wait_loop.
WaiterGoes(from, to) ==
    /\ waiter = from /\ waiter' = to
    /\ UNCHANGED <<ownerVars, stop, killed, sent, starts, late>>

TestStop == WaiterGoes("test", IF stop THEN "off" ELSE "wait") /\ UNCHANGED <<pending, calls>>

\* Mutant: the loop goes on without calling the handler.
MutantTakeSignal ==
    /\ \E s \in pending : pending' = pending \ {s}
    /\ WaiterGoes("wait", "test")
    /\ UNCHANGED calls

TakeSignal ==
    /\ \E s \in pending : pending' = pending \ {s}
    /\ WaiterGoes("wait", "invoke")
    /\ UNCHANGED calls

\* Mutant: the wait has no timeout.
MutantTimeOut == pending # {} /\ WaiterGoes("wait", "test") /\ UNCHANGED <<pending, calls>>

\* EAGAIN or EINTR.
TimeOut == pending = {} /\ WaiterGoes("wait", "test") /\ UNCHANGED <<pending, calls>>

\* Any other error of sigtimedwait also calls the handler.
WaitFails == WaiterGoes("wait", "invoke") /\ UNCHANGED <<pending, calls>>

\* Mutant: the loop goes on after the handler.
MutantInvokeHandler == WaiterGoes("invoke", "test") /\ calls' = calls + 1 /\ UNCHANGED pending

invoke_handler == WaiterGoes("invoke", "off") /\ calls' = calls + 1 /\ UNCHANGED pending
-----------------------------------------------------------------------------
\* Once the waiter exists: a signal stays pending while it is blocked, and takes
\* its default action otherwise.
Send(s) ==
    /\ owner # "new"
    /\ sent < MaxSignals /\ sent' = sent + 1
    /\ IF is_masked THEN pending' = pending \cup {s} /\ UNCHANGED killed ELSE killed' = TRUE /\ UNCHANGED pending
    /\ late' = (late \/ owner \in {"restore", "gone"})
    /\ UNCHANGED <<ownerVars, stop, waiter, starts, calls>>
-----------------------------------------------------------------------------
OwnerSteps == Construct(TRUE) \/ Join \/ Drain \/ Restore
WaiterSteps == TestStop \/ TakeSignal \/ TimeOut \/ invoke_handler
Faults == Construct(FALSE) \/ WaitFails \/ RestoreFails

\* The owner starts a bounded number of threads.
Inputs ==
    \/ starts < MaxSignals /\ start
    \/ \E destroy \in BOOLEAN : stop_thread(destroy)
    \/ \E s \in Signals : Send(s)

Next == OwnerSteps \/ WaiterSteps \/ Faults \/ Inputs

Spec == Init /\ [][Next]_vars

\* A thread that can run runs; sigtimedwait returns within its 200 ms.
FairSpec == Spec /\ WF_vars(OwnerSteps) /\ WF_vars(WaiterSteps)
-----------------------------------------------------------------------------
\* Every variable has its type, a thread that runs has a handle to join it by, and
\* each thread calls the handler at most once, however many signals come
\* (termination_signal_waiter.cpp:65, :79, :92-106).
WaiterTypeOK ==
    /\ owner \in {"new", "idle", "joining", "drain", "restore", "gone"}
    /\ waiter \in {"off", "test", "wait", "invoke"}
    /\ {destroying, is_masked, mask_error, joinable, stop, killed, late} \subseteq BOOLEAN
    /\ pending \in SUBSET Signals
    /\ sent \in 0 .. MaxSignals /\ starts \in 0 .. MaxSignals /\ calls \in 0 .. starts
    /\ waiter # "off" => joinable

\* A process whose waiter was constructed survives its signals: a signal takes
\* its default action only if it came after the destructor had drained the
\* pending ones, or if blocking them failed (termination_signal_waiter.cpp:125-145).
\* The waiting thread, a second signal, stop and start make no difference.
SignalsDoNotKill == killed => late \/ mask_error

\* stop() and the destructor return: the waiting thread looks at the stop
\* request after each timeout (:78-83, :86).
StopReturns == owner = "joining" ~> owner # "joining"

\* A pending signal reaches the handler of a waiting thread that is not told to
\* stop, even if the signal came before the thread was started (:85-108).
SignalIsHandled ==
    waiter \in {"test", "wait"} /\ pending # {} ~> waiter = "invoke" \/ stop

\* The handler is called only once (termination_signal_waiter.h:37).
HandlerAtMostOnce == calls <= 1
=============================================================================
