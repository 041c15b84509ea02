---------------------------- MODULE PeriodicTimer ----------------------------
(***************************************************************************)
(* The master clock of GT_PeriodicTimer.cpp: a timerfd and an eventfd for  *)
(* cancellation behind one epoll instance.  The thread that waits for      *)
(* ticks starts the timer and calls WaitForTick; another thread calls      *)
(* Cancel at any time and Stop once the first one is out of WaitForTick.   *)
(***************************************************************************)
EXTENDS Integers

CONSTANT MaxFired       \* bound: expirations of the timer between two starts

ASSUME TimerConstants == MaxFired \in Nat

VARIABLES
    m_isStarted,        \* the file descriptors are allocated (m_timerFd >= 0)
    m_isRunning,
    m_numCPUOverloads, m_numLostTicks,
    expirations,        \* kernel: expirations not read from m_timerFd
    cancelEvents,       \* kernel: value of the eventfd m_cancelFd
    waiter,             \* WaitForTick(): out, epoll (blocked), read (timer event)
    tickResult,         \* what WaitForTick returned last: 1 tick, 0 end, -1 error
    canceller,          \* Cancel(): idle, writing (m_isRunning exchanged)
    fired,              \* history: expirations since Start
    delivered           \* history: ticks returned since Start

stats == <<m_numCPUOverloads, m_numLostTicks>>
vars == <<m_isStarted, m_isRunning, m_numCPUOverloads, m_numLostTicks, expirations,
          cancelEvents, waiter, tickResult, canceller, fired, delivered>>

Init ==
    /\ m_isStarted = FALSE /\ m_isRunning = FALSE
    /\ m_numCPUOverloads = 0 /\ m_numLostTicks = 0
    /\ expirations = 0 /\ cancelEvents = 0
    /\ waiter = "out" /\ tickResult = 0 /\ canceller = "idle"
    /\ fired = 0 /\ delivered = 0

-----------------------------------------------------------------------------
Startable == ~m_isStarted /\ ~m_isRunning

\* Start() of a timer that is neither started nor running.  Every other Start,
\* and one whose system calls fail, releases what it opened and returns false.
\* m_isRunning is set last, so nobody acts on a timer that is half started.
Start ==
    /\ waiter = "out" /\ Startable
    /\ m_isStarted' = TRUE /\ m_isRunning' = TRUE
    /\ m_numCPUOverloads' = 0 /\ m_numLostTicks' = 0
    /\ expirations' = 0 /\ cancelEvents' = 0
    /\ fired' = 0 /\ delivered' = 0
    /\ UNCHANGED <<waiter, tickResult, canceller>>

\* Kernel: the armed timer expires.
Expire ==
    /\ m_isStarted /\ fired < MaxFired
    /\ expirations' = expirations + 1
    /\ fired' = fired + 1
    /\ UNCHANGED <<m_isStarted, m_isRunning, stats, cancelEvents, waiter, tickResult,
                   canceller, delivered>>

\* Cancel(): the exchange that decides who wakes the waiter ...
CancelExchanges ==
    /\ canceller = "idle" /\ m_isRunning
    /\ m_isRunning' = FALSE
    /\ canceller' = "writing"
    /\ UNCHANGED <<m_isStarted, stats, expirations, cancelEvents, waiter, tickResult,
                   fired, delivered>>

\* Mutant: the wake-up is not written.
CancelForgetsWrite ==
    /\ canceller = "writing"
    /\ canceller' = "idle"
    /\ UNCHANGED <<m_isStarted, m_isRunning, stats, expirations, cancelEvents, waiter,
                   tickResult, fired, delivered>>

\* ... and the write to m_cancelFd.
CancelWrites ==
    /\ canceller = "writing"
    /\ canceller' = "idle"
    /\ cancelEvents' = cancelEvents + 1
    /\ UNCHANGED <<m_isStarted, m_isRunning, stats, expirations, waiter, tickResult,
                   fired, delivered>>

\* Stop() disarms the timer and closes the three descriptors.  It leaves
\* m_isRunning as it is; a timer that is not started it leaves alone.
Stop ==
    /\ waiter = "out" /\ canceller = "idle"
    /\ m_isStarted
    /\ m_isStarted' = FALSE
    /\ expirations' = 0 /\ cancelEvents' = 0
    /\ UNCHANGED <<m_isRunning, stats, waiter, tickResult, canceller, fired, delivered>>

-----------------------------------------------------------------------------
(* WaitForTick()                                                           *)

\* Mutant: the number of expirations is returned, not the fact of a tick.
ReturnsCount(result) ==
    waiter' = "out" /\ tickResult' = IF result = 1 THEN expirations ELSE result
Returns(result) == waiter' = "out" /\ tickResult' = result

\* Not running: 0.  No timer descriptor: -1.
WaitRefused ==
    /\ waiter = "out" /\ (~m_isRunning \/ ~m_isStarted)
    /\ Returns(IF m_isRunning THEN -1 ELSE 0)
    /\ UNCHANGED <<m_isStarted, m_isRunning, stats, expirations, cancelEvents,
                   canceller, fired, delivered>>

WaitBlocks ==
    /\ waiter = "out" /\ m_isRunning /\ m_isStarted
    /\ waiter' = "epoll"
    /\ UNCHANGED <<m_isStarted, m_isRunning, stats, expirations, cancelEvents,
                   tickResult, canceller, fired, delivered>>

\* epoll_wait returns with an event.  The flag is tested before the events are
\* looked at; a cancellation event is never seen with the flag still set.
WaitWakes ==
    /\ waiter = "epoll" /\ (expirations > 0 \/ cancelEvents > 0)
    /\ IF m_isRunning /\ cancelEvents = 0
       THEN waiter' = "read" /\ UNCHANGED tickResult
       ELSE Returns(0)
    /\ UNCHANGED <<m_isStarted, m_isRunning, stats, expirations, cancelEvents,
                   canceller, fired, delivered>>

\* epoll_wait is interrupted by a signal: only a timer that is no longer
\* running makes a difference, the wait is resumed otherwise.
WaitInterrupted ==
    /\ waiter = "epoll" /\ ~m_isRunning
    /\ Returns(0)
    /\ UNCHANGED <<m_isStarted, m_isRunning, stats, expirations, cancelEvents,
                   canceller, fired, delivered>>

\* epoll_wait fails, or read() of the timer does.
WaitFails ==
    /\ waiter \in {"epoll", "read"}
    /\ Returns(IF m_isRunning THEN -1 ELSE 0)
    /\ UNCHANGED <<m_isStarted, m_isRunning, stats, expirations, cancelEvents,
                   canceller, fired, delivered>>

\* Mutant: the tick that is delivered is counted as lost, too.
LostTicksAll(exp) == exp
LostTicks(exp) == exp - 1

Overloaded(exp) == exp > 1

\* read() of the timer returns the expirations since the last read.
ReadTick ==
    /\ waiter = "read"
    /\ IF Overloaded(expirations)
       THEN /\ m_numCPUOverloads' = m_numCPUOverloads + 1
            /\ m_numLostTicks' = m_numLostTicks + LostTicks(expirations)
       ELSE UNCHANGED stats
    /\ expirations' = 0
    /\ IF m_isRunning
       THEN Returns(1) /\ delivered' = delivered + 1
       ELSE Returns(0) /\ UNCHANGED delivered
    /\ UNCHANGED <<m_isStarted, m_isRunning, cancelEvents, canceller, fired>>

-----------------------------------------------------------------------------
Waiter == WaitWakes \/ WaitInterrupted \/ WaitFails \/ ReadTick

Next ==
    \/ Start \/ Expire \/ CancelExchanges \/ CancelWrites \/ Stop
    \/ WaitRefused \/ WaitBlocks \/ Waiter

Spec == Init /\ [][Next]_vars

\* The two threads run.  The kernel need not deliver another expiration, and no
\* signal or error need end a wait.
FairSpec == Spec /\ WF_vars(WaitWakes \/ ReadTick) /\ WF_vars(CancelWrites)

-----------------------------------------------------------------------------
TypeOK ==
    /\ m_isStarted \in BOOLEAN /\ m_isRunning \in BOOLEAN
    /\ m_numCPUOverloads \in Nat /\ m_numLostTicks \in Nat
    /\ expirations \in Nat /\ cancelEvents \in Nat
    /\ waiter \in {"out", "epoll", "read"}
    /\ tickResult \in {-1, 0, 1}
    /\ canceller \in {"idle", "writing"}
    /\ fired \in 0..MaxFired /\ delivered \in Nat

\* Every expiration of the timer is accounted for: it is delivered as a tick,
\* counted as lost, or not read yet.  The one exception is an expiration that
\* is read in the moment the timer is cancelled.  A CPU overload is a wake-up
\* that has lost at least one of them.
TickAccounting ==
    m_isStarted =>
        LET swallowed == fired - (delivered + m_numLostTicks + expirations) IN
        /\ swallowed \in {0, 1}
        /\ m_isRunning => swallowed = 0
        /\ m_numCPUOverloads <= m_numLostTicks
        /\ m_numLostTicks > 0 => m_numCPUOverloads > 0

\* A cancelled wait returns, even if the timer never expires again and even if
\* the cancellation comes before the thread has reached epoll_wait.
CancelWakesWaiter == (waiter # "out" /\ ~m_isRunning) ~> waiter = "out"
====
