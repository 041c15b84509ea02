------------------------- MODULE PeriodicTimerProofs -------------------------
(***************************************************************************)
(* The accounts of the master clock, for any number of expirations, starts *)
(* and cancellations.                                                      *)
(***************************************************************************)
EXTENDS PeriodicTimer, TLAPS

\* Expirations that neither the counters nor the kernel know of.
Swallowed == fired - (delivered + m_numLostTicks + expirations)

\* A thread inside WaitForTick() keeps the timer from being stopped, and goes
\* on to read() only when there is something to read.
WaiterInv ==
    /\ waiter # "out" => m_isStarted
    /\ waiter = "read" => expirations > 0

\* The books balance until a cancelled waiter leaves with what it has read,
\* and it leaves a clock that is not running for somebody to wait on.
BalanceInv ==
    m_isStarted =>
        /\ Swallowed \in {0, 1}
        /\ Swallowed = 1 => ~m_isRunning /\ waiter = "out"

\* Lost ticks come with overloads, at least one with each.
OverloadInv ==
    /\ m_numCPUOverloads <= m_numLostTicks
    /\ m_numLostTicks > 0 => m_numCPUOverloads > 0

IInv == TypeOK /\ WaiterInv /\ BalanceInv /\ OverloadInv

-----------------------------------------------------------------------------
LEMMA InitIInv == Init => IInv
  <1> SUFFICES ASSUME Init PROVE IInv
      OBVIOUS
  <1>1. TypeOK
    <2>1. 0 \in 0..MaxFired  BY TimerConstants
    <2>2. m_isStarted \in BOOLEAN /\ m_isRunning \in BOOLEAN  BY DEF Init
    <2>3. QED  BY <2>1, <2>2 DEF Init, TypeOK
  <1>2. WaiterInv /\ BalanceInv /\ OverloadInv
        BY DEF Init, WaiterInv, BalanceInv, OverloadInv
  <1>3. QED  BY <1>1, <1>2 DEF IInv

\* The thread that waits: only read() moves expirations between the accounts.
LEMMA WaiterKeepsIInv ==
  ASSUME IInv, WaitRefused \/ WaitBlocks \/ Waiter
  PROVE  IInv'
  <1> USE DEF IInv, TypeOK, WaiterInv, BalanceInv, Swallowed, OverloadInv, stats,
              Returns
  <1>1. CASE WaitRefused \/ WaitBlocks
        BY <1>1 DEF WaitRefused, WaitBlocks
  <1>2. CASE WaitWakes
        BY <1>2 DEF WaitWakes
  <1>3. CASE WaitInterrupted \/ WaitFails
        BY <1>3 DEF WaitInterrupted, WaitFails
  <1>4. CASE ReadTick
    <2> USE <1>4 DEF ReadTick, Overloaded, LostTicks
    <2>1. m_isStarted /\ m_isStarted' /\ expirations > 0 /\ Swallowed = 0
          OBVIOUS
    <2>2. TypeOK' BY <2>1
    <2>3. WaiterInv' BY <2>1
    <2>4. OverloadInv' BY <2>1
    <2>5. BalanceInv' BY <2>1
    <2>6. QED  BY <2>2, <2>3, <2>4, <2>5
  <1>5. QED  BY <1>1, <1>2, <1>3, <1>4 DEF Waiter

LEMMA Inductive == IInv /\ [Next]_vars => IInv'
  <1> SUFFICES ASSUME IInv, [Next]_vars PROVE IInv'
      OBVIOUS
  <1> USE DEF IInv, TypeOK, WaiterInv, BalanceInv, Swallowed, OverloadInv, stats
  <1>1. CASE Start
    <2> USE <1>1 DEF Start, Startable
    <2>1. TypeOK'  BY TimerConstants
    <2>2. WaiterInv' /\ BalanceInv' /\ OverloadInv'  OBVIOUS
    <2>3. QED  BY <2>1, <2>2
  <1>2. CASE Expire
        BY <1>2, TimerConstants DEF Expire
  <1>3. CASE CancelExchanges \/ CancelWrites
    <2>1. CASE CancelExchanges
      <3> USE <2>1 DEF CancelExchanges
      <3>1. TypeOK' /\ WaiterInv' /\ OverloadInv'  OBVIOUS
      <3>2. BalanceInv'  OBVIOUS
      <3>3. QED  BY <3>1, <3>2
    <2>2. CASE CancelWrites
          BY <2>2 DEF CancelWrites
    <2>3. QED  BY <1>3, <2>1, <2>2
  <1>4. CASE Stop
        BY <1>4 DEF Stop
  <1>5. CASE WaitRefused \/ WaitBlocks \/ Waiter
        BY <1>5, WaiterKeepsIInv
  <1>6. CASE UNCHANGED vars
        BY <1>6 DEF vars
  <1>7. QED  BY <1>1, <1>2, <1>3, <1>4, <1>5, <1>6 DEF Next

LEMMA AlwaysIInv == Spec => []IInv
  <1>1. QED  BY InitIInv, Inductive, PTL DEF Spec

\* The counters of the clock and of the kernel keep their types; none of them
\* ever goes below zero, and WaitForTick returns nothing but 1, 0 and -1.
THEOREM TypeCorrect == Spec => []TypeOK
  <1>1. IInv => TypeOK  BY DEF IInv
  <1>2. QED  BY <1>1, AlwaysIInv, PTL

\* No expiration of the timer is lost without a trace, but for the ones that
\* are read in the moment of a cancellation, however ticks, restarts and
\* cancellations mix.
THEOREM TicksAreAccounted == Spec => []TickAccounting
  <1>1. IInv => TickAccounting
        BY DEF IInv, BalanceInv, OverloadInv, Swallowed, TickAccounting
  <1>2. QED  BY <1>1, AlwaysIInv, PTL
====
