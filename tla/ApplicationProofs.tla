-------------------------- MODULE ApplicationProofs --------------------------
(***************************************************************************)
(* What a target can rely on, for any number of processes that are started *)
(* on it, any number of requests, and crashes at every point of Run().     *)
(***************************************************************************)
EXTENDS Application, FiniteSetTheorems, TLAPS

(* The calls of Run() between which a process has something.               *)
HasModel == {"initReturns", "startScheduler", "startReturns", "wait", "stopScheduler",
             "terminateModel", "terminateReturns"}
HasName == HasModel \cup {"initModel", "closeSocket"}
HasScheduler == {"startReturns", "wait", "stopScheduler"}
TakesRequests == HasName \cup {"setHandlers", "openSocket", "disable"}
HasSemaphore == TakesRequests \cup {"destroySemaphore"}

\* What a process has follows from where its main thread is; in particular it
\* has the model only while it owns the name of the socket, and the semaphore
\* is there for longer than the flag says.
PhaseInv(p) ==
    /\ socketOwner = p <=> pc[p] \in HasName
    /\ model[p] # "none" => pc[p] \in HasModel
    /\ scheduler[p] => pc[p] \in HasScheduler
    /\ m_semaphoreInitialized[p] => pc[p] \in TakesRequests
    /\ m_semaphoreTerminate[p] = Destroyed <=> pc[p] \notin HasSemaphore

\* Who is about to post still runs, so the main thread has not passed the call
\* that waits for it to end.
PostingInv(p) ==
    /\ "main" \in posting[p] => pc[p] \in TakesRequests
    /\ "scheduler" \in posting[p] => scheduler[p]
    /\ "driver" \in posting[p] => model[p] # "none"

\* The semaphore counts requests, each of them once.
RequestsInv(p) == m_semaphoreTerminate[p] + Cardinality(posting[p]) <= requests[p]

ProcessInv(p) == PhaseInv(p) /\ PostingInv(p) /\ RequestsInv(p)

IInv == TypeOK /\ \A p \in Process : ProcessInv(p)

Step(p) ==
    \/ Launch(p) \/ Main(p) \/ WaitFails(p) \/ Crash(p)
    \/ \E t \in Thread : ShouldTerminate(p, t) \/ Posts(p, t)

-----------------------------------------------------------------------------
\* The threads between test and sem_post are few, so they can be counted.
LEMMA FinitePosting ==
  ASSUME TypeOK, NEW p \in Process
  PROVE  IsFiniteSet(posting[p]) /\ Cardinality(posting[p]) \in Nat
  <1>1. IsFiniteSet(Thread)
    <2>1. IsFiniteSet({"main"}) /\ IsFiniteSet({"scheduler"}) /\ IsFiniteSet({"driver"})
          BY FS_Singleton
    <2>2. IsFiniteSet({"main"} \cup {"scheduler"})  BY <2>1, FS_Union
    <2>3. IsFiniteSet(({"main"} \cup {"scheduler"}) \cup {"driver"})
          BY <2>1, <2>2, FS_Union
    <2>4. Thread = ({"main"} \cup {"scheduler"}) \cup {"driver"}  BY DEF Thread
    <2>5. QED  BY <2>3, <2>4
  <1>2. posting[p] \subseteq Thread  BY DEF TypeOK
  <1>3. QED  BY <1>1, <1>2, FS_Subset, FS_CardinalityType

LEMMA InitIInv == Init => IInv
  <1> SUFFICES ASSUME Init PROVE IInv
      OBVIOUS
  <1>1. 0 \in 0..MaxRequests /\ Destroyed \in Destroyed..MaxRequests
        BY ApplicationConstants DEF Destroyed
  <1>2. TypeOK  BY <1>1 DEF Init, TypeOK
  <1>3. ASSUME NEW p \in Process PROVE ProcessInv(p)
    <2>1. PhaseInv(p)
          BY ApplicationConstants
          DEF Init, PhaseInv, HasModel, HasName, HasScheduler, TakesRequests, HasSemaphore
    <2>2. PostingInv(p)  BY DEF Init, PostingInv
    <2>3. RequestsInv(p)  BY FS_EmptySet DEF Init, RequestsInv, Destroyed
    <2>4. QED  BY <2>1, <2>2, <2>3 DEF ProcessInv
  <1>4. QED  BY <1>2, <1>3 DEF IInv

-----------------------------------------------------------------------------
\* The number of threads about to post goes up and down with ShouldTerminate().
LEMMA PostingCounts ==
  ASSUME TypeOK, NEW p \in Process, NEW t \in Thread
  PROVE  /\ t \notin posting[p] =>
              Cardinality(posting[p] \cup {t}) = Cardinality(posting[p]) + 1
         /\ t \in posting[p] =>
              Cardinality(posting[p] \ {t}) = Cardinality(posting[p]) - 1
  BY FinitePosting, FS_AddElement, FS_RemoveElement

\* A step of one process leaves the others what they have: it takes the name
\* only when it is free and gives back only its own.
LEMMA OthersKeepInv ==
  ASSUME IInv, NEW p \in Process, Step(p), NEW q \in Process, q # p
  PROVE  ProcessInv(q)'
  <1>1. /\ pc'[q] = pc[q] /\ model'[q] = model[q] /\ scheduler'[q] = scheduler[q]
        /\ m_semaphoreInitialized'[q] = m_semaphoreInitialized[q]
        /\ m_semaphoreTerminate'[q] = m_semaphoreTerminate[q]
        /\ posting'[q] = posting[q] /\ requests'[q] = requests[q]
    <2> USE DEF IInv, TypeOK, GoTo, At, terminating, semaphore
    <2>1. CASE Launch(p) \/ InitSemaphore(p) \/ RunRefused(p) \/ SetSignalHandlers(p)
          BY <2>1 DEF Launch, InitSemaphore, RunRefused, SetSignalHandlers
    <2>2. CASE OpenSocket(p) \/ OpenSocketFails(p) \/ CloseSocket(p)
          BY <2>2 DEF OpenSocket, OpenSocketFails, CloseSocket
    <2>3. CASE InitModel(p) \/ InitModelReturns(p) \/ TerminateModel(p)
                 \/ TerminateModelReturns(p)
          BY <2>3 DEF InitModel, InitModelReturns, TerminateModel, TerminateModelReturns
    <2>4. CASE StartScheduler(p) \/ StartReturns(p) \/ StartFails(p) \/ StopScheduler(p)
          BY <2>4 DEF StartScheduler, StartReturns, StartFails, StopScheduler, SchedulerEnds
    <2>5. CASE WaitForTermination(p) \/ WaitFails(p)
          BY <2>5 DEF WaitForTermination, WaitFails
    <2>6. CASE Disable(p) \/ DestroySemaphore(p)
          BY <2>6 DEF Disable, DestroySemaphore
    <2>7. CASE Exit(p) \/ Crash(p)
          BY <2>7 DEF Exit, Crash, Gone
    <2>8. ASSUME NEW t \in Thread, ShouldTerminate(p, t) \/ Posts(p, t)
          PROVE  /\ pc'[q] = pc[q] /\ model'[q] = model[q] /\ scheduler'[q] = scheduler[q]
                 /\ m_semaphoreInitialized'[q] = m_semaphoreInitialized[q]
                 /\ m_semaphoreTerminate'[q] = m_semaphoreTerminate[q]
                 /\ posting'[q] = posting[q] /\ requests'[q] = requests[q]
          BY <2>8 DEF ShouldTerminate, Posts
    <2>9. QED  BY <2>1, <2>2, <2>3, <2>4, <2>5, <2>6, <2>7, <2>8 DEF Step, Main
  <1>2. socketOwner' = q <=> socketOwner = q
    <2>1. UNCHANGED socketOwner \/ OpenSocket(p) \/ socketOwner' = Released(p)
          BY DEF Step, Main, Launch, InitSemaphore, RunRefused, SetSignalHandlers,
                 OpenSocketFails, CloseSocket, InitModel, InitModelReturns, TerminateModel,
                 TerminateModelReturns, StartScheduler, StartReturns, StartFails,
                 StopScheduler, WaitForTermination, WaitFails, Disable, DestroySemaphore,
                 Exit, Crash, Gone, ShouldTerminate, Posts
    <2>2. QED  BY <2>1, ApplicationConstants DEF OpenSocket, Released
  <1>3. ProcessInv(q)  BY DEF IInv
  <1>4. PhaseInv(q)'  BY <1>1, <1>2, <1>3 DEF ProcessInv, PhaseInv
  <1>5. PostingInv(q)'  BY <1>1, <1>3 DEF ProcessInv, PostingInv
  <1>6. RequestsInv(q)'  BY <1>1, <1>3 DEF ProcessInv, RequestsInv
  <1>7. QED  BY <1>4, <1>5, <1>6 DEF ProcessInv

-----------------------------------------------------------------------------
\* The threads that ask for termination: what they post is there, and they
\* exist.
LEMMA RequestsKeepInv ==
  ASSUME IInv, NEW p \in Process, NEW t \in Thread, ShouldTerminate(p, t) \/ Posts(p, t)
  PROVE  TypeOK' /\ ProcessInv(p)'
  <1>1. TypeOK /\ ProcessInv(p)  BY DEF IInv
  <1>2. Cardinality(posting[p]) \in Nat  BY <1>1, FinitePosting
  <1> USE <1>1, <1>2 DEF TypeOK, ProcessInv, semaphore
  <1>3. CASE ShouldTerminate(p, t)
    <2> USE <1>3 DEF ShouldTerminate
    <2>1. requests[p] + 1 \in 0..MaxRequests
          BY ApplicationConstants
    <2>2. TypeOK'  BY <2>1
    <2>3. PhaseInv(p)'  BY DEF PhaseInv
    <2>4. PostingInv(p)'
          BY DEF PostingInv, PhaseInv, Alive
    <2>5. RequestsInv(p)'
      <3>1. CASE m_semaphoreInitialized[p]
        <4>1. posting'[p] = posting[p] \cup {t} /\ requests'[p] = requests[p] + 1
              BY <3>1
        <4>2. m_semaphoreTerminate'[p] = m_semaphoreTerminate[p]  OBVIOUS
        <4>3. Cardinality(posting'[p]) = Cardinality(posting[p]) + 1
              BY <4>1, PostingCounts
        <4>4. QED  BY <4>1, <4>2, <4>3 DEF RequestsInv, Destroyed
      <3>2. CASE ~m_semaphoreInitialized[p]
        <4>1. posting'[p] = posting[p] /\ requests'[p] = requests[p] + 1
              BY <3>2
        <4>2. m_semaphoreTerminate'[p] = m_semaphoreTerminate[p]  OBVIOUS
        <4>3. QED  BY <4>1, <4>2 DEF RequestsInv, Destroyed
      <3>3. QED  BY <3>1, <3>2
    <2>6. QED  BY <2>2, <2>3, <2>4, <2>5
  <1>4. CASE Posts(p, t)
    <2> USE <1>4 DEF Posts
    <2>1. pc[p] \in TakesRequests
          BY DEF PostingInv, PhaseInv, Thread, TakesRequests, HasName, HasModel, HasScheduler
    <2>2. m_semaphoreTerminate[p] # Destroyed
          BY <2>1 DEF PhaseInv, HasSemaphore
    <2>3. Cardinality(posting'[p]) = Cardinality(posting[p]) - 1
          BY PostingCounts
    <2>4. /\ m_semaphoreTerminate'[p] = m_semaphoreTerminate[p] + 1
          /\ requests'[p] = requests[p] /\ posting'[p] = posting[p] \ {t}
          OBVIOUS
    <2>5. RequestsInv(p)'  BY <2>3, <2>4 DEF RequestsInv, Destroyed
    <2>6. m_semaphoreTerminate[p] + 1 \in Destroyed..MaxRequests
      <3>1. Cardinality(posting'[p]) \in Nat
            BY <2>4, FinitePosting, FS_RemoveElement, FS_CardinalityType
      <3>2. QED  BY <2>3, <3>1, ApplicationConstants DEF RequestsInv, Destroyed
    <2>7. TypeOK'  BY <2>6
    <2>8. PhaseInv(p)'
          BY <2>2, <2>4, <2>1 DEF PhaseInv, Destroyed, HasSemaphore
    <2>9. PostingInv(p)'  BY <2>4 DEF PostingInv
    <2>10. QED  BY <2>5, <2>7, <2>8, <2>9
  <1>5. QED  BY <1>3, <1>4

\* The end of a process leaves nothing behind.
LEMMA EndKeepsInv ==
  ASSUME IInv, NEW p \in Process, Exit(p) \/ Crash(p)
  PROVE  TypeOK' /\ ProcessInv(p)'
  <1> USE DEF IInv, TypeOK, Exit, Crash, Gone, GoTo
  <1>1. Destroyed \in Destroyed..MaxRequests
        BY ApplicationConstants DEF Destroyed
  <1>2. TypeOK'
    <2>1. socketOwner' \in Process \cup {NoProcess}  BY DEF Released
    <2>2. posting' \in [Process -> SUBSET Thread]  OBVIOUS
    <2>3. m_semaphoreTerminate' \in [Process -> Destroyed..MaxRequests]  BY <1>1
    <2>4. QED  BY <2>1, <2>2, <2>3
  <1>3. PhaseInv(p)'
        BY ApplicationConstants
        DEF Released, PhaseInv, HasModel, HasName, HasScheduler, TakesRequests, HasSemaphore
  <1>4. PostingInv(p)'  BY DEF PostingInv
  <1>5. RequestsInv(p)'
    <2>1. posting'[p] = {} /\ m_semaphoreTerminate'[p] = -1 /\ requests'[p] \in Nat
          BY DEF Destroyed
    <2>2. QED  BY <2>1, FS_EmptySet DEF RequestsInv
  <1>6. QED  BY <1>2, <1>3, <1>4, <1>5 DEF ProcessInv

\* The main thread moves on: what the next phase is to have is there, and the
\* threads it has waited for are gone.
LEMMA MainKeepsInv ==
  ASSUME IInv, NEW p \in Process, Launch(p) \/ Main(p) \/ WaitFails(p)
  PROVE  TypeOK' /\ ProcessInv(p)'
  <1>1. TypeOK /\ ProcessInv(p)  BY DEF IInv
  <1>2. Cardinality(posting[p]) \in Nat  BY <1>1, FinitePosting
  <1>3. 0 \in 0..MaxRequests /\ 0 \in Destroyed..MaxRequests
        /\ Destroyed \in Destroyed..MaxRequests
        BY ApplicationConstants DEF Destroyed
  <1> USE <1>1 DEF TypeOK, ProcessInv, PhaseInv, PostingInv, terminating, semaphore, At,
                   GoTo, HasModel, HasName, HasScheduler, TakesRequests, HasSemaphore
  <1>4. CASE Launch(p)
    <2> USE <1>4 DEF Launch
    <2>1. posting[p] = {} /\ m_semaphoreTerminate[p] = Destroyed
          BY DEF Thread
    <2>2. TypeOK'  BY <1>3
    <2>3. PhaseInv(p)' /\ PostingInv(p)'  BY <2>1
    <2>4. RequestsInv(p)'
      <3>1. posting'[p] = {} /\ m_semaphoreTerminate'[p] = -1 /\ requests'[p] = 0
            BY <2>1 DEF Destroyed
      <3>2. QED  BY <3>1, FS_EmptySet DEF RequestsInv
    <2>5. QED  BY <2>2, <2>3, <2>4
  <1>5. CASE InitSemaphore(p)
    <2> USE <1>5 DEF InitSemaphore
    <2>1. posting[p] = {}  BY DEF Thread
    <2>2. TypeOK'  BY <1>3
    <2>3. PhaseInv(p)' /\ PostingInv(p)'  BY <2>1 DEF Destroyed
    <2>4. RequestsInv(p)'
      <3>1. posting'[p] = {} /\ m_semaphoreTerminate'[p] = 0 /\ requests'[p] \in Nat
            BY <2>1
      <3>2. QED  BY <3>1, FS_EmptySet DEF RequestsInv
    <2>5. QED  BY <2>2, <2>3, <2>4
  <1>6. CASE WaitForTermination(p)
    <2> USE <1>6 DEF WaitForTermination
    <2>1. /\ m_semaphoreTerminate'[p] = m_semaphoreTerminate[p] - 1
          /\ posting'[p] = posting[p] /\ requests'[p] = requests[p]
          OBVIOUS
    <2>2. m_semaphoreTerminate[p] - 1 \in Destroyed..MaxRequests
          BY ApplicationConstants DEF Destroyed
    <2>3. TypeOK'  BY <2>2
    <2>4. PhaseInv(p)' /\ PostingInv(p)'  BY DEF Destroyed
    <2>5. RequestsInv(p)'  BY <1>2, <2>1 DEF RequestsInv, Destroyed
    <2>6. QED  BY <2>3, <2>4, <2>5
  <1>7. CASE DestroySemaphore(p)
    <2> USE <1>7 DEF DestroySemaphore
    <2>1. TypeOK'  BY <1>3
    <2>2. PhaseInv(p)' /\ PostingInv(p)'  OBVIOUS
    <2>3. RequestsInv(p)'
      <3>1. /\ m_semaphoreTerminate'[p] = -1 /\ m_semaphoreTerminate[p] >= -1
            /\ posting'[p] = posting[p] /\ requests'[p] = requests[p]
            BY DEF Destroyed
      <3>2. QED  BY <1>2, <3>1 DEF RequestsInv, Destroyed
    <2>4. QED  BY <2>1, <2>2, <2>3
  <1>8. CASE Exit(p)
        BY <1>8, EndKeepsInv
  <1>9. ASSUME UNCHANGED <<m_semaphoreTerminate, posting, requests>> PROVE RequestsInv(p)'
        BY <1>9 DEF RequestsInv
  <1>10. CASE RunRefused(p) \/ SetSignalHandlers(p) \/ WaitFails(p) \/ Disable(p)
    <2>1. CASE RunRefused(p) \/ WaitFails(p)
          BY <1>9, <2>1 DEF RunRefused, WaitFails
    <2>2. CASE SetSignalHandlers(p)
          BY <1>9, <2>2 DEF SetSignalHandlers
    <2>3. CASE Disable(p)
          BY <1>9, <2>3 DEF Disable
    <2>4. QED  BY <1>10, <2>1, <2>2, <2>3
  <1>11. CASE OpenSocket(p) \/ OpenSocketFails(p) \/ CloseSocket(p)
         BY <1>9, <1>11, ApplicationConstants
         DEF OpenSocket, OpenSocketFails, CloseSocket, Released
  <1>12. CASE InitModel(p) \/ InitModelReturns(p)
         BY <1>9, <1>12 DEF InitModel, InitModelReturns
  <1>13. CASE TerminateModel(p) \/ TerminateModelReturns(p)
         BY <1>9, <1>13 DEF TerminateModel, TerminateModelReturns
  <1>14. CASE StartScheduler(p) \/ StartReturns(p)
         BY <1>9, <1>14 DEF StartScheduler, StartReturns
  <1>15. CASE StartFails(p) \/ StopScheduler(p)
         BY <1>9, <1>15 DEF StartFails, StopScheduler, SchedulerEnds
  <1>16. QED  BY <1>4, <1>5, <1>6, <1>7, <1>8, <1>10, <1>11, <1>12, <1>13, <1>14, <1>15
              DEF Main

LEMMA Inductive == IInv /\ [Next]_vars => IInv'
  <1> SUFFICES ASSUME IInv, [Next]_vars PROVE IInv'
      OBVIOUS
  <1>1. ASSUME NEW p \in Process, Step(p) PROVE IInv'
    <2>1. TypeOK' /\ ProcessInv(p)'
          BY <1>1, RequestsKeepInv, MainKeepsInv, EndKeepsInv DEF Step
    <2>2. \A q \in Process : q # p => ProcessInv(q)'
          BY <1>1, OthersKeepInv
    <2>3. QED  BY <2>1, <2>2 DEF IInv
  <1>2. CASE UNCHANGED vars
        BY <1>2 DEF vars, IInv, TypeOK, ProcessInv, PhaseInv, PostingInv, RequestsInv
  <1>3. QED  BY <1>1, <1>2 DEF Next, Step

LEMMA AlwaysIInv == Spec => []IInv
  BY InitIInv, Inductive, PTL DEF Spec

\* The variables of every process keep their types; in particular the
\* semaphore holds no more than was asked for.
THEOREM TypeCorrect == Spec => []TypeOK
  <1>1. IInv => TypeOK  BY DEF IInv
  <1>2. QED  BY <1>1, AlwaysIInv, PTL

\* On one target only one process has the model at any time, however many are
\* started and wherever they fail, are stopped or crash, and the name is free
\* again when one has returned from Run() or is gone.
THEOREM ModelIsExclusive == Spec => []OneModelOnTarget
  <1>1. IInv => OneModelOnTarget
        BY DEF IInv, ProcessInv, PhaseInv, HasName, HasModel, HasScheduler, OneModelOnTarget
  <1>2. QED  BY <1>1, AlwaysIInv, PTL

\* sem_post of a request always meets a live semaphore, although Run() destroys
\* it with no more than a flag cleared before.
THEOREM SemaphoreOutlivesRequests == Spec => []PostsReachSemaphore
  <1>1. IInv => PostsReachSemaphore
        BY DEF IInv, TypeOK, ProcessInv, PhaseInv, PostingInv, Thread, HasSemaphore,
               TakesRequests, HasName, HasModel, HasScheduler, PostsReachSemaphore
  <1>2. QED  BY <1>1, AlwaysIInv, PTL

\* Wherever Run() returns from, nothing of the process is left but the thread
\* that returns.
THEOREM RunLeavesNothing == Spec => []RunCleansUp
  <1>1. IInv => RunCleansUp
        BY DEF IInv, TypeOK, ProcessInv, PhaseInv, PostingInv, Thread, HasSemaphore,
               TakesRequests, HasName, HasModel, HasScheduler, RunCleansUp, Alive
  <1>2. QED  BY <1>1, AlwaysIInv, PTL
====
