----------------------------- MODULE Application -----------------------------
(***************************************************************************)
(* The life of the target application: GenericTarget::Run, Initialize and  *)
(* Terminate (GT_GenericTarget.cpp) with the application socket            *)
(* (GT_AppSocket.cpp), for several processes started on one target.        *)
(*                                                                         *)
(* A process has its main thread, the threads of its scheduler and those   *)
(* of the model's drivers.  Any of them can be inside ShouldTerminate():   *)
(* because the model asked for it or because a signal handler runs there.  *)
(* The scheduler and the drivers appear here by what they promise: when    *)
(* Stop() or SimulinkInterface::Terminate() returns their threads are gone *)
(* (CleanEnd of BaseRateScheduler).                                        *)
(***************************************************************************)
EXTENDS Integers

CONSTANTS
    Process,
    NoProcess,
    MaxRequests     \* bound: ShouldTerminate() calls in the life of a process

ASSUME ApplicationConstants == NoProcess \notin Process /\ MaxRequests \in Nat

Thread == {"main", "scheduler", "driver"}

VARIABLES
    pc,                     \* main thread: the next call of Run()
    handlers,               \* SignalHandler is installed
    m_semaphoreInitialized,
    m_semaphoreTerminate,   \* its value, or Destroyed
    posting,                \* threads between test and sem_post of ShouldTerminate
    requests,               \* history: ShouldTerminate() calls
    socketOwner,            \* kernel: the process that holds the abstract name
    model,                  \* none, initializing, initialized, terminating
    scheduler               \* its threads may run

vars == <<pc, handlers, m_semaphoreInitialized, m_semaphoreTerminate, posting,
          requests, socketOwner, model, scheduler>>
semaphore == <<m_semaphoreInitialized, m_semaphoreTerminate>>
terminating == <<handlers, semaphore, posting, requests>>

Destroyed == -1

Init ==
    /\ pc = [p \in Process |-> "down"]
    /\ handlers = [p \in Process |-> FALSE]
    /\ m_semaphoreInitialized = [p \in Process |-> FALSE]
    /\ m_semaphoreTerminate = [p \in Process |-> Destroyed]
    /\ posting = [p \in Process |-> {}]
    /\ requests = [p \in Process |-> 0]
    /\ socketOwner = NoProcess
    /\ model = [p \in Process |-> "none"]
    /\ scheduler = [p \in Process |-> FALSE]

-----------------------------------------------------------------------------
(* ShouldTerminate(), on every thread.                                     *)

Alive(p) ==
    (IF pc[p] # "down" THEN {"main"} ELSE {})
        \cup (IF scheduler[p] THEN {"scheduler"} ELSE {})
        \cup (IF model[p] # "none" THEN {"driver"} ELSE {})

\* The code itself calls it: a step of the model, a worker or the master in
\* trouble, or a driver that cannot be initialised.
CalledByCode(p, t) ==
    \/ t = "scheduler"
    \/ t = "main" /\ model[p] = "initializing"

\* The flag is tested; a request that comes too late is ignored.
ShouldTerminate(p, t) ==
    /\ t \in Alive(p) \ posting[p] /\ requests[p] < MaxRequests
    /\ handlers[p] \/ CalledByCode(p, t)
    /\ requests' = [requests EXCEPT ![p] = @ + 1]
    /\ posting' = [posting EXCEPT ![p] = IF m_semaphoreInitialized[p] THEN @ \cup {t} ELSE @]
    /\ UNCHANGED <<pc, handlers, semaphore, socketOwner, model, scheduler>>

\* Mutant: a request is posted once for the flag and once for the wait.
PostsTwice(p, t) ==
    /\ t \in posting[p]
    /\ posting' = [posting EXCEPT ![p] = @ \ {t}]
    /\ m_semaphoreTerminate' = [m_semaphoreTerminate EXCEPT ![p] = @ + 2]
    /\ UNCHANGED <<pc, handlers, m_semaphoreInitialized, requests, socketOwner, model,
                   scheduler>>

\* sem_post.
Posts(p, t) ==
    /\ t \in posting[p]
    /\ posting' = [posting EXCEPT ![p] = @ \ {t}]
    /\ m_semaphoreTerminate' = [m_semaphoreTerminate EXCEPT ![p] = @ + 1]
    /\ UNCHANGED <<pc, handlers, m_semaphoreInitialized, requests, socketOwner, model,
                   scheduler>>

-----------------------------------------------------------------------------
(* Run(), on the main thread.                                              *)

\* A signal handler that runs on the main thread suspends it.
At(p, here) == pc[p] = here /\ "main" \notin posting[p]
GoTo(p, there) == pc' = [pc EXCEPT ![p] = there]

Launch(p) ==
    /\ pc[p] = "down" /\ GoTo(p, "boot")
    /\ requests' = [requests EXCEPT ![p] = 0]
    /\ UNCHANGED <<handlers, semaphore, posting, socketOwner, model, scheduler>>

\* The memory cannot be locked or the semaphore not be initialised.
RunRefused(p) ==
    /\ At(p, "boot") /\ GoTo(p, "returned")
    /\ UNCHANGED <<terminating, socketOwner, model, scheduler>>

InitSemaphore(p) ==
    /\ At(p, "boot") /\ GoTo(p, "setHandlers")
    /\ m_semaphoreTerminate' = [m_semaphoreTerminate EXCEPT ![p] = 0]
    /\ m_semaphoreInitialized' = [m_semaphoreInitialized EXCEPT ![p] = TRUE]
    /\ UNCHANGED <<handlers, posting, requests, socketOwner, model, scheduler>>

\* SIGINT and SIGTERM first; a crash handler or the path may fail after them.
SetSignalHandlers(p) ==
    /\ At(p, "setHandlers")
    /\ GoTo(p, "openSocket") \/ GoTo(p, "disable")
    /\ handlers' = [handlers EXCEPT ![p] = TRUE]
    /\ UNCHANGED <<semaphore, posting, requests, socketOwner, model, scheduler>>

\* bind() fails if the name is taken and may fail otherwise; the descriptor,
\* which owns nothing, is closed again.
OpenSocketFails(p) ==
    /\ At(p, "openSocket") /\ GoTo(p, "disable")
    /\ UNCHANGED <<terminating, socketOwner, model, scheduler>>

\* Mutant: the address may be reused.
OpenSocketReuse(p) ==
    /\ At(p, "openSocket") /\ GoTo(p, "initModel")
    /\ socketOwner' = p
    /\ UNCHANGED <<terminating, model, scheduler>>

OpenSocket(p) ==
    /\ At(p, "openSocket") /\ socketOwner = NoProcess /\ GoTo(p, "initModel")
    /\ socketOwner' = p
    /\ UNCHANGED <<terminating, model, scheduler>>

InitModel(p) ==
    /\ At(p, "initModel") /\ GoTo(p, "initReturns")
    /\ model' = [model EXCEPT ![p] = "initializing"]
    /\ UNCHANGED <<terminating, socketOwner, scheduler>>

InitModelReturns(p) ==
    /\ At(p, "initReturns") /\ GoTo(p, "startScheduler")
    /\ model' = [model EXCEPT ![p] = "initialized"]
    /\ UNCHANGED <<terminating, socketOwner, scheduler>>

\* The first thread of the scheduler is created: steps may begin.
StartScheduler(p) ==
    /\ At(p, "startScheduler") /\ GoTo(p, "startReturns")
    /\ scheduler' = [scheduler EXCEPT ![p] = TRUE]
    /\ UNCHANGED <<terminating, socketOwner, model>>

\* Mutant: requests that are older than the scheduler are dropped.
StartDrains(p) ==
    /\ At(p, "startReturns") /\ GoTo(p, "wait")
    /\ m_semaphoreTerminate' = [m_semaphoreTerminate EXCEPT ![p] = 0]
    /\ UNCHANGED <<handlers, m_semaphoreInitialized, posting, requests, socketOwner,
                   model, scheduler>>

StartReturns(p) ==
    /\ At(p, "startReturns") /\ GoTo(p, "wait")
    /\ UNCHANGED <<terminating, socketOwner, model, scheduler>>

\* Threads of the scheduler end when they are out of ShouldTerminate().
SchedulerEnds(p) ==
    /\ "scheduler" \notin posting[p]
    /\ scheduler' = [scheduler EXCEPT ![p] = FALSE]

\* Start() has failed and has stopped the threads it had started.
StartFails(p) ==
    /\ At(p, "startReturns") /\ GoTo(p, "terminateModel")
    /\ SchedulerEnds(p)
    /\ UNCHANGED <<terminating, socketOwner, model>>

\* sem_wait takes a request (a signal interrupts it and it waits again) ...
WaitForTermination(p) ==
    /\ At(p, "wait") /\ m_semaphoreTerminate[p] > 0
    /\ GoTo(p, "stopScheduler")
    /\ m_semaphoreTerminate' = [m_semaphoreTerminate EXCEPT ![p] = @ - 1]
    /\ UNCHANGED <<handlers, m_semaphoreInitialized, posting, requests, socketOwner,
                   model, scheduler>>

\* ... or fails, which ends the application, too.
WaitFails(p) ==
    /\ At(p, "wait") /\ GoTo(p, "stopScheduler")
    /\ UNCHANGED <<terminating, socketOwner, model, scheduler>>

StopScheduler(p) ==
    /\ At(p, "stopScheduler") /\ GoTo(p, "terminateModel")
    /\ SchedulerEnds(p)
    /\ UNCHANGED <<terminating, socketOwner, model>>

TerminateModel(p) ==
    /\ At(p, "terminateModel") /\ GoTo(p, "terminateReturns")
    /\ model' = [model EXCEPT ![p] = "terminating"]
    /\ UNCHANGED <<terminating, socketOwner, scheduler>>

\* Every driver has joined its threads.
TerminateModelReturns(p) ==
    /\ At(p, "terminateReturns") /\ "driver" \notin posting[p]
    /\ GoTo(p, "closeSocket")
    /\ model' = [model EXCEPT ![p] = "none"]
    /\ UNCHANGED <<terminating, socketOwner, scheduler>>

Released(p) == IF socketOwner = p THEN NoProcess ELSE socketOwner

CloseSocket(p) ==
    /\ At(p, "closeSocket") /\ GoTo(p, "disable")
    /\ socketOwner' = Released(p)
    /\ UNCHANGED <<terminating, model, scheduler>>

\* Mutant: the semaphore is destroyed before the flag is cleared.
DisableLate(p) ==
    /\ At(p, "disable") /\ GoTo(p, "destroySemaphore")
    /\ m_semaphoreTerminate' = [m_semaphoreTerminate EXCEPT ![p] = Destroyed]
    /\ UNCHANGED <<handlers, m_semaphoreInitialized, posting, requests, socketOwner,
                   model, scheduler>>

Disable(p) ==
    /\ At(p, "disable") /\ GoTo(p, "destroySemaphore")
    /\ m_semaphoreInitialized' = [m_semaphoreInitialized EXCEPT ![p] = FALSE]
    /\ UNCHANGED <<handlers, m_semaphoreTerminate, posting, requests, socketOwner,
                   model, scheduler>>

DestroySemaphore(p) ==
    /\ At(p, "destroySemaphore") /\ GoTo(p, "returned")
    /\ m_semaphoreTerminate' = [m_semaphoreTerminate EXCEPT ![p] = Destroyed]
    /\ UNCHANGED <<handlers, m_semaphoreInitialized, posting, requests, socketOwner,
                   model, scheduler>>

-----------------------------------------------------------------------------
(* The end of a process.                                                   *)

\* The kernel takes everything back.
Gone(p) ==
    /\ GoTo(p, "down")
    /\ handlers' = [handlers EXCEPT ![p] = FALSE]
    /\ m_semaphoreInitialized' = [m_semaphoreInitialized EXCEPT ![p] = FALSE]
    /\ m_semaphoreTerminate' = [m_semaphoreTerminate EXCEPT ![p] = Destroyed]
    /\ posting' = [posting EXCEPT ![p] = {}]
    /\ socketOwner' = Released(p)
    /\ model' = [model EXCEPT ![p] = "none"]
    /\ scheduler' = [scheduler EXCEPT ![p] = FALSE]
    /\ UNCHANGED requests

Exit(p) == At(p, "returned") /\ Gone(p)

\* A crash (CrashHandler ends with _Exit), SIGKILL, or SIGINT before the
\* handlers are installed.
Crash(p) == pc[p] # "down" /\ Gone(p)

-----------------------------------------------------------------------------
\* What the main thread does on its own; OpenSocketFails is among it because
\* bind() returns, one way or the other.
Main(p) ==
    \/ InitSemaphore(p) \/ RunRefused(p) \/ SetSignalHandlers(p)
    \/ OpenSocket(p) \/ OpenSocketFails(p)
    \/ InitModel(p) \/ InitModelReturns(p)
    \/ StartScheduler(p) \/ StartReturns(p) \/ StartFails(p)
    \/ WaitForTermination(p) \/ StopScheduler(p)
    \/ TerminateModel(p) \/ TerminateModelReturns(p) \/ CloseSocket(p)
    \/ Disable(p) \/ DestroySemaphore(p) \/ Exit(p)

Next == \E p \in Process :
    \/ Launch(p) \/ Main(p) \/ WaitFails(p) \/ Crash(p)
    \/ \E t \in Thread : ShouldTerminate(p, t) \/ Posts(p, t)

Spec == Init /\ [][Next]_vars

\* Threads run, and the steps, initialisation and termination of the model
\* return.  Nobody need start, signal or crash a process.
FairSpec ==
    /\ Spec
    /\ \A p \in Process :
         /\ WF_vars(Main(p))
         /\ \A t \in Thread : WF_vars(Posts(p, t))

-----------------------------------------------------------------------------
TypeOK ==
    /\ pc \in [Process -> {"down", "boot", "setHandlers", "openSocket", "initModel",
                           "initReturns", "startScheduler", "startReturns", "wait",
                           "stopScheduler", "terminateModel", "terminateReturns",
                           "closeSocket", "disable", "destroySemaphore", "returned"}]
    /\ handlers \in [Process -> BOOLEAN]
    /\ m_semaphoreInitialized \in [Process -> BOOLEAN]
    /\ m_semaphoreTerminate \in [Process -> Destroyed..MaxRequests]
    /\ posting \in [Process -> SUBSET Thread]
    /\ requests \in [Process -> 0..MaxRequests]
    /\ socketOwner \in Process \cup {NoProcess}
    /\ model \in [Process -> {"none", "initializing", "initialized", "terminating"}]
    /\ scheduler \in [Process -> BOOLEAN]

\* Two processes on one target never have the model at the same time, from
\* the first call of its initialisation to the last of its termination,
\* however processes are started, stopped and crash; and none whose Run() has
\* returned, wherever it failed, or that is gone keeps the others from it.
OneModelOnTarget ==
    /\ \A p, q \in Process : model[p] # "none" /\ model[q] # "none" => p = q
    /\ \A p \in Process :
         pc[p] \in {"returned", "down"} => model[p] = "none" /\ socketOwner # p

\* No thread posts a semaphore that is not initialised or already destroyed,
\* although the test of m_semaphoreInitialized and the sem_post are apart: the
\* threads that could be caught in between are gone by then.
PostsReachSemaphore ==
    \A p \in Process : posting[p] # {} => m_semaphoreTerminate[p] # Destroyed

\* Wherever Run() returns from, it has undone what it did: the model is
\* terminated, no other thread is left, the name and the semaphore are free.
RunCleansUp ==
    \A p \in Process : pc[p] = "returned" =>
        /\ Alive(p) = {"main"} /\ posting[p] = {}
        /\ socketOwner # p
        /\ m_semaphoreTerminate[p] = Destroyed

\* A termination request is never lost, even one that is made while the model
\* is being initialised or the scheduler being started: the process ends.
RequestEndsProcess ==
    \A p \in Process :
        (m_semaphoreTerminate[p] > 0 \/ posting[p] # {}) ~> pc[p] = "down"
====
