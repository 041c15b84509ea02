-------------------------- MODULE BaseRateScheduler --------------------------
(***************************************************************************)
(* GT_BaseRateScheduler.cpp: the main thread starts one worker per task    *)
(* and then the master thread, which waits for the ticks of the master     *)
(* clock and passes each one on to all tasks in order.  Stopping cancels   *)
(* the clock, joins the master and then stops and deletes the workers.     *)
(*                                                                         *)
(* The tasks are those of PeriodicTask and the clock that of               *)
(* PeriodicTimer; "main" and "master" are the program counters of the two  *)
(* threads that use them.                                                  *)
(***************************************************************************)
EXTENDS Integers

CONSTANTS
    NumTasks,       \* SIMULINK_INTERFACE_NUM_TIMINGS
    SampleTicks, OffsetTicks,
    MaxTicks,       \* bound: ticks the master passes on
    MaxFired        \* bound: expirations of the clock

Task == 0..(NumTasks - 1)

ASSUME SchedulerConstants ==
    /\ NumTasks \in Nat \ {0}
    /\ SampleTicks \in [Task -> Nat \ {0}]
    /\ OffsetTicks \in [Task -> Nat]
    /\ MaxTicks \in Nat /\ MaxFired \in Nat /\ MaxFired <= MaxTicks

VARIABLES
    \* the tasks
    m_started, m_terminate, m_jobPendingOrRunning, m_numTaskOverloads,
    m_ticks, m_offsetSamples, m_sem, thread, caller, posting,
    shouldTerminate, notified, completed,
    \* the master clock
    m_isStarted, m_isRunning, m_numCPUOverloads, m_numLostTicks, expirations,
    cancelEvents, waiter, tickResult, canceller, fired, delivered,
    \* the scheduler
    masterTerminate,    \* BaseRateScheduler::m_terminate
    numTasks,           \* m_tasks.size()
    main, master,       \* program counters
    mainTask,           \* index of the loop main is in
    masterTask,         \* index of the task the master notifies next
    startOK,            \* no step of Start() has failed
    lateSteps           \* history: steps begun since the master was joined

taskVars == <<m_started, m_terminate, m_jobPendingOrRunning, m_numTaskOverloads,
              m_ticks, m_offsetSamples, m_sem, thread, caller, posting,
              notified, completed>>
clockVars == <<m_isStarted, m_isRunning, m_numCPUOverloads, m_numLostTicks,
               expirations, cancelEvents, waiter, tickResult, canceller, fired,
               delivered>>
mainVars == <<numTasks, main, mainTask, startOK>>
masterVars == <<master, masterTask>>
vars == <<taskVars, shouldTerminate, clockVars, mainVars, masterVars,
          masterTerminate, lateSteps>>

Workers == INSTANCE PeriodicTask
Clock == INSTANCE PeriodicTimer

Init ==
    /\ Workers!Init /\ Clock!Init
    /\ masterTerminate = FALSE /\ numTasks = 0
    /\ main = "startWorkers" /\ mainTask = 0 /\ startOK = TRUE
    /\ master = "none" /\ masterTask = 0
    /\ lateSteps = [i \in Task |-> 0]

-----------------------------------------------------------------------------
(* Main thread: Start().  m_started of the scheduler is main = "running".  *)

\* StartWorkerThreads: the task is appended to m_tasks; it starts, ...
StartWorker ==
    /\ main = "startWorkers" /\ mainTask < NumTasks
    /\ numTasks' = numTasks + 1
    /\ Workers!Start(mainTask)
    /\ mainTask' = mainTask + 1
    /\ UNCHANGED <<clockVars, main, startOK, masterVars, masterTerminate, lateSteps>>

\* Mutant: a task without a semaphore is appended and tried again.
StartWorkerRetries ==
    /\ main = "startWorkers" /\ mainTask < NumTasks
    /\ numTasks' = numTasks + 1
    /\ UNCHANGED <<taskVars, shouldTerminate, clockVars, main, startOK, mainTask,
                   masterVars, masterTerminate, lateSteps>>

\* ... or has no semaphore, ...
StartWorkerFails ==
    /\ main = "startWorkers" /\ mainTask < NumTasks
    /\ numTasks' = numTasks + 1
    /\ startOK' = FALSE
    /\ mainTask' = mainTask + 1
    /\ UNCHANGED <<taskVars, shouldTerminate, clockVars, main, masterVars,
                   masterTerminate, lateSteps>>

\* ... or cannot have its priority, and is stopped again.
StartWorkerNoPriority ==
    /\ main = "startWorkers" /\ mainTask < NumTasks
    /\ numTasks' = numTasks + 1
    /\ Workers!Start(mainTask)
    /\ startOK' = FALSE
    /\ main' = "undoStart"
    /\ UNCHANGED <<clockVars, mainTask, masterVars, masterTerminate, lateSteps>>

UndoStart ==
    /\ main = "undoStart"
    /\ \/ Workers!StopBegins(mainTask) /\ UNCHANGED <<main, mainTask>>
       \/ Workers!StopPosts(mainTask) /\ UNCHANGED <<main, mainTask>>
       \/ Workers!StopJoins(mainTask) /\ main' = "startWorkers" /\ mainTask' = mainTask + 1
    /\ UNCHANGED <<clockVars, numTasks, startOK, masterVars, masterTerminate, lateSteps>>

\* All tasks have been tried: go on with the master, or undo.
WorkersStarted ==
    /\ main = "startWorkers" /\ mainTask = NumTasks
    /\ main' = IF startOK THEN "startMaster" ELSE "stopWorkers"
    /\ mainTask' = 0
    /\ UNCHANGED <<taskVars, shouldTerminate, clockVars, numTasks, startOK, masterVars,
                   masterTerminate, lateSteps>>

\* StartMasterThread: Start() is done ...
StartMaster ==
    /\ main = "startMaster"
    /\ master' = "starting"
    /\ main' = "running"
    /\ UNCHANGED <<taskVars, shouldTerminate, clockVars, numTasks, mainTask, startOK,
                   masterTask, masterTerminate, lateSteps>>

\* Mutant: the master is not stopped when it cannot have its priority.
StartMasterNotUndone ==
    /\ main = "startMaster"
    /\ master' = "starting"
    /\ startOK' = FALSE
    /\ main' = "stopWorkers"
    /\ UNCHANGED <<taskVars, shouldTerminate, clockVars, numTasks, mainTask,
                   masterTask, masterTerminate, lateSteps>>

\* ... or the master cannot have its priority and is stopped again.
StartMasterNoPriority ==
    /\ main = "startMaster"
    /\ master' = "starting"
    /\ startOK' = FALSE
    /\ main' = "stopMaster"
    /\ UNCHANGED <<taskVars, shouldTerminate, clockVars, numTasks, mainTask,
                   masterTask, masterTerminate, lateSteps>>

-----------------------------------------------------------------------------
(* Main thread: Stop()                                                     *)

\* The application calls Stop() at any time.
StopCalled ==
    /\ main = "running"
    /\ main' = "stopMaster"
    /\ UNCHANGED <<taskVars, shouldTerminate, clockVars, numTasks, mainTask, startOK,
                   masterVars, masterTerminate, lateSteps>>

\* StopMasterThread: raise m_terminate, ...
StopMaster ==
    /\ main = "stopMaster"
    /\ masterTerminate' = TRUE
    /\ main' = "cancel"
    /\ UNCHANGED <<taskVars, shouldTerminate, clockVars, numTasks, mainTask, startOK,
                   masterVars, lateSteps>>

\* ... cancel the clock (which does nothing if the clock does not run), ...
CancelClock ==
    /\ main = "cancel" /\ canceller = "idle"
    /\ IF m_isRunning
       THEN Clock!CancelExchanges /\ UNCHANGED main
       ELSE main' = "join" /\ UNCHANGED clockVars
    /\ UNCHANGED <<taskVars, shouldTerminate, numTasks, mainTask, startOK, masterVars,
                   masterTerminate, lateSteps>>

WakeMaster ==
    /\ main = "cancel" /\ Clock!CancelWrites
    /\ main' = "join"
    /\ UNCHANGED <<taskVars, shouldTerminate, numTasks, mainTask, startOK, masterVars,
                   masterTerminate, lateSteps>>

\* Mutant: the master is detached, not joined.
DetachMaster ==
    /\ main = "join"
    /\ main' = "stopWorkers"
    /\ mainTask' = 0
    /\ UNCHANGED <<taskVars, shouldTerminate, clockVars, numTasks, startOK, masterVars,
                   masterTerminate, lateSteps>>

\* ... join the master, stop the clock and lower m_terminate.
JoinMaster ==
    /\ main = "join" /\ master = "exited"
    /\ master' = "none"
    /\ IF m_isStarted THEN Clock!Stop ELSE UNCHANGED clockVars
    /\ masterTerminate' = FALSE
    /\ main' = "stopWorkers"
    /\ mainTask' = 0
    /\ UNCHANGED <<taskVars, shouldTerminate, numTasks, startOK, masterTask, lateSteps>>

\* StopWorkerThreads: the tasks are stopped one after the other (Stop() of one
\* that is not started does nothing) ...
StopWorker ==
    /\ main = "stopWorkers" /\ mainTask < numTasks
    /\ \/ /\ Workers!StopBegins(mainTask) \/ Workers!StopPosts(mainTask)
          /\ UNCHANGED mainTask
       \/ /\ \/ Workers!StopJoins(mainTask)
             \/ (~m_started[mainTask] /\ UNCHANGED <<taskVars, shouldTerminate>>)
          /\ mainTask' = mainTask + 1
    /\ UNCHANGED <<clockVars, numTasks, main, startOK, masterVars, masterTerminate,
                   lateSteps>>

\* Mutant: the tasks are deleted one loop too early.
DeleteRunningWorkers ==
    /\ main = "stopWorkers"
    /\ numTasks' = 0
    /\ UNCHANGED <<taskVars, shouldTerminate, clockVars, main, mainTask, startOK,
                   masterVars, masterTerminate, lateSteps>>

\* ... and deleted once all of them are.
DeleteWorkers ==
    /\ main = "stopWorkers" /\ mainTask = numTasks
    /\ numTasks' = 0
    /\ main' = IF startOK THEN "stopped" ELSE "failed"
    /\ UNCHANGED <<taskVars, shouldTerminate, clockVars, mainTask, startOK, masterVars,
                   masterTerminate, lateSteps>>

\* The scheduler is not used again.
Done == main \in {"stopped", "failed"} /\ UNCHANGED vars

-----------------------------------------------------------------------------
(* MasterThread()                                                          *)

MasterStartsClock ==
    /\ master = "starting" /\ Clock!Start
    /\ master' = "loop"
    /\ UNCHANGED <<taskVars, shouldTerminate, mainVars, masterTask, masterTerminate,
                   lateSteps>>

MasterGivesUp == master' = "exited" /\ shouldTerminate' = TRUE

\* The clock cannot be started.
MasterHasNoClock ==
    /\ master = "starting"
    /\ MasterGivesUp
    /\ UNCHANGED <<taskVars, clockVars, mainVars, masterTask, masterTerminate, lateSteps>>

\* while(!m_terminate) WaitForTick
MasterWaits ==
    /\ master = "loop" /\ ~masterTerminate
    /\ Clock!WaitRefused \/ Clock!WaitBlocks
    /\ master' = "wait"
    /\ UNCHANGED <<taskVars, shouldTerminate, mainVars, masterTask, masterTerminate,
                   lateSteps>>

MasterInWait(A) ==
    /\ master = "wait" /\ A
    /\ UNCHANGED <<taskVars, shouldTerminate, mainVars, masterVars, masterTerminate,
                   lateSteps>>

TickReturned == master = "wait" /\ waiter = "out"

\* The loop ends: m_terminate before or after the wait, or a cancelled wait.
MasterLeaves ==
    /\ \/ master = "loop" /\ masterTerminate
       \/ TickReturned /\ (tickResult = 0 \/ (tickResult = 1 /\ masterTerminate))
    /\ master' = "exited"
    /\ UNCHANGED <<taskVars, shouldTerminate, clockVars, mainVars, masterTask,
                   masterTerminate, lateSteps>>

\* An error of the clock ends the loop and asks the application to terminate.
MasterFails ==
    /\ TickReturned /\ tickResult = -1
    /\ MasterGivesUp
    /\ UNCHANGED <<taskVars, clockVars, mainVars, masterTask, masterTerminate, lateSteps>>

MasterTick ==
    /\ TickReturned /\ tickResult = 1 /\ ~masterTerminate
    /\ master' = "notify" /\ masterTask' = 0
    /\ UNCHANGED <<taskVars, shouldTerminate, clockVars, mainVars, masterTerminate,
                   lateSteps>>

\* Mutant: m_terminate is tested between the tasks, too.
NextTaskUntilStop ==
    /\ masterTask' = masterTask + 1
    /\ master' = IF masterTask + 1 = NumTasks THEN "loop"
                 ELSE IF masterTerminate THEN "exited" ELSE "notify"

\* for(task : m_tasks) task->Notify()
NextTask ==
    /\ masterTask' = masterTask + 1
    /\ master' = IF masterTask + 1 = NumTasks THEN "loop" ELSE "notify"

MasterNotifies ==
    /\ master = "notify"
    /\ \/ /\ \/ Workers!NotifyInOffset(masterTask) \/ Workers!NotifyBetween(masterTask)
             \/ Workers!NotifyOverload(masterTask) \/ Workers!NotifyPosts(masterTask)
          /\ NextTask
       \/ Workers!NotifyAccepted(masterTask) /\ UNCHANGED masterVars
    /\ UNCHANGED <<clockVars, mainVars, masterTerminate, lateSteps>>

-----------------------------------------------------------------------------
(* The workers and the kernel                                              *)

WorkerSteps(i) ==
    /\ Workers!StepBegins(i)
    /\ lateSteps' = [lateSteps EXCEPT ![i] = @ + (IF main = "stopWorkers" THEN 1 ELSE 0)]
    /\ UNCHANGED <<clockVars, mainVars, masterVars, masterTerminate>>

WorkerMoves(i) ==
    /\ Workers!WaitForNotification(i) \/ Workers!ThreadTerminates(i) \/ Workers!StepReturns(i)
    /\ UNCHANGED <<clockVars, mainVars, masterVars, masterTerminate, lateSteps>>

WorkerFails(i) ==
    /\ Workers!WaitFails(i)
    /\ UNCHANGED <<clockVars, mainVars, masterVars, masterTerminate, lateSteps>>

Expire ==
    /\ Clock!Expire
    /\ UNCHANGED <<taskVars, shouldTerminate, mainVars, masterVars, masterTerminate,
                   lateSteps>>

-----------------------------------------------------------------------------
MainStarts ==
    \/ StartWorker \/ StartWorkerFails \/ StartWorkerNoPriority \/ UndoStart
    \/ WorkersStarted \/ StartMaster \/ StartMasterNoPriority
MainStops ==
    \/ StopMaster \/ CancelClock \/ WakeMaster \/ JoinMaster
    \/ StopWorker \/ DeleteWorkers
MasterWorks ==
    \/ MasterStartsClock \/ MasterHasNoClock
    \/ MasterWaits \/ MasterInWait(Clock!WaitWakes \/ Clock!ReadTick)
    \/ MasterLeaves \/ MasterFails \/ MasterTick \/ MasterNotifies

Next ==
    \/ MainStarts \/ StopCalled \/ MainStops \/ Done
    \/ MasterWorks \/ MasterInWait(Clock!WaitInterrupted \/ Clock!WaitFails)
    \/ \E i \in Task : WorkerSteps(i) \/ WorkerMoves(i) \/ WorkerFails(i)
    \/ Expire

Spec == Init /\ [][Next]_vars

\* Every thread that can run does, and a step of the model returns.  Nothing
\* makes the clock expire, a system call fail or the application stop.
FairSpec ==
    /\ Spec
    /\ WF_vars(MainStarts) /\ WF_vars(MainStops) /\ WF_vars(MasterWorks)
    /\ \A i \in Task : WF_vars(WorkerSteps(i) \/ WorkerMoves(i))

-----------------------------------------------------------------------------
TypeOK ==
    /\ Workers!TypeOK /\ Clock!TypeOK
    /\ masterTerminate \in BOOLEAN
    /\ numTasks \in 0..NumTasks /\ mainTask \in 0..NumTasks /\ masterTask \in 0..NumTasks
    /\ main \in {"startWorkers", "undoStart", "startMaster", "running", "stopMaster",
                 "cancel", "join", "stopWorkers", "stopped", "failed"}
    /\ master \in {"none", "starting", "loop", "wait", "notify", "exited"}
    /\ startOK \in BOOLEAN
    /\ lateSteps \in [Task -> Nat]

\* m_tasks has no lock, but whoever uses it finds it complete: the master
\* notifies only tasks that exist, are started and are not being stopped (no
\* sem_post reaches a destroyed semaphore, no Notify a deleted object), and a
\* step of the model may ask for the overloads or the execution time of any
\* task, whatever the point at which Start() fails or Stop() is called.
TasksLiveWhileUsed ==
    /\ master = "notify" =>
        /\ numTasks = NumTasks
        /\ \A i \in Task : m_started[i] /\ caller[i] = "idle" /\ ~m_terminate[i]
    /\ \A i \in Task : thread[i] = "step" => numTasks = NumTasks

\* The tick WaitForTick has returned and that has not reached task i yet.
InFlight(i) ==
    \/ TickReturned /\ tickResult = 1
    \/ master = "notify" /\ masterTask <= i /\ ~posting[i]

\* Every tick the clock delivers reaches every task exactly once, in order,
\* while the master is alive; and no tick is broken off when the scheduler is
\* stopped, so that the tasks have had the same ticks afterwards.
TicksReachAllTasks ==
    /\ master \in {"starting", "loop", "wait", "notify"} =>
        \A i \in Task : delivered = notified[i] + (IF InFlight(i) THEN 1 ELSE 0)
    /\ master # "notify" => \A i, j \in Task : notified[i] = notified[j]

\* Once the master is joined, each task begins at most one more step: the one
\* whose token was posted before.
AtMostOneLateStep == \A i \in Task : lateSteps[i] <= 1

\* When Start() has failed or Stop() has returned, no thread is left, every
\* task is stopped and the clock holds no descriptor.
CleanEnd ==
    main \in {"stopped", "failed"} =>
        /\ master = "none" /\ waiter = "out" /\ ~m_isStarted /\ numTasks = 0
        /\ \A i \in Task : thread[i] = "none" /\ ~m_started[i]

\* Start() and Stop() return: no join blocks for ever, at whatever point the
\* master and the workers are and even if the clock never ticks again.
StartAndStopReturn == main # "running" ~> main \in {"running", "stopped", "failed"}

\* The documentation of the termination phase says of the stopped scheduler
\* that running steps are completed but "no new step() function calls are
\* started".  This is the reading most favourable to it: from the moment the
\* master is joined.
NoNewStepOnceMasterIsJoined == \A i \in Task : lateSteps[i] = 0
====
