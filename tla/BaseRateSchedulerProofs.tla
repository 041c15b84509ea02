----------------------- MODULE BaseRateSchedulerProofs -----------------------
(***************************************************************************)
(* The safety of the scheduler for any number of tasks, whichever step of  *)
(* Start() fails and whenever Stop() is called.  What holds inside a task  *)
(* and inside the clock is taken from the proofs about these: the          *)
(* scheduler only takes steps they allow.                                  *)
(***************************************************************************)
EXTENDS BaseRateScheduler, TLAPS

WorkersP == INSTANCE PeriodicTaskProofs
ClockP == INSTANCE PeriodicTimerProofs

\* The phases of the main thread.
Starting == {"startWorkers", "undoStart", "startMaster"}
Up == {"running", "stopMaster", "cancel", "join"}
Stopping == {"stopWorkers", "stopped", "failed"}

\* The master's thread exists from StartMasterThread to its join, and m_tasks
\* is complete as long as anything but the start or the end of it uses it.
MainInv ==
    /\ master # "none" <=> main \in Up
    /\ main = "startWorkers" => numTasks = mainTask
    /\ main = "undoStart" => numTasks = mainTask + 1 /\ ~startOK
    /\ main = "startMaster" => startOK
    /\ main \in Up \cup {"startMaster", "stopWorkers"} => numTasks = NumTasks
    /\ main \in {"stopped", "failed"} => numTasks = 0

\* How far the main thread is with task i.
TaskPhase(i) ==
    /\ main \in {"startWorkers", "undoStart"} =>
        /\ i < mainTask /\ startOK => m_started[i]
        /\ i >= numTasks => ~m_started[i]
    /\ main \in Up \cup {"startMaster"} => m_started[i]
    /\ main = "stopWorkers" /\ i < mainTask => ~m_started[i]
    /\ main \in {"stopped", "failed"} => ~m_started[i]
    /\ caller[i] # "idle" => main \in {"undoStart", "stopWorkers"} /\ i = mainTask

\* Only the master uses the clock; it is cancelled and stopped before the
\* tasks are.
ClockPhase ==
    /\ main \in Starting \/ master = "starting" =>
        ~m_isStarted /\ ~m_isRunning /\ delivered = 0
    /\ m_isStarted => master \notin {"none", "starting"}
    /\ canceller = "writing" => main = "cancel"
    /\ waiter # "out" => master = "wait"

\* The tick that WaitForTick returned last is all that separates the clock
\* from task i.
TickPhase(i) ==
    /\ main \in Starting \/ master = "starting" =>
        notified[i] = 0 /\ ~m_jobPendingOrRunning[i]
    /\ posting[i] => master = "notify" /\ masterTask = i
    /\ master \in {"loop", "wait", "notify"} =>
        delivered = notified[i] + (IF InFlight(i) THEN 1 ELSE 0)

\* A late step has used the last token of a task that is not being stopped.
LatePhase(i) ==
    /\ lateSteps[i] \in {0, 1}
    /\ lateSteps[i] = 1 => main \in Stopping
    /\ lateSteps[i] = 1 /\ m_started[i] /\ ~m_terminate[i] =>
        m_sem[i] = 0 /\ thread[i] # "check"

\* All tasks have had the same ticks, but while one is on its way.
SameTicks == master # "notify" => \A i, j \in Task : notified[i] = notified[j]

IInv ==
    /\ TypeOK /\ WorkersP!IInv /\ ClockP!IInv
    /\ MainInv /\ ClockPhase /\ SameTicks
    /\ master = "notify" => masterTask < NumTasks
    /\ \A i \in Task : TaskPhase(i) /\ TickPhase(i) /\ LatePhase(i)

-----------------------------------------------------------------------------
(* What holds of the tasks and of the clock alone: the proofs about them   *)
(* speak of the same operators as the scheduler's instances.               *)

\* The assumptions of the tasks and of the clock follow from the scheduler's.
LEMMA Constants == /\ NumTasks \in Nat \ {0}
                   /\ WorkersP!TaskConstants /\ ClockP!TimerConstants
  BY SchedulerConstants DEF WorkersP!TaskConstants, ClockP!TimerConstants

\* The types, ...
LEMMA SameTypes == /\ WorkersP!TypeOK <=> Workers!TypeOK
                   /\ ClockP!TypeOK <=> Clock!TypeOK
  BY DEF WorkersP!TypeOK, Workers!TypeOK, ClockP!TypeOK, Clock!TypeOK

\* ... the steps of the tasks ...
LEMMA SameTaskSteps ==
    [Workers!Next]_(Workers!vars) => [WorkersP!Next]_(WorkersP!vars)
  <1> USE DEF Workers!counters, WorkersP!counters, Workers!control, WorkersP!control
  <1>1. UNCHANGED Workers!vars => UNCHANGED WorkersP!vars
        BY Zenon DEF Workers!vars, WorkersP!vars
  <1>2. Workers!TerminationRequested => WorkersP!TerminationRequested
        BY Zenon DEF Workers!TerminationRequested, WorkersP!TerminationRequested
  <1>3. ASSUME NEW i \in Task
        PROVE  /\ Workers!Start(i) => WorkersP!Start(i)
               /\ Workers!StopBegins(i) => WorkersP!StopBegins(i)
               /\ Workers!StopReaches(i) => WorkersP!StopReaches(i)
        BY Zenon DEF Workers!Start, Workers!StopBegins, Workers!StopReaches,
             Workers!StopPosts, Workers!StopJoins,
             WorkersP!Start, WorkersP!StopBegins, WorkersP!StopReaches,
             WorkersP!StopPosts, WorkersP!StopJoins
  <1>4. ASSUME NEW i \in Task
        PROVE  /\ Workers!NotifyCounts(i) => WorkersP!NotifyCounts(i)
               /\ Workers!NotifyPosts(i) => WorkersP!NotifyPosts(i)
        BY Zenon DEF Workers!NotifyCounts, Workers!NotifyInOffset, Workers!NotifyBetween,
             Workers!NotifyAccepted, Workers!NotifyOverload, Workers!NotifyPosts,
             Workers!OffsetElapsed, Workers!TicksElapsed, Workers!ReloadTicks,
             Workers!Notifiable, Workers!Activation,
             WorkersP!NotifyCounts, WorkersP!NotifyInOffset, WorkersP!NotifyBetween,
             WorkersP!NotifyAccepted, WorkersP!NotifyOverload, WorkersP!NotifyPosts,
             WorkersP!OffsetElapsed, WorkersP!TicksElapsed, WorkersP!ReloadTicks,
             WorkersP!Notifiable, WorkersP!Activation
  <1>5. ASSUME NEW i \in Task PROVE Workers!Worker(i) => WorkersP!Worker(i)
        BY Zenon DEF Workers!Worker, Workers!Works, Workers!WaitForNotification,
             Workers!WaitFails, Workers!ThreadTerminates, Workers!StepBegins, Workers!StepReturns,
             WorkersP!Worker, WorkersP!Works, WorkersP!WaitForNotification,
             WorkersP!WaitFails, WorkersP!ThreadTerminates, WorkersP!StepBegins,
             WorkersP!StepReturns
  <1>6. QED  BY <1>1, <1>2, <1>3, <1>4, <1>5, Zenon DEF Workers!Next, WorkersP!Next

\* ... and the steps of the clock are the same in both instances.
LEMMA SameClockSteps ==
    [Clock!Next]_(Clock!vars) => [ClockP!Next]_(ClockP!vars)
  <1> USE DEF Clock!stats, ClockP!stats, Clock!Returns, ClockP!Returns
  <1>1. UNCHANGED Clock!vars => UNCHANGED ClockP!vars
        BY Zenon DEF Clock!vars, ClockP!vars
  <1>2. /\ Clock!Start => ClockP!Start
        /\ Clock!Expire => ClockP!Expire
        /\ Clock!CancelExchanges => ClockP!CancelExchanges
        /\ Clock!CancelWrites => ClockP!CancelWrites
        /\ Clock!Stop => ClockP!Stop
        BY Zenon DEF Clock!Start, Clock!Startable, Clock!Expire, Clock!CancelExchanges,
             Clock!CancelWrites, Clock!Stop,
             ClockP!Start, ClockP!Startable, ClockP!Expire, ClockP!CancelExchanges,
             ClockP!CancelWrites, ClockP!Stop
  <1>3. /\ Clock!WaitRefused => ClockP!WaitRefused
        /\ Clock!WaitBlocks => ClockP!WaitBlocks
        /\ Clock!Waiter => ClockP!Waiter
        BY Zenon DEF Clock!WaitRefused, Clock!WaitBlocks, Clock!Waiter, Clock!WaitWakes,
             Clock!WaitInterrupted, Clock!WaitFails, Clock!ReadTick, Clock!LostTicks,
             Clock!Overloaded,
             ClockP!WaitRefused, ClockP!WaitBlocks, ClockP!Waiter, ClockP!WaitWakes,
             ClockP!WaitInterrupted, ClockP!WaitFails, ClockP!ReadTick, ClockP!LostTicks,
             ClockP!Overloaded
  <1>4. QED  BY <1>1, <1>2, <1>3, Zenon DEF Clock!Next, ClockP!Next

-----------------------------------------------------------------------------
(* The scheduler uses the tasks and the clock as they may be used.         *)

\* The task a loop is at exists.
LEMMA LoopsAtTask ==
    ASSUME IInv
    PROVE  /\ main = "startWorkers" /\ mainTask < NumTasks => mainTask \in Task
           /\ main = "undoStart" => mainTask \in Task
           /\ main = "stopWorkers" /\ mainTask < numTasks => mainTask \in Task
           /\ master = "notify" => masterTask \in Task
  BY Constants DEF IInv, TypeOK, MainInv, Task

\* For the tasks, a step of the scheduler is one of their own, ...
LEMMA StepOfTasks == IInv /\ [Next]_vars => [Workers!Next]_(Workers!vars)
  <1> SUFFICES ASSUME IInv, [Next]_vars PROVE Workers!Next \/ UNCHANGED Workers!vars
      BY Zenon
  <1>0. ASSUME UNCHANGED <<taskVars, shouldTerminate>> PROVE UNCHANGED Workers!vars
        BY <1>0 DEF taskVars, Workers!vars
  <1>1. CASE MainStarts
    <2>1. CASE StartWorker \/ StartWorkerNoPriority
      <3>1. mainTask \in Task /\ Workers!Start(mainTask)
            BY <2>1, LoopsAtTask DEF StartWorker, StartWorkerNoPriority
      <3>2. QED  BY <3>1, Zenon DEF Workers!Next
    <2>2. CASE UndoStart
      <3>1. /\ mainTask \in Task
            /\ Workers!StopBegins(mainTask) \/ Workers!StopReaches(mainTask)
            BY <2>2, LoopsAtTask, Zenon DEF UndoStart, Workers!StopReaches
      <3>2. QED  BY <3>1, Zenon DEF Workers!Next
    <2>3. CASE StartWorkerFails \/ WorkersStarted \/ StartMaster \/ StartMasterNoPriority
          BY <1>0, <2>3
          DEF StartWorkerFails, WorkersStarted, StartMaster, StartMasterNoPriority
    <2>4. QED  BY <1>1, <2>1, <2>2, <2>3 DEF MainStarts
  <1>2. CASE StopCalled \/ MainStops
    <2>1. CASE StopWorker /\ m_started[mainTask]
      <3>1. /\ mainTask \in Task
            /\ Workers!StopBegins(mainTask) \/ Workers!StopReaches(mainTask)
            BY <2>1, LoopsAtTask, Zenon DEF StopWorker, Workers!StopReaches
      <3>2. QED  BY <3>1, Zenon DEF Workers!Next
    <2>2. CASE StopWorker /\ ~m_started[mainTask]
      <3>1. /\ mainTask \in Task
            /\ \/ Workers!StopBegins(mainTask) \/ Workers!StopReaches(mainTask)
               \/ UNCHANGED <<taskVars, shouldTerminate>>
            BY <2>2, LoopsAtTask, Zenon DEF StopWorker, Workers!StopReaches
      <3>2. QED  BY <1>0, <3>1, Zenon DEF Workers!Next
    <2>3. CASE StopCalled \/ StopMaster \/ CancelClock \/ WakeMaster \/ JoinMaster
               \/ DeleteWorkers
          BY <1>0, <2>3
          DEF StopCalled, StopMaster, CancelClock, WakeMaster, JoinMaster, DeleteWorkers
    <2>4. QED  BY <1>2, <2>1, <2>2, <2>3 DEF MainStops
  <1>3. CASE MasterNotifies
    <2>1. /\ masterTask \in Task
          /\ Workers!NotifyCounts(masterTask) \/ Workers!NotifyPosts(masterTask)
          BY <1>3, LoopsAtTask, Zenon DEF MasterNotifies, Workers!NotifyCounts
    <2>2. QED  BY <2>1, Zenon DEF Workers!Next
  <1>4. CASE MasterHasNoClock \/ MasterFails
    <2>1. Workers!TerminationRequested
          BY <1>4 DEF MasterHasNoClock, MasterFails, MasterGivesUp, taskVars,
                      Workers!TerminationRequested, Workers!counters, Workers!control
    <2>2. QED  BY <2>1, Zenon DEF Workers!Next
  <1>5. CASE \/ MasterStartsClock \/ MasterWaits \/ MasterLeaves \/ MasterTick \/ Expire
             \/ MasterInWait(Clock!WaitWakes \/ Clock!ReadTick)
             \/ MasterInWait(Clock!WaitInterrupted \/ Clock!WaitFails)
        BY <1>0, <1>5 DEF MasterStartsClock, MasterWaits, MasterLeaves, MasterTick, Expire,
                          MasterInWait
  <1>6. ASSUME NEW i \in Task, WorkerSteps(i) \/ WorkerMoves(i) \/ WorkerFails(i)
        PROVE  Workers!Next
    <2>1. Workers!Worker(i)
          BY <1>6, Zenon
          DEF WorkerSteps, WorkerMoves, WorkerFails, Workers!Worker, Workers!Works
    <2>2. QED  BY <2>1, Zenon DEF Workers!Next
  <1>7. CASE Done \/ UNCHANGED vars
        BY <1>0, <1>7 DEF Done, vars
  <1>8. QED  BY <1>1, <1>2, <1>3, <1>4, <1>5, <1>6, <1>7 DEF Next, MasterWorks

\* ... and so it is for the clock.
LEMMA StepOfClock == [Next]_vars => [Clock!Next]_(Clock!vars)
  <1> SUFFICES ASSUME [Next]_vars PROVE Clock!Next \/ UNCHANGED clockVars
      BY DEF clockVars, Clock!vars
  <1>1. CASE MainStarts
        BY <1>1 DEF MainStarts, StartWorker, StartWorkerFails, StartWorkerNoPriority,
                    UndoStart, WorkersStarted, StartMaster, StartMasterNoPriority
  <1>2. CASE StopCalled \/ MainStops
        BY <1>2 DEF StopCalled, MainStops, StopMaster, CancelClock, WakeMaster, JoinMaster,
                    StopWorker, DeleteWorkers, Clock!Next
  <1>3. CASE MasterWorks \/ MasterInWait(Clock!WaitInterrupted \/ Clock!WaitFails)
        BY <1>3 DEF MasterWorks, MasterStartsClock, MasterHasNoClock, MasterWaits,
                    MasterInWait, MasterLeaves, MasterFails, MasterTick, MasterNotifies,
                    Clock!Next, Clock!Waiter
  <1>4. ASSUME NEW i \in Task, WorkerSteps(i) \/ WorkerMoves(i) \/ WorkerFails(i)
        PROVE  UNCHANGED clockVars
        BY <1>4 DEF WorkerSteps, WorkerMoves, WorkerFails
  <1>5. CASE Done \/ Expire \/ UNCHANGED vars
        BY <1>5 DEF Done, Expire, vars, Clock!Next
  <1>6. QED  BY <1>1, <1>2, <1>3, <1>4, <1>5 DEF Next

-----------------------------------------------------------------------------
\* Nothing is started, no tick has been delivered.
LEMMA InitIInv == Init => IInv
  <1> SUFFICES ASSUME Init PROVE IInv
      OBVIOUS
  <1>1. WorkersP!IInv
    <2>1. Workers!Init => WorkersP!Init  BY Zenon DEF Workers!Init, WorkersP!Init
    <2>2. QED  BY <2>1, Constants, WorkersP!InitInv DEF Init
  <1>2. ClockP!IInv
    <2>1. Clock!Init => ClockP!Init  BY Zenon DEF Clock!Init, ClockP!Init
    <2>2. QED  BY <2>1, Constants, ClockP!InitIInv DEF Init
  <1>3. TypeOK
    <2>1. Workers!TypeOK /\ Clock!TypeOK
          BY <1>1, <1>2, SameTypes DEF WorkersP!IInv, ClockP!IInv
    <2>2. 0 \in 0..NumTasks  BY Constants
    <2>3. QED  BY <2>1, <2>2 DEF Init, TypeOK
  <1>4. MainInv  BY DEF Init, MainInv, Up
  <1>5. ClockPhase  BY DEF Init, ClockPhase, Clock!Init
  <1>6. ASSUME NEW i \in Task PROVE TaskPhase(i) /\ TickPhase(i) /\ LatePhase(i)
    <2>1. /\ ~m_started[i] /\ ~m_jobPendingOrRunning[i] /\ notified[i] = 0
          /\ caller[i] = "idle" /\ ~posting[i] /\ lateSteps[i] = 0
          BY DEF Init, Workers!Init
    <2>2. i \in Int /\ ~(i < 0)  BY Constants DEF Task
    <2>3. TaskPhase(i)  BY <2>1, <2>2 DEF Init, TaskPhase, Up
    <2>4. TickPhase(i)  BY <2>1 DEF Init, TickPhase
    <2>5. LatePhase(i)  BY <2>1 DEF LatePhase
    <2>6. QED  BY <2>3, <2>4, <2>5
  <1>7. SameTicks  BY DEF Init, Workers!Init, SameTicks
  <1>8. QED  BY <1>1, <1>2, <1>3, <1>4, <1>5, <1>6, <1>7 DEF IInv, Init

\* The tasks and the clock keep their own invariants.
LEMMA PartsInductive == IInv /\ [Next]_vars => WorkersP!IInv' /\ ClockP!IInv'
  <1> SUFFICES ASSUME IInv, [Next]_vars PROVE WorkersP!IInv' /\ ClockP!IInv'
      OBVIOUS
  <1>1. [WorkersP!Next]_(WorkersP!vars)  BY StepOfTasks, SameTaskSteps
  <1>2. [ClockP!Next]_(ClockP!vars)  BY StepOfClock, SameClockSteps
  <1>3. WorkersP!IInv'  BY <1>1, Constants, WorkersP!InvInductive DEF IInv
  <1>4. ClockP!IInv'  BY <1>2, Constants, ClockP!Inductive DEF IInv
  <1>5. QED  BY <1>3, <1>4

\* What the proof of a step uses of the tasks.
LEMMA TaskFacts ==
    ASSUME IInv, NEW i \in Task
    PROVE  /\ ~m_started[i] => caller[i] = "idle" /\ thread[i] = "none"
           /\ m_terminate[i] <=> caller[i] # "idle"
           /\ thread[i] = "step" => m_jobPendingOrRunning[i]
           /\ m_started[i] /\ ~m_terminate[i] /\ thread[i] \in {"check", "step"} =>
                m_sem[i] = 0
  <1> USE DEF IInv, TypeOK, Workers!TypeOK
  <1>1. WorkersP!TokensInv(i)  BY DEF WorkersP!IInv, WorkersP!TaskInv
  <1>2. QED  BY <1>1 DEF WorkersP!TokensInv, WorkersP!Tokens, WorkersP!Job

\* The program counters and indices of the two threads.
LEMMA ThreadsInductive ==
    IInv /\ [Next]_vars =>
        TypeOK' /\ MainInv' /\ (master = "notify" => masterTask < NumTasks)'
  <1> SUFFICES ASSUME IInv, [Next]_vars
               PROVE  TypeOK' /\ MainInv' /\ (master = "notify" => masterTask < NumTasks)'
      OBVIOUS
  <1> DEFINE G == master = "notify" => masterTask < NumTasks
             Flags == masterTerminate \in BOOLEAN /\ startOK \in BOOLEAN
             Own == /\ numTasks \in 0..NumTasks /\ mainTask \in 0..NumTasks
                    /\ masterTask \in 0..NumTasks
                    /\ main \in {"startWorkers", "undoStart", "startMaster", "running",
                                 "stopMaster", "cancel", "join", "stopWorkers", "stopped",
                                 "failed"}
                    /\ master \in {"none", "starting", "loop", "wait", "notify", "exited"}
                    /\ lateSteps \in [Task -> Nat]
  <1>0. Flags /\ Own /\ MainInv /\ G  BY DEF IInv, TypeOK
  <1> SUFFICES Flags' /\ Own' /\ MainInv' /\ G'
    <2>1. Workers!TypeOK' /\ Clock!TypeOK'
          BY PartsInductive DEF WorkersP!IInv, ClockP!IInv, WorkersP!TypeOK, ClockP!TypeOK,
                                Workers!TypeOK, Clock!TypeOK
    <2>2. QED  BY <2>1 DEF TypeOK
  <1> USE <1>0, Constants DEF MainInv, Up, mainVars, masterVars
  <1>1. CASE MainStarts
    <2>1. CASE StartWorker  BY <2>1 DEF StartWorker
    <2>2. CASE StartWorkerFails
      <3>1. Flags'  BY <2>2, Zenon DEF StartWorkerFails
      <3>2. Own' /\ MainInv' /\ G'  BY <2>2 DEF StartWorkerFails
      <3>3. QED  BY <3>1, <3>2
    <2>3. CASE StartWorkerNoPriority
      <3>1. Flags'  BY <2>3, Zenon DEF StartWorkerNoPriority
      <3>2. Own' /\ MainInv' /\ G'  BY <2>3 DEF StartWorkerNoPriority
      <3>3. QED  BY <3>1, <3>2
    <2>4. CASE UndoStart       BY <2>4 DEF UndoStart
    <2>5. CASE WorkersStarted  BY <2>5 DEF WorkersStarted
    <2>6. CASE StartMaster \/ StartMasterNoPriority
          BY <2>6 DEF StartMaster, StartMasterNoPriority
    <2>7. QED  BY <1>1, <2>1, <2>2, <2>3, <2>4, <2>5, <2>6 DEF MainStarts
  <1>2. CASE StopCalled \/ MainStops
    <2>1. CASE StopCalled \/ StopMaster  BY <2>1 DEF StopCalled, StopMaster
    <2>2. CASE CancelClock \/ WakeMaster  BY <2>2 DEF CancelClock, WakeMaster
    <2>3. CASE JoinMaster
      <3>1. Flags'  BY <2>3, Zenon DEF JoinMaster
      <3>2. Own' /\ MainInv' /\ G'  BY <2>3 DEF JoinMaster
      <3>3. QED  BY <3>1, <3>2
    <2>4. CASE StopWorker     BY <2>4 DEF StopWorker
    <2>5. CASE DeleteWorkers  BY <2>5 DEF DeleteWorkers
    <2>6. QED  BY <1>2, <2>1, <2>2, <2>3, <2>4, <2>5 DEF MainStops
  <1>3. CASE MasterWorks
    <2>1. CASE MasterStartsClock \/ MasterHasNoClock
          BY <2>1 DEF MasterStartsClock, MasterHasNoClock, MasterGivesUp
    <2>2. CASE MasterWaits  BY <2>2 DEF MasterWaits
    <2>3. CASE MasterInWait(Clock!WaitWakes \/ Clock!ReadTick)
          BY <2>3 DEF MasterInWait
    <2>4. CASE MasterLeaves \/ MasterFails
          BY <2>4 DEF MasterLeaves, MasterFails, MasterGivesUp, TickReturned
    <2>5. CASE MasterTick  BY <2>5 DEF MasterTick, TickReturned
    <2>6. CASE MasterNotifies
      <3>1. \/ UNCHANGED <<mainVars, masterTerminate, lateSteps, masterVars>>
            \/ UNCHANGED <<mainVars, masterTerminate, lateSteps>> /\ NextTask
            BY <2>6, Zenon DEF MasterNotifies
      <3>2. QED  BY <2>6, <3>1 DEF MasterNotifies, NextTask
    <2>7. QED  BY <1>3, <2>1, <2>2, <2>3, <2>4, <2>5, <2>6 DEF MasterWorks
  <1>4. CASE MasterInWait(Clock!WaitInterrupted \/ Clock!WaitFails) \/ Expire
        BY <1>4 DEF MasterInWait, Expire
  <1>5. ASSUME NEW i \in Task, WorkerSteps(i) \/ WorkerMoves(i) \/ WorkerFails(i)
        PROVE  Flags' /\ Own' /\ MainInv' /\ G'
        BY <1>5 DEF WorkerSteps, WorkerMoves, WorkerFails
  <1>6. CASE Done \/ UNCHANGED vars
        BY <1>6 DEF Done, vars
  <1>7. QED  BY <1>1, <1>2, <1>3, <1>4, <1>5, <1>6 DEF Next

\* Clock: only the main thread and the master move it.
LEMMA ClockPhaseInductive == IInv /\ [Next]_vars => ClockPhase'
  <1> SUFFICES ASSUME IInv, [Next]_vars PROVE ClockPhase'
      OBVIOUS
  <1>0. ClockPhase /\ MainInv  BY DEF IInv
  <1> USE <1>0 DEF ClockPhase, MainInv, Starting, Up, mainVars, masterVars, clockVars
  <1>1. CASE MainStarts
        BY <1>1 DEF MainStarts, StartWorker, StartWorkerFails, StartWorkerNoPriority,
                    UndoStart, WorkersStarted, StartMaster, StartMasterNoPriority
  <1>2. CASE StopCalled \/ StopMaster \/ StopWorker \/ DeleteWorkers
        BY <1>2 DEF StopCalled, StopMaster, StopWorker, DeleteWorkers
  <1>3. CASE CancelClock \/ WakeMaster
        BY <1>3 DEF CancelClock, WakeMaster, Clock!CancelExchanges, Clock!CancelWrites
  <1>4. CASE JoinMaster
        BY <1>4 DEF JoinMaster, Clock!Stop
  <1>5. CASE MasterStartsClock \/ MasterHasNoClock \/ MasterLeaves \/ MasterFails
             \/ MasterTick
        BY <1>5 DEF MasterStartsClock, MasterHasNoClock, MasterGivesUp, MasterLeaves,
                    MasterFails, MasterTick, TickReturned, Clock!Start
  <1>6. CASE MasterWaits
        BY <1>6 DEF MasterWaits, Clock!WaitRefused, Clock!WaitBlocks, Clock!Returns
  <1>7. CASE \/ MasterInWait(Clock!WaitWakes \/ Clock!ReadTick)
             \/ MasterInWait(Clock!WaitInterrupted \/ Clock!WaitFails)
        BY <1>7 DEF MasterInWait, Clock!WaitWakes, Clock!ReadTick, Clock!WaitInterrupted,
                    Clock!WaitFails, Clock!Returns
  <1>8. CASE MasterNotifies
        BY <1>8 DEF MasterNotifies, NextTask
  <1>9. ASSUME NEW i \in Task, WorkerSteps(i) \/ WorkerMoves(i) \/ WorkerFails(i)
        PROVE  ClockPhase'
        BY <1>9 DEF WorkerSteps, WorkerMoves, WorkerFails
  <1>10. CASE Expire  BY <1>10 DEF Expire, Clock!Expire
  <1>11. CASE Done \/ UNCHANGED vars  BY <1>11 DEF Done, vars
  <1>12. QED  BY <1>1, <1>2, <1>3, <1>4, <1>5, <1>6, <1>7, <1>8, <1>9, <1>10, <1>11
              DEF Next, MainStops, MasterWorks

\* How far the main thread is with each task.
LEMMA TaskPhaseInductive ==
    ASSUME IInv, [Next]_vars, NEW i \in Task
    PROVE  TaskPhase(i)'
  <1>0. /\ TaskPhase(i) /\ MainInv
        /\ i \in Int /\ 0 <= i /\ i < NumTasks
        /\ mainTask \in Int /\ numTasks \in Int /\ mainTask >= 0 /\ numTasks <= NumTasks
        /\ ~m_started[i] => caller[i] = "idle"
        BY Constants, TaskFacts DEF IInv, TypeOK, Task
  <1>a. /\ m_started \in [Task -> BOOLEAN]
         /\ caller \in [Task -> {"idle", "terminating", "joining"}]
         BY DEF IInv, TypeOK, Workers!TypeOK
  <1> USE <1>0, <1>a, Constants DEF TaskPhase, MainInv, Up, mainVars, masterVars, taskVars
  <1>1. CASE StartWorker
        BY <1>1 DEF StartWorker, Workers!Start
  <1>2. CASE StartWorkerFails
        BY <1>2 DEF StartWorkerFails
  <1>3. CASE StartWorkerNoPriority
        BY <1>3 DEF StartWorkerNoPriority, Workers!Start
  <1>4. CASE UndoStart
        BY <1>4 DEF UndoStart, Workers!StopBegins, Workers!StopPosts, Workers!StopJoins
  <1>5. CASE WorkersStarted
        BY <1>5 DEF WorkersStarted
  <1>6. CASE StartMaster \/ StartMasterNoPriority
        BY <1>6 DEF StartMaster, StartMasterNoPriority
  <1>7. CASE StopCalled \/ StopMaster \/ CancelClock \/ WakeMaster \/ JoinMaster
        BY <1>7 DEF StopCalled, StopMaster, CancelClock, WakeMaster, JoinMaster
  <1>8. CASE StopWorker
        BY <1>8 DEF StopWorker, Workers!StopBegins, Workers!StopPosts, Workers!StopJoins
  <1>9. CASE DeleteWorkers
        BY <1>9 DEF DeleteWorkers
  <1>10. CASE MasterNotifies
    <2>1. UNCHANGED <<m_started, caller, mainVars>>
          BY <1>10 DEF MasterNotifies, Workers!NotifyInOffset, Workers!NotifyBetween,
                       Workers!NotifyAccepted, Workers!NotifyOverload, Workers!NotifyPosts,
                       Workers!control
    <2>2. QED  BY <2>1
  <1>11. CASE \/ MasterStartsClock \/ MasterHasNoClock \/ MasterWaits \/ MasterLeaves
              \/ MasterFails \/ MasterTick \/ Expire
              \/ MasterInWait(Clock!WaitWakes \/ Clock!ReadTick)
              \/ MasterInWait(Clock!WaitInterrupted \/ Clock!WaitFails)
    <2>1. UNCHANGED <<m_started, caller, mainVars>>
          BY <1>11 DEF MasterStartsClock, MasterHasNoClock, MasterWaits, MasterLeaves,
                       MasterFails, MasterTick, Expire, MasterInWait
    <2>2. QED  BY <2>1
  <1>12. ASSUME NEW j \in Task, WorkerSteps(j) \/ WorkerMoves(j) \/ WorkerFails(j)
         PROVE  TaskPhase(i)'
    <2>1. UNCHANGED <<m_started, caller, mainVars>>
          BY <1>12 DEF WorkerSteps, WorkerMoves, WorkerFails, Workers!StepBegins,
                       Workers!WaitForNotification, Workers!ThreadTerminates,
                       Workers!StepReturns, Workers!WaitFails, Workers!control
    <2>2. QED  BY <2>1
  <1>13. CASE Done \/ UNCHANGED vars  BY <1>13 DEF Done, vars
  <1>14. QED  BY <1>1, <1>2, <1>3, <1>4, <1>5, <1>6, <1>7, <1>8, <1>9, <1>10, <1>11, <1>12,
                 <1>13
              DEF Next, MainStarts, MainStops, MasterWorks

\* A step that neither the clock nor task i takes part in, and that leaves the
\* master where it is, leaves the tick where it is.
LEMMA TickUntouched ==
    ASSUME NEW i \in Task, TickPhase(i),
           UNCHANGED <<master, masterTask, waiter, tickResult, delivered>>,
           notified'[i] = notified[i], posting'[i] => posting[i], posting[i] => posting'[i],
           ~m_jobPendingOrRunning[i] => ~m_jobPendingOrRunning'[i],
           main' \in Starting => main \in Starting
    PROVE  TickPhase(i)'
  BY DEF TickPhase, InFlight, TickReturned

\* From the clock to the tasks: a tick is delivered to the master, and by the
\* master to one task after the other.
LEMMA TickPhaseInductive ==
    ASSUME IInv, [Next]_vars, NEW i \in Task
    PROVE  TickPhase(i)'
  <1>0. /\ TickPhase(i) /\ MainInv /\ ClockPhase
        /\ i \in Int /\ 0 <= i /\ i < NumTasks
        /\ masterTask \in Int /\ delivered \in Int
        BY Constants DEF IInv, TypeOK, Task, Clock!TypeOK
  <1>a. /\ notified \in [Task -> 0..MaxTicks] /\ posting \in [Task -> BOOLEAN]
         /\ m_jobPendingOrRunning \in [Task -> BOOLEAN] /\ MaxTicks \in Nat
         BY SchedulerConstants DEF IInv, TypeOK, Workers!TypeOK
  <1> USE <1>0, <1>a, Constants DEF mainVars, masterVars, taskVars, clockVars
  <1>1. CASE StartWorker \/ StartWorkerNoPriority
    <2>1. /\ main \in Starting /\ master = "none" /\ mainTask \in Task
          /\ Workers!Start(mainTask) /\ UNCHANGED <<clockVars, masterVars>>
          BY <1>1, LoopsAtTask
          DEF StartWorker, StartWorkerNoPriority, Starting, MainInv, Up
    <2>2. /\ notified'[i] = 0 /\ ~m_jobPendingOrRunning'[i] /\ posting' = posting
          BY <2>1 DEF Workers!Start, TickPhase
    <2>3. QED  BY <2>1, <2>2 DEF TickPhase
  <1>2. CASE UndoStart \/ StopWorker
    <2>1. /\ UNCHANGED <<masterVars, clockVars, notified, posting, m_jobPendingOrRunning>>
          /\ main' \in Starting => main \in Starting
          BY <1>2 DEF UndoStart, StopWorker, Starting, Workers!StopBegins, Workers!StopPosts,
                      Workers!StopJoins, Workers!counters
    <2>2. QED  BY <2>1, TickUntouched
  <1>3. CASE \/ StartWorkerFails \/ WorkersStarted \/ StopCalled \/ StopMaster
             \/ DeleteWorkers
    <2>1. /\ UNCHANGED <<masterVars, clockVars, taskVars>>
          /\ main' \in Starting => main \in Starting
          BY <1>3 DEF StartWorkerFails, WorkersStarted, StopCalled, StopMaster,
                      DeleteWorkers, Starting
    <2>2. QED  BY <2>1, TickUntouched
  <1>4. CASE StartMaster \/ StartMasterNoPriority
    <2>1. main \in Starting /\ master = "none" /\ master' = "starting" /\ UNCHANGED taskVars
          BY <1>4 DEF StartMaster, StartMasterNoPriority, Starting, MainInv, Up
    <2>2. QED  BY <2>1 DEF TickPhase
  <1>5. CASE CancelClock \/ WakeMaster
    <2>1. /\ UNCHANGED <<masterVars, taskVars, waiter, tickResult, delivered>>
          /\ main' \in Starting => main \in Starting
          BY <1>5 DEF CancelClock, WakeMaster, Starting, Clock!CancelExchanges,
                      Clock!CancelWrites
    <2>2. QED  BY <2>1, TickUntouched
  <1>6. CASE JoinMaster
        BY <1>6 DEF JoinMaster, TickPhase, Starting
  <1>7. CASE MasterStartsClock
        BY <1>7 DEF MasterStartsClock, Clock!Start, TickPhase, InFlight, TickReturned,
                    Starting, MainInv, Up
  <1>8. CASE MasterHasNoClock \/ MasterLeaves \/ MasterFails
        BY <1>8 DEF MasterHasNoClock, MasterGivesUp, MasterLeaves, MasterFails,
                    TickReturned, TickPhase, Starting, MainInv, Up
  <1>9. CASE MasterWaits
        BY <1>9 DEF MasterWaits, Clock!WaitRefused, Clock!WaitBlocks, Clock!Returns,
                    TickPhase, InFlight, TickReturned, Starting, MainInv, Up
  <1>10. CASE \/ MasterInWait(Clock!WaitWakes \/ Clock!ReadTick)
              \/ MasterInWait(Clock!WaitInterrupted \/ Clock!WaitFails)
        BY <1>10 DEF MasterInWait, Clock!WaitWakes, Clock!ReadTick, Clock!WaitInterrupted,
                     Clock!WaitFails, Clock!Returns,
                     TickPhase, InFlight, TickReturned, Starting, MainInv, Up
  <1>11. CASE MasterTick
        BY <1>11 DEF MasterTick, TickPhase, InFlight, TickReturned, Starting, MainInv, Up
  <1>12. CASE MasterNotifies
    <2>0. /\ masterTask \in Task /\ main \notin Starting /\ main' = main
          /\ master = "notify" /\ UNCHANGED clockVars
          BY <1>12, LoopsAtTask DEF MasterNotifies, Starting, MainInv, Up
    <2>1. CASE NextTask /\ (\/ Workers!NotifyInOffset(masterTask)
                            \/ Workers!NotifyBetween(masterTask)
                            \/ Workers!NotifyOverload(masterTask))
      <3>1. /\ ~posting[masterTask] /\ posting' = posting
            /\ notified' = [notified EXCEPT ![masterTask] = @ + 1]
            BY <2>1 DEF Workers!NotifyInOffset, Workers!NotifyBetween, Workers!Activation,
                        Workers!NotifyOverload, Workers!Notifiable
      <3>2. QED  BY <2>0, <2>1, <3>1 DEF NextTask, TickPhase, InFlight, TickReturned
    <2>2. CASE NextTask /\ Workers!NotifyPosts(masterTask)
      <3>1. /\ posting[masterTask] /\ notified' = notified
            /\ posting' = [posting EXCEPT ![masterTask] = FALSE]
            BY <2>2 DEF Workers!NotifyPosts, Workers!counters
      <3>2. QED  BY <2>0, <2>2, <3>1 DEF NextTask, TickPhase, InFlight, TickReturned
    <2>3. CASE Workers!NotifyAccepted(masterTask) /\ UNCHANGED masterVars
      <3>1. /\ ~posting[masterTask]
            /\ posting' = [posting EXCEPT ![masterTask] = TRUE]
            /\ notified' = [notified EXCEPT ![masterTask] = @ + 1]
            BY <2>3 DEF Workers!NotifyAccepted, Workers!Activation, Workers!Notifiable
      <3>2. QED  BY <2>0, <2>3, <3>1 DEF TickPhase, InFlight, TickReturned
    <2>4. QED  BY <1>12, <2>1, <2>2, <2>3 DEF MasterNotifies
  <1>13. ASSUME NEW j \in Task, WorkerSteps(j) \/ WorkerMoves(j) \/ WorkerFails(j)
         PROVE  TickPhase(i)'
    <2>1. /\ UNCHANGED <<masterVars, clockVars, mainVars, notified, posting>>
          /\ ~m_jobPendingOrRunning[i] => ~m_jobPendingOrRunning'[i]
          BY <1>13 DEF WorkerSteps, WorkerMoves, WorkerFails, Workers!StepBegins,
                       Workers!WaitForNotification, Workers!ThreadTerminates,
                       Workers!StepReturns, Workers!WaitFails, Workers!counters
    <2>2. QED  BY <2>1, TickUntouched
  <1>14. CASE Expire
    <2>1. UNCHANGED <<masterVars, taskVars, mainVars, waiter, tickResult, delivered>>
          BY <1>14 DEF Expire, Clock!Expire
    <2>2. QED  BY <2>1, TickUntouched
  <1>15. CASE Done \/ UNCHANGED vars
    <2>1. UNCHANGED <<masterVars, taskVars, mainVars, clockVars>>
          BY <1>15 DEF Done, vars
    <2>2. QED  BY <2>1, TickUntouched
  <1>16. QED  BY <1>1, <1>2, <1>3, <1>4, <1>5, <1>6, <1>7, <1>8, <1>9, <1>10, <1>11, <1>12,
                 <1>13, <1>14, <1>15
              DEF Next, MainStarts, MainStops, MasterWorks

\* While the master lives the clock says how many ticks a task has had; after its
\* last loop, and after it is gone, nobody notifies a task.
LEMMA SameTicksInductive == IInv /\ [Next]_vars => SameTicks'
  <1> SUFFICES ASSUME IInv, [Next]_vars, master' # "notify" PROVE SameTicks'
      BY DEF SameTicks
  <1>1. \A i \in Task : TickPhase(i)'  BY TickPhaseInductive
  <1>2. TypeOK' /\ MainInv'  BY ThreadsInductive
  <1>3. notified' \in [Task -> 0..MaxTicks] /\ MaxTicks \in Nat
        BY <1>2, SchedulerConstants DEF TypeOK, Workers!TypeOK
  <1>4. CASE master' \in {"starting", "loop", "wait"} \/ main' \in Starting
    <2>1. CASE master' = "starting" \/ main' \in Starting
          BY <1>1, <2>1 DEF TickPhase, SameTicks
    <2>2. CASE master' \in {"loop", "wait"}
      <3> DEFINE n == IF (TickReturned /\ tickResult = 1)' THEN 1 ELSE 0
      <3>1. ASSUME NEW i \in Task PROVE delivered' = notified'[i] + n
            BY <1>1, <2>2 DEF TickPhase, InFlight
      <3>2. n \in {0, 1}  OBVIOUS
      <3> HIDE DEF n
      <3>3. QED  BY <1>3, <3>1, <3>2 DEF SameTicks
    <2>3. QED  BY <1>4, <2>1, <2>2
  <1>5. CASE master' \in {"none", "exited"} /\ main' \notin Starting
    <2>1. master # "notify" /\ notified' = notified
      <3> USE <1>5 DEF masterVars, taskVars
      <3>1. CASE StartWorker \/ StartWorkerFails \/ StartWorkerNoPriority \/ UndoStart
            BY <3>1 DEF StartWorker, StartWorkerFails, StartWorkerNoPriority, UndoStart,
                        Starting
      <3>2. CASE \/ WorkersStarted \/ StartMaster \/ StartMasterNoPriority \/ StopCalled
                 \/ StopMaster \/ CancelClock \/ WakeMaster \/ JoinMaster \/ DeleteWorkers
            BY <3>2 DEF WorkersStarted, StartMaster, StartMasterNoPriority, StopCalled,
                        StopMaster, CancelClock, WakeMaster, JoinMaster, DeleteWorkers
      <3>3. CASE StopWorker
            BY <3>3 DEF StopWorker, Workers!StopBegins, Workers!StopPosts,
                        Workers!StopJoins, Workers!counters
      <3>4. CASE MasterWorks \/ MasterInWait(Clock!WaitInterrupted \/ Clock!WaitFails)
            BY <3>4 DEF MasterWorks, MasterStartsClock, MasterHasNoClock, MasterGivesUp,
                        MasterWaits, MasterInWait, MasterLeaves, MasterFails, MasterTick,
                        MasterNotifies, NextTask, TickReturned
      <3>5. ASSUME NEW j \in Task, WorkerSteps(j) \/ WorkerMoves(j) \/ WorkerFails(j)
            PROVE  master # "notify" /\ notified' = notified
            BY <3>5 DEF WorkerSteps, WorkerMoves, WorkerFails, Workers!StepBegins,
                        Workers!WaitForNotification, Workers!ThreadTerminates,
                        Workers!StepReturns, Workers!WaitFails, Workers!counters
      <3>6. CASE Expire \/ Done \/ UNCHANGED vars
            BY <3>6 DEF Expire, Done, vars
      <3>7. QED  BY <3>1, <3>2, <3>3, <3>4, <3>5, <3>6 DEF Next, MainStarts, MainStops
    <2>2. QED  BY <2>1 DEF IInv, SameTicks
  <1>6. QED  BY <1>2, <1>4, <1>5 DEF TypeOK

\* A step after which task i has not begun a step, has no new token and is not
\* newly started leaves its late steps as they are.
LEMMA LateUntouched ==
    ASSUME NEW i \in Task, LatePhase(i), lateSteps'[i] = lateSteps[i],
           main \in Stopping => main' \in Stopping,
           m_started'[i] /\ ~m_terminate'[i] => m_started[i] /\ ~m_terminate[i],
           m_sem'[i] = m_sem[i], thread'[i] = thread[i]
    PROVE  LatePhase(i)'
  BY DEF LatePhase

\* A late step takes the one token a task can have; no other follows, since
\* the master that would post it is gone.
LEMMA LatePhaseInductive ==
    ASSUME IInv, [Next]_vars, NEW i \in Task
    PROVE  LatePhase(i)'
  <1>0. LatePhase(i) /\ MainInv /\ TaskPhase(i)
        BY DEF IInv
  <1>a. /\ m_started \in [Task -> BOOLEAN] /\ m_terminate \in [Task -> BOOLEAN]
         /\ m_sem \in [Task -> Nat] /\ lateSteps \in [Task -> Nat]
         /\ thread \in [Task -> {"none", "wait", "check", "step", "exited"}]
         BY DEF IInv, TypeOK, Workers!TypeOK
  <1>b. main \notin Stopping => lateSteps[i] = 0
        BY <1>0 DEF LatePhase
  <1> USE <1>0, <1>a, <1>b DEF mainVars, masterVars, taskVars, clockVars
  <1>1. CASE MainStarts \/ StopCalled
    <2>1. lateSteps' = lateSteps /\ main \notin Stopping
          BY <1>1 DEF MainStarts, StartWorker, StartWorkerFails, StartWorkerNoPriority,
                      UndoStart, WorkersStarted, StartMaster, StartMasterNoPriority,
                      StopCalled, Stopping
    <2>2. QED  BY <2>1 DEF LatePhase
  <1>2. CASE StopMaster \/ CancelClock \/ WakeMaster \/ JoinMaster
    <2>1. lateSteps' = lateSteps /\ main \notin Stopping
          BY <1>2 DEF StopMaster, CancelClock, WakeMaster, JoinMaster, Stopping
    <2>2. QED  BY <2>1 DEF LatePhase
  <1>3. CASE StopWorker
    <2>0. mainTask \in Task /\ lateSteps' = lateSteps /\ main' = main
          BY <1>3, LoopsAtTask DEF StopWorker
    <2>1. CASE Workers!StopBegins(mainTask) \/ Workers!StopPosts(mainTask)
      <3>1. /\ UNCHANGED <<m_started, thread>>
            /\ m_terminate[i] => m_terminate'[i]
            /\ ~m_terminate'[i] => m_sem'[i] = m_sem[i]
            BY <2>0, <2>1, TaskFacts
            DEF Workers!StopBegins, Workers!StopPosts
      <3>2. QED  BY <2>0, <3>1 DEF LatePhase
    <2>2. CASE Workers!StopJoins(mainTask)
      <3>1. /\ i # mainTask => /\ m_started'[i] = m_started[i] /\ m_sem'[i] = m_sem[i]
                               /\ m_terminate'[i] = m_terminate[i] /\ thread'[i] = thread[i]
            /\ i = mainTask => ~m_started'[i]
            BY <2>0, <2>2 DEF Workers!StopJoins
      <3>2. QED  BY <2>0, <3>1 DEF LatePhase
    <2>3. CASE UNCHANGED <<taskVars, shouldTerminate>>
          BY <2>0, <2>3, LateUntouched
    <2>4. QED  BY <1>3, <2>1, <2>2, <2>3 DEF StopWorker
  <1>4. CASE DeleteWorkers
        BY <1>4, LateUntouched DEF DeleteWorkers, Stopping
  <1>5. CASE MasterWorks
    <2>1. lateSteps' = lateSteps /\ master # "none" /\ main' = main
          BY <1>5 DEF MasterWorks, MasterStartsClock, MasterHasNoClock, MasterWaits,
                      MasterInWait, MasterLeaves, MasterFails, MasterTick, TickReturned,
                      MasterNotifies
    <2>2. main \notin Stopping  BY <2>1 DEF MainInv, Up, Stopping
    <2>3. QED  BY <2>1, <2>2 DEF LatePhase
  <1>6. CASE MasterInWait(Clock!WaitInterrupted \/ Clock!WaitFails) \/ Expire
        BY <1>6, LateUntouched DEF MasterInWait, Expire
  <1>7. ASSUME NEW j \in Task, WorkerSteps(j)
        PROVE  LatePhase(i)'
    <2>1. CASE i # j
          BY <1>7, <2>1, LateUntouched DEF WorkerSteps, Workers!StepBegins, Workers!control
    <2>2. CASE i = j
      <3>1. /\ thread[i] = "check" /\ m_started[i] /\ ~m_terminate[i] /\ m_sem[i] = 0
            /\ thread'[i] = "step" /\ m_sem' = m_sem /\ main' = main
            BY <1>7, <2>2, TaskFacts DEF WorkerSteps, Workers!StepBegins
      <3>2. lateSteps[i] = 0  BY <3>1 DEF LatePhase
      <3>3. lateSteps'[i] = IF main = "stopWorkers" THEN 1 ELSE 0
            BY <1>7, <2>2, <3>2 DEF WorkerSteps
      <3>4. QED  BY <3>1, <3>3 DEF LatePhase, Stopping
    <2>3. QED  BY <2>1, <2>2
  <1>8. ASSUME NEW j \in Task, WorkerMoves(j) \/ WorkerFails(j)
        PROVE  LatePhase(i)'
    <2>0. /\ lateSteps' = lateSteps /\ main' = main
          /\ UNCHANGED <<m_started, m_terminate>>
          BY <1>8 DEF WorkerMoves, WorkerFails, Workers!WaitForNotification,
                      Workers!ThreadTerminates, Workers!StepReturns, Workers!WaitFails,
                      Workers!control
    <2>1. m_sem[i] = 0 /\ thread[i] # "check" => m_sem'[i] = 0 /\ thread'[i] # "check"
          BY <1>8 DEF WorkerMoves, WorkerFails, Workers!WaitForNotification,
                      Workers!ThreadTerminates, Workers!StepReturns, Workers!WaitFails
    <2>2. QED  BY <2>0, <2>1 DEF LatePhase
  <1>9. CASE Done \/ UNCHANGED vars
        BY <1>9, LateUntouched DEF Done, vars
  <1>10. QED  BY <1>1, <1>2, <1>3, <1>4, <1>5, <1>6, <1>7, <1>8, <1>9 DEF Next, MainStops

-----------------------------------------------------------------------------
\* The invariant is inductive.
LEMMA Inductive == IInv /\ [Next]_vars => IInv'
  BY PartsInductive, ThreadsInductive, ClockPhaseInductive, TaskPhaseInductive,
     TickPhaseInductive, SameTicksInductive, LatePhaseInductive DEF IInv

\* It holds throughout.
LEMMA AlwaysIInv == Spec => []IInv
  BY InitIInv, Inductive, PTL DEF Spec

\* The scheduler uses its tasks as PeriodicTask assumes: whatever
\* GT_BaseRateScheduler.cpp does with the tasks in Start(), Stop() and
\* MasterThread() is a behaviour of them, so all that is proved about the tasks
\* holds in the program.
THEOREM TasksAreUsedAsSpecified == Spec => Workers!Spec
  <1>1. Init => Workers!Init  BY DEF Init
  <1>2. QED  BY <1>1, AlwaysIInv, StepOfTasks, PTL DEF Spec, Workers!Spec

\* So it uses the clock: one thread waits, another one cancels, and Stop() comes
\* when the wait is over (GT_BaseRateScheduler.cpp, StopMasterThread).
THEOREM ClockIsUsedAsSpecified == Spec => Clock!Spec
  <1>1. Init => Clock!Init  BY DEF Init
  <1>2. QED  BY <1>1, StepOfClock, PTL DEF Spec, Clock!Spec

\* No counter leaves its type and no loop leaves the tasks.
THEOREM TypeCorrect == Spec => []TypeOK
  <1>1. IInv => TypeOK  BY DEF IInv
  <1>2. QED  BY <1>1, AlwaysIInv, PTL

\* The vector m_tasks, which has no lock, is complete and every task in it is
\* started whenever the master or a step of the model uses it
\* (GT_BaseRateScheduler.cpp, MasterThread and StopWorkerThreads).
THEOREM TasksLive == Spec => []TasksLiveWhileUsed
  <1>1. IInv => TasksLiveWhileUsed
    <2> SUFFICES ASSUME IInv PROVE TasksLiveWhileUsed
        OBVIOUS
    <2>1. ASSUME master = "notify", NEW i \in Task
          PROVE  numTasks = NumTasks /\ m_started[i] /\ caller[i] = "idle" /\ ~m_terminate[i]
          BY <2>1, TaskFacts DEF IInv, MainInv, TaskPhase, Up
    <2>2. ASSUME NEW i \in Task, thread[i] = "step" PROVE numTasks = NumTasks
      <3>1. m_jobPendingOrRunning[i] /\ m_started[i]  BY <2>2, TaskFacts
      <3>2. main \notin Starting \cup {"stopped", "failed"}
            BY <3>1 DEF IInv, TickPhase, TaskPhase
      <3>3. QED  BY <3>2 DEF IInv, TypeOK, MainInv, Starting, Up
    <2>3. numTasks = NumTasks \/ master # "notify"
          BY <2>1, Constants DEF IInv, MainInv, Up
    <2>4. QED  BY <2>1, <2>2, <2>3 DEF TasksLiveWhileUsed
  <1>2. QED  BY <1>1, AlwaysIInv, PTL

\* The master passes every tick of the clock on to every task exactly once, and
\* one that it has begun to pass on also when it is being stopped
\* (GT_BaseRateScheduler.cpp, MasterThread).
THEOREM TicksReachTasks == Spec => []TicksReachAllTasks
  <1>1. IInv => TicksReachAllTasks
    <2> SUFFICES ASSUME IInv, master \in {"starting", "loop", "wait", "notify"},
                        NEW i \in Task
                 PROVE  delivered = notified[i] + (IF InFlight(i) THEN 1 ELSE 0)
        BY DEF TicksReachAllTasks, IInv, SameTicks
    <2>1. TickPhase(i) /\ ClockPhase  BY DEF IInv
    <2>2. QED  BY <2>1 DEF TickPhase, ClockPhase, InFlight, TickReturned
  <1>2. QED  BY <1>1, AlwaysIInv, PTL

\* Between the join of the master and its own Stop() a task begins one step at
\* most (GT_BaseRateScheduler.cpp, Stop).
THEOREM OneLateStep == Spec => []AtMostOneLateStep
  <1>1. IInv => AtMostOneLateStep  BY DEF IInv, LatePhase, AtMostOneLateStep
  <1>2. QED  BY <1>1, AlwaysIInv, PTL

\* Stop(), and a Start() that fails at any point, leave no thread, no started
\* task and no descriptor behind (GT_BaseRateScheduler.cpp, Start and Stop).
THEOREM EndIsClean == Spec => []CleanEnd
  <1>1. IInv => CleanEnd
    <2> SUFFICES ASSUME IInv, main \in {"stopped", "failed"}
                 PROVE  /\ master = "none" /\ waiter = "out" /\ ~m_isStarted /\ numTasks = 0
                        /\ \A i \in Task : thread[i] = "none" /\ ~m_started[i]
        BY DEF CleanEnd
    <2>1. master = "none" /\ numTasks = 0  BY DEF IInv, MainInv, Up
    <2>2. waiter = "out" /\ ~m_isStarted  BY <2>1 DEF IInv, ClockPhase
    <2>3. ASSUME NEW i \in Task PROVE thread[i] = "none" /\ ~m_started[i]
          BY TaskFacts DEF IInv, TaskPhase
    <2>4. QED  BY <2>1, <2>2, <2>3
  <1>2. QED  BY <1>1, AlwaysIInv, PTL

-----------------------------------------------------------------------------
\* What a tick of the clock becomes: between two ticks, the activations of a
\* task are those its offset and sample time give for the ticks the clock has
\* delivered.
TicksBecomeJobs ==
    master = "loop" => \A i \in Task :
        LET n == Workers!Activations(i) IN
        /\ delivered <= OffsetTicks[i] + n * SampleTicks[i]
        /\ n > 0 => delivered > OffsetTicks[i] + (n - 1) * SampleTicks[i]

\* The behaviours of the tasks are the same in both instances.
LEMMA SameSpec == Workers!Spec => WorkersP!Spec
  <1>1. Workers!Init => WorkersP!Init  BY Zenon DEF Workers!Init, WorkersP!Init
  <1>2. QED  BY <1>1, SameTaskSteps, PTL DEF Workers!Spec, WorkersP!Spec

\* From the timer to the model, through MasterThread, Notify and the worker's
\* Thread: every task keeps its schedule in ticks of the master clock.
THEOREM ScheduleFromClock == Spec => []TicksBecomeJobs
  <1>1. WorkersP!ExactSchedule /\ IInv => TicksBecomeJobs
    <2> SUFFICES ASSUME WorkersP!ExactSchedule, IInv, master = "loop", NEW i \in Task
                 PROVE  LET n == Workers!Activations(i) IN
                        /\ delivered <= OffsetTicks[i] + n * SampleTicks[i]
                        /\ n > 0 => delivered > OffsetTicks[i] + (n - 1) * SampleTicks[i]
        BY DEF TicksBecomeJobs
    <2>1. Workers!Activations(i) = WorkersP!Activations(i)
          BY DEF Workers!Activations, WorkersP!Activations, Workers!Job, WorkersP!Job
    <2>2. m_started[i]  BY DEF IInv, MainInv, TaskPhase
    <2>3. delivered = notified[i]
      <3>1. delivered = notified[i] + (IF InFlight(i) THEN 1 ELSE 0) /\ ~InFlight(i)
            BY DEF IInv, TickPhase, InFlight, TickReturned
      <3>2. notified[i] \in Int  BY DEF IInv, TypeOK, Workers!TypeOK
      <3>3. QED  BY <3>1, <3>2
    <2>4. QED  BY <2>1, <2>2, <2>3, Zenon DEF WorkersP!ExactSchedule
  <1>2. WorkersP!Spec => []WorkersP!ExactSchedule
        BY Constants, WorkersP!ScheduleIsExact
  <1>3. QED  BY <1>1, <1>2, AlwaysIInv, TasksAreUsedAsSpecified, SameSpec, PTL
====
