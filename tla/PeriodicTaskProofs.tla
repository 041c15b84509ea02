------------------------- MODULE PeriodicTaskProofs -------------------------
(***************************************************************************)
(* The safety of the worker tasks for every set of tasks, every sample     *)
(* time, every offset and any number of ticks.                             *)
(***************************************************************************)
EXTENDS PeriodicTask, TLAPS

\* The down-counters measure the distance to the next activation.
CountersInv(i) ==
    m_started[i] =>
        /\ m_ticks[i] \in 1..SampleTicks[i]
        /\ m_offsetSamples[i] > 0 => m_ticks[i] = 1 /\ Activations(i) = 0
        /\ m_offsetSamples[i] + m_ticks[i] - 1
             = OffsetTicks[i] + Activations(i) * SampleTicks[i] - notified[i]

\* Where the main thread is in Stop(), what the two flags say, and how many
\* tokens there are.
TokensInv(i) ==
    /\ m_terminate[i] <=> caller[i] # "idle"
    /\ posting[i] => caller[i] = "idle"
    /\ ~m_started[i] => /\ caller[i] = "idle" /\ ~posting[i]
                        /\ thread[i] = "none" /\ m_sem[i] = 0
    /\ m_started[i] /\ caller[i] = "idle" => Tokens(i) = Job(i)
    /\ caller[i] = "terminating" => Tokens(i) <= Job(i)
    /\ caller[i] = "joining" => Tokens(i) <= Job(i) + 1
    /\ thread[i] = "step" => m_jobPendingOrRunning[i]
    /\ thread[i] = "exited" => m_terminate[i] \/ shouldTerminate

TaskInv(i) == CountersInv(i) /\ TokensInv(i)

IInv == TypeOK /\ \A i \in Task : TaskInv(i)

-----------------------------------------------------------------------------
(* Multiplication by the number of activations is all the arithmetic that  *)
(* is not linear.                                                          *)

\* One activation more is one sample time more.
LEMMA OneMoreActivation ==
    ASSUME NEW a \in Nat, NEW s \in Nat
    PROVE  /\ (a + 1) * s = a * s + s
           /\ (a - 1) * s = a * s - s
           /\ a * s \in Nat
  OBVIOUS

\* What became of the activations is a natural number.
LEMMA ActivationsNat == TypeOK => \A i \in Task : Activations(i) \in Nat
  BY DEF TypeOK, Activations, Job

\* No task is started, no thread exists and nothing is counted.
LEMMA InitInv == Init => IInv
  <1> SUFFICES ASSUME Init PROVE IInv
      OBVIOUS
  <1>1. TypeOK
    <2>1. 0 \in Nat /\ 0 \in 0..MaxTicks  BY TaskConstants
    <2>2. QED  BY <2>1, Zenon DEF Init, TypeOK
  <1>2. \A i \in Task : CountersInv(i)  BY DEF Init, CountersInv
  <1>3. ASSUME NEW i \in Task PROVE TokensInv(i)
    <2>1. /\ ~m_terminate[i] /\ ~posting[i] /\ ~m_started[i]
          /\ caller[i] = "idle" /\ thread[i] = "none" /\ m_sem[i] = 0
          BY DEF Init
    <2>2. QED  BY <2>1 DEF TokensInv
  <1>4. QED  BY <1>1, <1>2, <1>3 DEF IInv, TaskInv

-----------------------------------------------------------------------------
\* Every step keeps the variables in their types.
LEMMA TypeInductive == TypeOK /\ [Next]_vars => TypeOK'
  <1> SUFFICES ASSUME TypeOK, [Next]_vars PROVE TypeOK'
      OBVIOUS
  <1> USE TaskConstants DEF TypeOK, counters, control
  <1>1. CASE TerminationRequested  BY <1>1 DEF TerminationRequested
  <1>2. ASSUME NEW i \in Task, Start(i) \/ StopBegins(i) \/ StopReaches(i)
        PROVE  TypeOK'
    <2>1. CASE Start(i)       BY <2>1 DEF Start
    <2>2. CASE StopBegins(i)  BY <2>2 DEF StopBegins
    <2>3. CASE StopPosts(i)   BY <2>3 DEF StopPosts
    <2>4. CASE StopJoins(i)   BY <2>4 DEF StopJoins
    <2>5. QED  BY <1>2, <2>1, <2>2, <2>3, <2>4 DEF StopReaches
  <1>3. ASSUME NEW i \in Task, NotifyCounts(i) \/ NotifyPosts(i)
        PROVE  TypeOK'
    <2>1. CASE NotifyInOffset(i)  BY <2>1 DEF NotifyInOffset, Notifiable, OffsetElapsed
    <2>2. CASE NotifyBetween(i)   BY <2>2 DEF NotifyBetween, Notifiable, TicksElapsed
    <2>3. CASE NotifyAccepted(i)
          BY <2>3 DEF NotifyAccepted, Activation, Notifiable, ReloadTicks
    <2>4. CASE NotifyOverload(i)
          BY <2>4 DEF NotifyOverload, Activation, Notifiable, ReloadTicks
    <2>5. CASE NotifyPosts(i)     BY <2>5 DEF NotifyPosts
    <2>6. QED  BY <1>3, <2>1, <2>2, <2>3, <2>4, <2>5 DEF NotifyCounts
  <1>4. ASSUME NEW i \in Task, Worker(i)
        PROVE  TypeOK'
    <2>1. CASE WaitForNotification(i)  BY <2>1 DEF WaitForNotification
    <2>2. CASE WaitFails(i)            BY <2>2 DEF WaitFails
    <2>3. CASE ThreadTerminates(i)     BY <2>3 DEF ThreadTerminates
    <2>4. CASE StepBegins(i)           BY <2>4 DEF StepBegins
    <2>5. CASE StepReturns(i)          BY <2>5 DEF StepReturns
    <2>6. QED  BY <1>4, <2>1, <2>2, <2>3, <2>4, <2>5 DEF Worker, Works
  <1>5. CASE UNCHANGED vars  BY <1>5 DEF vars
  <1>6. QED  BY <1>1, <1>2, <1>3, <1>4, <1>5 DEF Next

\* TypeOK holds throughout: no counter of the code goes below zero.
THEOREM TypeCorrect == Spec => []TypeOK
  <1>1. Init => TypeOK  BY InitInv DEF IInv
  <1>2. QED  BY <1>1, TypeInductive, PTL DEF Spec

-----------------------------------------------------------------------------
\* A task whose variables a step leaves alone keeps its invariant.
Untouched(i) ==
    /\ m_started'[i] = m_started[i] /\ m_terminate'[i] = m_terminate[i]
    /\ m_jobPendingOrRunning'[i] = m_jobPendingOrRunning[i]
    /\ m_numTaskOverloads'[i] = m_numTaskOverloads[i]
    /\ m_ticks'[i] = m_ticks[i] /\ m_offsetSamples'[i] = m_offsetSamples[i]
    /\ m_sem'[i] = m_sem[i] /\ thread'[i] = thread[i] /\ caller'[i] = caller[i]
    /\ posting'[i] = posting[i] /\ (shouldTerminate => shouldTerminate')
    /\ notified'[i] = notified[i] /\ completed'[i] = completed[i]

LEMMA UntouchedTask ==
    ASSUME NEW i \in Task, TaskInv(i), Untouched(i)
    PROVE  TaskInv(i)'
  BY DEF Untouched, TaskInv, CountersInv, TokensInv, Tokens, Activations, Job

\* A step of one task touches no other task.
LEMMA MainTouchesOne ==
    ASSUME TypeOK, NEW j \in Task, Start(j) \/ StopBegins(j) \/ StopReaches(j),
           NEW i \in Task, i # j
    PROVE  Untouched(i)
  <1> USE DEF Untouched, TypeOK, counters, control
  <1>1. CASE Start(j)       BY <1>1 DEF Start
  <1>2. CASE StopBegins(j)  BY <1>2 DEF StopBegins
  <1>3. CASE StopPosts(j)   BY <1>3 DEF StopPosts
  <1>4. CASE StopJoins(j)   BY <1>4 DEF StopJoins
  <1>5. QED  BY <1>1, <1>2, <1>3, <1>4 DEF StopReaches

LEMMA MainKeepsInv ==
    ASSUME TypeOK, TypeOK', NEW i \in Task, TaskInv(i),
           Start(i) \/ StopBegins(i) \/ StopReaches(i)
    PROVE  TaskInv(i)'
  <1> USE TaskConstants DEF TypeOK, counters, control
  <1>1. CASE Start(i)
    <2>1. CountersInv(i)'  BY <1>1 DEF Start, CountersInv, Activations, Job
    <2>2. TokensInv(i)'    BY <1>1 DEF Start, TaskInv, TokensInv, Tokens, Job
    <2>3. QED  BY <2>1, <2>2 DEF TaskInv
  <1> USE DEF TaskInv
  <1>2. CASE StopBegins(i)
    <2>1. CountersInv(i)'  BY <1>2 DEF StopBegins, CountersInv, Activations, Job
    <2>2. TokensInv(i)'    BY <1>2 DEF StopBegins, TokensInv, Tokens, Job
    <2>3. QED  BY <2>1, <2>2
  <1>3. CASE StopPosts(i)
    <2>1. CountersInv(i)'  BY <1>3 DEF StopPosts, CountersInv, Activations, Job
    <2>2. TokensInv(i)'    BY <1>3 DEF StopPosts, TokensInv, Tokens, Job
    <2>3. QED  BY <2>1, <2>2
  <1>4. CASE StopJoins(i)
    <2>1. CountersInv(i)'  BY <1>4 DEF StopJoins, CountersInv
    <2>2. TokensInv(i)'    BY <1>4 DEF StopJoins, TokensInv
    <2>3. QED  BY <2>1, <2>2
  <1>5. QED  BY <1>1, <1>2, <1>3, <1>4 DEF StopReaches

\* A Notify or a step of the worker touches no other task.
LEMMA OthersTouchOne ==
    ASSUME TypeOK, NEW j \in Task, NotifyCounts(j) \/ NotifyPosts(j) \/ Worker(j),
           NEW i \in Task, i # j
    PROVE  Untouched(i)
  <1> USE DEF Untouched, TypeOK, counters, control, Activation
  <1>1. CASE NotifyInOffset(j)       BY <1>1 DEF NotifyInOffset
  <1>2. CASE NotifyBetween(j)        BY <1>2 DEF NotifyBetween
  <1>3. CASE NotifyAccepted(j)       BY <1>3 DEF NotifyAccepted
  <1>4. CASE NotifyOverload(j)       BY <1>4 DEF NotifyOverload
  <1>5. CASE NotifyPosts(j)          BY <1>5 DEF NotifyPosts
  <1>6. CASE WaitForNotification(j)  BY <1>6 DEF WaitForNotification
  <1>7. CASE WaitFails(j)            BY <1>7 DEF WaitFails
  <1>8. CASE ThreadTerminates(j)     BY <1>8 DEF ThreadTerminates
  <1>9. CASE StepBegins(j)           BY <1>9 DEF StepBegins
  <1>10. CASE StepReturns(j)         BY <1>10 DEF StepReturns
  <1>11. QED  BY <1>1, <1>2, <1>3, <1>4, <1>5, <1>6, <1>7, <1>8, <1>9, <1>10
              DEF NotifyCounts, Worker, Works

\* The four outcomes of Notify, and its sem_post.  The two that activate the
\* task add one activation and reload the tick counter.
LEMMA NotifyKeepsInv ==
    ASSUME TypeOK, TypeOK', NEW i \in Task, TaskInv(i), NotifyCounts(i) \/ NotifyPosts(i)
    PROVE  TaskInv(i)'
  <1> DEFINE a == Activations(i)
             s == SampleTicks[i]
  <1> USE TaskConstants DEF TypeOK, counters, control, TaskInv
  <1>0. a \in Nat /\ s \in Nat \ {0} /\ (a + 1) * s = a * s + s /\ a * s \in Nat
        BY ActivationsNat, OneMoreActivation
  <1>1. CASE NotifyInOffset(i)
    <2>1. a' = a  BY <1>1 DEF NotifyInOffset, Activations, Job
    <2>2. CountersInv(i)'
          BY <1>0, <1>1, <2>1 DEF NotifyInOffset, Notifiable, OffsetElapsed, CountersInv
    <2>3. TokensInv(i)'  BY <1>1 DEF NotifyInOffset, TokensInv, Tokens, Job
    <2>4. QED  BY <2>2, <2>3
  <1>2. CASE NotifyBetween(i)
    <2>1. a' = a  BY <1>2 DEF NotifyBetween, Activations, Job
    <2>2. CountersInv(i)'
          BY <1>0, <1>2, <2>1
          DEF NotifyBetween, Notifiable, OffsetElapsed, TicksElapsed, CountersInv
    <2>3. TokensInv(i)'  BY <1>2 DEF NotifyBetween, TokensInv, Tokens, Job
    <2>4. QED  BY <2>2, <2>3
  <1>3. ASSUME Activation(i), a' = a + 1, m_started' = m_started
        PROVE  CountersInv(i)'
    <2>1. m_started[i] /\ m_offsetSamples[i] = 0 /\ m_ticks[i] = 1
          BY <1>3 DEF Activation, Notifiable, OffsetElapsed, TicksElapsed, CountersInv
    <2>2. /\ m_offsetSamples'[i] = 0 /\ m_ticks'[i] = s
          /\ notified'[i] = notified[i] + 1
          BY <1>3 DEF Activation, ReloadTicks
    <2>3. 0 = OffsetTicks[i] + a * s - notified[i]
          BY <2>1 DEF CountersInv
    <2>4. s - 1 = OffsetTicks[i] + (a + 1) * s - (notified[i] + 1)
          BY <1>0, <2>3
    <2>5. QED  BY <1>0, <1>3, <2>2, <2>4 DEF CountersInv
  <1>4. CASE NotifyAccepted(i)
    <2>1. a' = a + 1  BY <1>4 DEF NotifyAccepted, Activations, Job
    <2>2. CountersInv(i)'  BY <1>3, <1>4, <2>1 DEF NotifyAccepted
    <2>3. TokensInv(i)'
          BY <1>4 DEF NotifyAccepted, Activation, Notifiable, TokensInv, Tokens, Job
    <2>4. QED  BY <2>2, <2>3
  <1>5. CASE NotifyOverload(i)
    <2>1. a' = a + 1  BY <1>5 DEF NotifyOverload, Activations, Job
    <2>2. CountersInv(i)'  BY <1>3, <1>5, <2>1 DEF NotifyOverload
    <2>3. TokensInv(i)'  BY <1>5 DEF NotifyOverload, TokensInv, Tokens, Job
    <2>4. QED  BY <2>2, <2>3
  <1>6. CASE NotifyPosts(i)
    <2>1. CountersInv(i)'  BY <1>6 DEF NotifyPosts, CountersInv, Activations, Job
    <2>2. TokensInv(i)'    BY <1>6 DEF NotifyPosts, TokensInv, Tokens, Job
    <2>3. QED  BY <2>1, <2>2
  <1>7. QED  BY <1>1, <1>2, <1>4, <1>5, <1>6 DEF NotifyCounts

\* The worker takes a token, works on the job behind it, and gives both up.
LEMMA WorkerKeepsInv ==
    ASSUME TypeOK, TypeOK', NEW i \in Task, TaskInv(i), Worker(i)
    PROVE  TaskInv(i)'
  <1> USE DEF TypeOK, counters, control, TaskInv
  <1>1. CASE StepReturns(i)
    <2>1. Activations(i)' = Activations(i)
          BY <1>1 DEF StepReturns, TokensInv, Activations, Job
    <2>2. CountersInv(i)'  BY <1>1, <2>1 DEF StepReturns, CountersInv
    <2>3. TokensInv(i)'    BY <1>1 DEF StepReturns, TokensInv, Tokens, Job
    <2>4. QED  BY <2>2, <2>3
  <1>2. ASSUME UNCHANGED <<counters, m_started, m_numTaskOverloads, completed,
                           m_jobPendingOrRunning>>
        PROVE  CountersInv(i)'
        BY <1>2 DEF CountersInv, Activations, Job
  <1>3. CASE WaitForNotification(i)
    <2>1. TokensInv(i)'  BY <1>3 DEF WaitForNotification, TokensInv, Tokens, Job
    <2>2. QED  BY <1>2, <1>3, <2>1 DEF WaitForNotification
  <1>4. CASE WaitFails(i)
    <2>1. TokensInv(i)'  BY <1>4 DEF WaitFails, TokensInv, Tokens, Job
    <2>2. QED  BY <1>2, <1>4, <2>1 DEF WaitFails
  <1>5. CASE ThreadTerminates(i)
    <2>1. TokensInv(i)'  BY <1>5 DEF ThreadTerminates, TokensInv, Tokens, Job
    <2>2. QED  BY <1>2, <1>5, <2>1 DEF ThreadTerminates
  <1>6. CASE StepBegins(i)
    <2>1. TokensInv(i)'  BY <1>6 DEF StepBegins, TokensInv, Tokens, Job
    <2>2. QED  BY <1>2, <1>6, <2>1 DEF StepBegins
  <1>7. QED  BY <1>1, <1>3, <1>4, <1>5, <1>6 DEF Worker, Works

-----------------------------------------------------------------------------
\* The invariant is inductive.
LEMMA InvInductive == IInv /\ [Next]_vars => IInv'
  <1> SUFFICES ASSUME IInv, [Next]_vars PROVE IInv'
      OBVIOUS
  <1>1. TypeOK /\ TypeOK'  BY TypeInductive DEF IInv
  <1>2. ASSUME NEW i \in Task PROVE TaskInv(i)'
    <2> USE <1>1, <1>2
    <2>0. TaskInv(i)  BY DEF IInv
    <2>1. CASE TerminationRequested
          BY <2>0, <2>1, UntouchedTask
          DEF TerminationRequested, Untouched, counters, control
    <2>2. CASE UNCHANGED vars
          BY <2>0, <2>2, UntouchedTask DEF vars, Untouched
    <2>3. ASSUME NEW j \in Task, Start(j) \/ StopBegins(j) \/ StopReaches(j)
          PROVE  TaskInv(i)'
          BY <2>0, <2>3, MainTouchesOne, UntouchedTask, MainKeepsInv
    <2>4. ASSUME NEW j \in Task, NotifyCounts(j) \/ NotifyPosts(j) \/ Worker(j)
          PROVE  TaskInv(i)'
          BY <2>0, <2>4, OthersTouchOne, UntouchedTask, NotifyKeepsInv, WorkerKeepsInv
    <2>5. QED  BY <2>1, <2>2, <2>3, <2>4 DEF Next
  <1>3. QED  BY <1>1, <1>2 DEF IInv

LEMMA InvCorrect == Spec => []IInv
  BY InitInv, InvInductive, PTL DEF Spec

\* The activations of a task are exactly those its offset and sample time
\* call for (GT_PeriodicTask.cpp, Notify, Thread and Start).
THEOREM ScheduleIsExact == Spec => []ExactSchedule
  <1>1. IInv => ExactSchedule
    <2> SUFFICES ASSUME IInv, NEW i \in Task, m_started[i]
                 PROVE  LET n == Activations(i) IN
                        /\ notified[i] <= OffsetTicks[i] + n * SampleTicks[i]
                        /\ n > 0 => notified[i] > OffsetTicks[i] + (n - 1) * SampleTicks[i]
        BY DEF ExactSchedule
    <2> DEFINE n == Activations(i)
               s == SampleTicks[i]
    <2>1. n \in Nat /\ s \in Nat /\ (n - 1) * s = n * s - s /\ n * s \in Nat
          BY ActivationsNat, OneMoreActivation, TaskConstants DEF IInv
    <2>2. /\ m_ticks[i] \in 1..s /\ m_offsetSamples[i] \in Nat
          /\ notified[i] \in Nat /\ OffsetTicks[i] \in Nat
          /\ m_offsetSamples[i] > 0 => n = 0
          /\ m_offsetSamples[i] + m_ticks[i] - 1 = OffsetTicks[i] + n * s - notified[i]
          BY TaskConstants DEF IInv, TypeOK, TaskInv, CountersInv
    <2>3. QED  BY <2>1, <2>2
  <1>2. QED  BY <1>1, InvCorrect, PTL

\* The job flag and the semaphore agree, also while the task is stopped, and
\* no step runs without a job (GT_PeriodicTask.cpp, Notify, Thread and Stop).
THEOREM TokensMatchJobs == Spec => []TokenMatchesJob
  <1>1. IInv => TokenMatchesJob
    <2> SUFFICES ASSUME IInv, NEW i \in Task
                 PROVE  /\ m_started[i] /\ ~m_terminate[i] => Tokens(i) = Job(i)
                        /\ m_terminate[i] => Tokens(i) <= Job(i) + 1
                        /\ thread[i] = "step" => m_jobPendingOrRunning[i]
        BY DEF TokenMatchesJob
    <2>1. caller[i] \in {"idle", "terminating", "joining"}  BY DEF IInv, TypeOK
    <2>2. Tokens(i) \in Int /\ Job(i) \in Int  BY DEF IInv, TypeOK, Tokens, Job
    <2>3. QED  BY <2>1, <2>2 DEF IInv, TaskInv, TokensInv
  <1>2. QED  BY <1>1, InvCorrect, PTL

\* A worker never dies unnoticed (GT_PeriodicTask.cpp, WaitForNotification
\* and Thread).
THEOREM WorkersDoNotDieSilently == Spec => []NoSilentExit
  <1>1. IInv => NoSilentExit  BY DEF IInv, TaskInv, TokensInv, NoSilentExit
  <1>2. QED  BY <1>1, InvCorrect, PTL

-----------------------------------------------------------------------------
(* The task implements the schedule it promises.                           *)

\* Multiples of s are at least s apart.
LEMMA MultiplesApart ==
    ASSUME NEW a \in Nat, NEW n \in Nat, NEW s \in Nat \ {0}
    PROVE  /\ a <= a * s
           /\ a * s - n * s \notin 1..(s - 1)
  <1>1. ASSUME NEW b \in Nat, NEW c \in Nat, b <= c PROVE b * s <= c * s
    <2>1. PICK d \in Nat : c = b + d  BY <1>1
    <2>2. c * s = b * s + d * s /\ d * s \in Nat /\ b * s \in Nat  BY <2>1
    <2>3. QED  BY <2>2
  <1>2. a <= a * s
    <2>1. PICK t \in Nat : s = t + 1  BY SMT
    <2>2. a * s = a * t + a /\ a * t \in Nat  BY <2>1
    <2>3. QED  BY <2>2
  <1>3. a * s \in Nat /\ n * s \in Nat  OBVIOUS
  <1>4. CASE a <= n
        BY <1>1, <1>3, <1>4
  <1>5. CASE n <= a - 1
    <2>1. a - 1 \in Nat /\ (a - 1) * s = a * s - s  BY <1>5, OneMoreActivation
    <2>2. n * s <= (a - 1) * s  BY <1>1, <1>5, <2>1
    <2>3. QED  BY <1>2, <1>3, <2>1, <2>2
  <1>6. QED  BY <1>2, <1>4, <1>5

\* The down-counters have both elapsed exactly at the ticks that are due: with
\* o + t - 1 ticks to go until activation a, these are off, off + s, ...
LEMMA ElapsedIffDue ==
    ASSUME IInv, NEW i \in Task, m_started[i]
    PROVE  (OffsetElapsed(i) /\ TicksElapsed(i)) <=> Schedule!Due(i, notified[i])
  <1>1. /\ Activations(i) \in Nat /\ SampleTicks[i] \in Nat \ {0}
        /\ notified[i] \in Nat /\ OffsetTicks[i] \in Nat
        /\ m_ticks[i] \in 1..SampleTicks[i] /\ m_offsetSamples[i] \in Nat
        /\ m_offsetSamples[i] > 0 => m_ticks[i] = 1 /\ Activations(i) = 0
        /\ m_offsetSamples[i] + m_ticks[i] - 1
             = OffsetTicks[i] + Activations(i) * SampleTicks[i] - notified[i]
        BY TaskConstants, ActivationsNat DEF IInv, TypeOK, TaskInv, CountersInv
  <1>2. PICK a \in Nat : a = Activations(i)  BY <1>1, Zenon
  <1>3. PICK s \in Nat \ {0} : s = SampleTicks[i]  BY <1>1, Zenon
  <1>4. PICK k \in Nat : k = notified[i]  BY <1>1, Zenon
  <1>5. PICK off \in Nat : off = OffsetTicks[i]  BY <1>1, Zenon
  <1>6. PICK o \in Nat : o = m_offsetSamples[i]  BY <1>1, Zenon
  <1>7. PICK t \in Nat : t = m_ticks[i]  BY <1>1
  <1>8. PICK p \in Nat : p = a * s  OBVIOUS
  <1>9. t \in 1..s /\ (o > 0 => t = 1 /\ a = 0) /\ o + t - 1 = off + p - k
        BY <1>1, <1>2, <1>3, <1>4, <1>5, <1>6, <1>7, <1>8
  <1>10. a <= p /\ (a = 0 => p = 0)  BY <1>8, MultiplesApart
  <1>11. (o - 1 < 0 /\ t - 1 < 1) <=> \E n \in 0..k : k = off + n * s
    <2>1. CASE o = 0 /\ t = 1
      <3>1. k = off + p  BY <1>9, <2>1
      <3>2. a \in 0..k  BY <1>10, <3>1
      <3>3. QED  BY <1>8, <2>1, <3>1, <3>2
    <2>2. CASE ~(o = 0 /\ t = 1)
      <3>1. ASSUME NEW n \in 0..k, k = off + n * s PROVE FALSE
        <4>1. PICK q \in Nat : q = n * s  OBVIOUS
        <4>2. n \in Nat  OBVIOUS
        <4>3. a * s - n * s \notin 1..(s - 1)  BY <4>2, MultiplesApart, Zenon
        <4>4. p - q \notin 1..(s - 1)  BY <1>8, <4>1, <4>3, Zenon
        <4>5. o + t - 1 = p - q  BY <1>9, <3>1, <4>1
        <4>6. CASE o = 0  BY <1>9, <2>2, <4>4, <4>5, <4>6
        <4>7. CASE o > 0  BY <1>9, <1>10, <4>5, <4>7
        <4>8. QED  BY <4>6, <4>7
      <3>2. ~(o - 1 < 0 /\ t - 1 < 1)  BY <1>9, <2>2
      <3>3. QED  BY <3>1, <3>2, Zenon
    <2>3. QED  BY <2>1, <2>2
  <1>12. QED
         BY <1>3, <1>4, <1>5, <1>6, <1>7, <1>11, Zenon
         DEF OffsetElapsed, TicksElapsed, Schedule!Due

\* Every step of the tasks is a step of the schedule or changes nothing in it.
LEMMA StepRefines == IInv /\ [Next]_vars => [Schedule!Next]_(Schedule!vars)
  <1> SUFFICES ASSUME IInv, [Next]_vars PROVE [Schedule!Next]_(Schedule!vars)
      OBVIOUS
  <1> USE DEF counters, control
  <1>1. CASE TerminationRequested \/ UNCHANGED vars
        BY <1>1 DEF TerminationRequested, vars, Schedule!vars
  <1>2. ASSUME NEW i \in Task, Start(i)
        PROVE  Schedule!Next
    <2>1. Schedule!Restart(i)  BY <1>2 DEF Start, Schedule!Restart
    <2>2. QED  BY <2>1 DEF Schedule!Next
  <1>3. ASSUME NEW i \in Task, StopBegins(i) \/ StopReaches(i) \/ NotifyPosts(i)
        PROVE  UNCHANGED Schedule!vars
        BY <1>3 DEF StopBegins, StopReaches, StopPosts, StopJoins, NotifyPosts, Schedule!vars
  <1>4. ASSUME NEW i \in Task, NotifyCounts(i)
        PROVE  Schedule!Next
    <2>1. m_started[i] /\ notified[i] < MaxTicks
          BY <1>4 DEF NotifyCounts, NotifyInOffset, NotifyBetween, NotifyAccepted,
                      NotifyOverload, Activation, Notifiable
    <2>2. (OffsetElapsed(i) /\ TicksElapsed(i)) <=> Schedule!Due(i, notified[i])
          BY <2>1, ElapsedIffDue
    <2> USE <2>1, <2>2 DEF Schedule!Advance
    <2>3. CASE NotifyInOffset(i)
      <3>1. Schedule!Skip(i)  BY <2>3 DEF NotifyInOffset, Schedule!Skip
      <3>2. QED  BY <3>1 DEF Schedule!Next
    <2>4. CASE NotifyBetween(i)
      <3>1. Schedule!Skip(i)  BY <2>4 DEF NotifyBetween, Schedule!Skip
      <3>2. QED  BY <3>1 DEF Schedule!Next
    <2>5. CASE NotifyAccepted(i)
      <3>1. Schedule!Activate(i)
            BY <2>5 DEF NotifyAccepted, Activation, Schedule!Activate
      <3>2. QED  BY <3>1 DEF Schedule!Next
    <2>6. CASE NotifyOverload(i)
      <3>1. Schedule!Overload(i)
            BY <2>6 DEF NotifyOverload, Activation, Schedule!Overload
      <3>2. QED  BY <3>1 DEF Schedule!Next
    <2>7. QED  BY <1>4, <2>3, <2>4, <2>5, <2>6 DEF NotifyCounts
  <1>5. ASSUME NEW i \in Task, WaitForNotification(i) \/ WaitFails(i)
                               \/ ThreadTerminates(i) \/ StepBegins(i)
        PROVE  UNCHANGED Schedule!vars
        BY <1>5 DEF WaitForNotification, WaitFails, ThreadTerminates, StepBegins,
                    Schedule!vars
  <1>6. ASSUME NEW i \in Task, StepReturns(i)
        PROVE  Schedule!Next
    <2>1. m_jobPendingOrRunning[i]
          BY <1>6 DEF StepReturns, IInv, TaskInv, TokensInv
    <2>2. Schedule!Complete(i)  BY <1>6, <2>1 DEF StepReturns, Schedule!Complete
    <2>3. QED  BY <2>2 DEF Schedule!Next
  <1>7. QED  BY <1>1, <1>2, <1>3, <1>4, <1>5, <1>6 DEF Next, Worker, Works

\* For every sample time and offset, the two down-counters, the flag and the
\* semaphore of GT_PeriodicTask.cpp implement the arithmetic schedule of
\* TaskSchedule.
THEOREM TasksFollowSchedule == Spec => ImplementsSchedule
  <1>1. Init => Schedule!Init  BY DEF Init, Schedule!Init
  <1>2. QED  BY <1>1, InvCorrect, StepRefines, PTL
             DEF Spec, ImplementsSchedule, Schedule!Spec
====
