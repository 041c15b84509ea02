---------------------------- MODULE PeriodicTask ----------------------------
(***************************************************************************)
(* The worker tasks of GT_PeriodicTask.cpp.  Every task of the model owns  *)
(* a thread that sleeps on a semaphore.  The master thread calls Notify on *)
(* every base-rate tick; two down-counters decide whether the tick is an   *)
(* activation of the task, and a compare-exchange on                       *)
(* m_jobPendingOrRunning decides whether the activation becomes a job      *)
(* (sem_post) or is counted as a task overload.  The worker runs one step  *)
(* of the model per semaphore token and then clears the flag.              *)
(*                                                                         *)
(* The variables are functions over Task; "caller" and "posting" are the   *)
(* program counters of the two threads that call into a task object.       *)
(***************************************************************************)
EXTENDS Integers

CONSTANTS
    Task,           \* task IDs
    SampleTicks,    \* SimulinkInterface::sampleTicks
    OffsetTicks,    \* SimulinkInterface::offsetTicks
    MaxTicks        \* bound: Notify calls between a Start and the next one

ASSUME TaskConstants ==
    /\ SampleTicks \in [Task -> Nat \ {0}]
    /\ OffsetTicks \in [Task -> Nat]
    /\ MaxTicks \in Nat

VARIABLES
    m_started, m_terminate, m_jobPendingOrRunning, m_numTaskOverloads,
    m_ticks, m_offsetSamples,
    m_sem,          \* value of the semaphore
    thread,         \* worker: none (no thread, or joined), wait, check, step, exited
    caller,         \* Stop(): idle, terminating (flag set), joining (token posted)
    posting,        \* Notify(): the compare-exchange succeeded, sem_post is next
    shouldTerminate,\* GenericTarget::ShouldTerminate has been called
    notified,       \* history: Notify calls since Start
    completed       \* history: steps of the model completed since Start

counters == <<m_ticks, m_offsetSamples, notified>>
control  == <<m_started, m_terminate, caller>>
vars == <<m_started, m_terminate, m_jobPendingOrRunning, m_numTaskOverloads,
          m_ticks, m_offsetSamples, m_sem, thread, caller, posting,
          shouldTerminate, notified, completed>>

Init ==
    /\ m_started = [i \in Task |-> FALSE]
    /\ m_terminate = [i \in Task |-> FALSE]
    /\ m_jobPendingOrRunning = [i \in Task |-> FALSE]
    /\ m_numTaskOverloads = [i \in Task |-> 0]
    /\ m_ticks = [i \in Task |-> 0]
    /\ m_offsetSamples = [i \in Task |-> 0]
    /\ m_sem = [i \in Task |-> 0]
    /\ thread = [i \in Task |-> "none"]
    /\ caller = [i \in Task |-> "idle"]
    /\ posting = [i \in Task |-> FALSE]
    /\ shouldTerminate = FALSE
    /\ notified = [i \in Task |-> 0]
    /\ completed = [i \in Task |-> 0]

-----------------------------------------------------------------------------
(* Start() and Stop(), called by the main thread.                          *)

\* The semaphore is initialised and the thread created.  A failing sem_init,
\* like a second Start, returns false and changes nothing; a failing
\* pthread_setschedparam is this action followed by Stop().
Start(i) ==
    /\ ~m_started[i] /\ caller[i] = "idle"
    /\ m_sem' = [m_sem EXCEPT ![i] = 0]
    /\ m_started' = [m_started EXCEPT ![i] = TRUE]
    /\ m_ticks' = [m_ticks EXCEPT ![i] = 1]
    /\ m_offsetSamples' = [m_offsetSamples EXCEPT ![i] = OffsetTicks[i]]
    /\ m_jobPendingOrRunning' = [m_jobPendingOrRunning EXCEPT ![i] = FALSE]
    /\ m_numTaskOverloads' = [m_numTaskOverloads EXCEPT ![i] = 0]
    /\ thread' = [thread EXCEPT ![i] = "wait"]
    /\ notified' = [notified EXCEPT ![i] = 0]
    /\ completed' = [completed EXCEPT ![i] = 0]
    /\ UNCHANGED <<m_terminate, caller, posting, shouldTerminate>>

\* Stop(): raise m_terminate ...
StopBegins(i) ==
    /\ m_started[i] /\ caller[i] = "idle" /\ ~posting[i]
    /\ m_terminate' = [m_terminate EXCEPT ![i] = TRUE]
    /\ caller' = [caller EXCEPT ![i] = "terminating"]
    /\ UNCHANGED <<m_started, m_jobPendingOrRunning, m_numTaskOverloads, counters,
                   m_sem, thread, posting, shouldTerminate, completed>>

\* ... wake the thread ...
StopPosts(i) ==
    /\ caller[i] = "terminating"
    /\ m_sem' = [m_sem EXCEPT ![i] = @ + 1]
    /\ caller' = [caller EXCEPT ![i] = "joining"]
    /\ UNCHANGED <<m_started, m_terminate, m_jobPendingOrRunning, m_numTaskOverloads,
                   counters, thread, posting, shouldTerminate, completed>>

\* ... join it, destroy the semaphore (no thread waits on it any more, so
\* sem_destroy succeeds) and lower m_terminate.
StopJoins(i) ==
    /\ caller[i] = "joining" /\ thread[i] = "exited"
    /\ thread' = [thread EXCEPT ![i] = "none"]
    /\ m_sem' = [m_sem EXCEPT ![i] = 0]
    /\ m_started' = [m_started EXCEPT ![i] = FALSE]
    /\ m_terminate' = [m_terminate EXCEPT ![i] = FALSE]
    /\ caller' = [caller EXCEPT ![i] = "idle"]
    /\ UNCHANGED <<m_jobPendingOrRunning, m_numTaskOverloads, counters, posting,
                   shouldTerminate, completed>>

-----------------------------------------------------------------------------
(* Notify(), called by the master thread once per base-rate tick, never    *)
(* while the task is being stopped.  The counters belong to that thread.   *)

\* Mutant: the counter is tested before it is decremented.
OffsetElapsedLate(i) == m_offsetSamples[i] < 0
OffsetElapsed(i) == m_offsetSamples[i] - 1 < 0
TicksElapsed(i)  == m_ticks[i] - 1 < 1

Notifiable(i) ==
    /\ m_started[i] /\ caller[i] = "idle" /\ ~posting[i]
    /\ notified[i] < MaxTicks

\* The initial offset has not elapsed.
NotifyInOffset(i) ==
    /\ Notifiable(i) /\ ~OffsetElapsed(i)
    /\ m_offsetSamples' = [m_offsetSamples EXCEPT ![i] = @ - 1]
    /\ notified' = [notified EXCEPT ![i] = @ + 1]
    /\ UNCHANGED <<control, m_jobPendingOrRunning, m_numTaskOverloads, m_ticks,
                   m_sem, thread, posting, shouldTerminate, completed>>

\* The sample time has not elapsed.
NotifyBetween(i) ==
    /\ Notifiable(i) /\ OffsetElapsed(i) /\ ~TicksElapsed(i)
    /\ m_offsetSamples' = [m_offsetSamples EXCEPT ![i] = 0]
    /\ m_ticks' = [m_ticks EXCEPT ![i] = @ - 1]
    /\ notified' = [notified EXCEPT ![i] = @ + 1]
    /\ UNCHANGED <<control, m_jobPendingOrRunning, m_numTaskOverloads,
                   m_sem, thread, posting, shouldTerminate, completed>>

\* Mutant: the tick that activates the task is not part of its next period.
ReloadOneMore(i) == SampleTicks[i] + 1
ReloadTicks(i) == SampleTicks[i]

\* The tick activates the task.
Activation(i) ==
    /\ Notifiable(i) /\ OffsetElapsed(i) /\ TicksElapsed(i)
    /\ m_offsetSamples' = [m_offsetSamples EXCEPT ![i] = 0]
    /\ m_ticks' = [m_ticks EXCEPT ![i] = ReloadTicks(i)]
    /\ notified' = [notified EXCEPT ![i] = @ + 1]

\* The compare-exchange succeeds: the activation becomes a job.
NotifyAccepted(i) ==
    /\ Activation(i) /\ ~m_jobPendingOrRunning[i]
    /\ m_jobPendingOrRunning' = [m_jobPendingOrRunning EXCEPT ![i] = TRUE]
    /\ posting' = [posting EXCEPT ![i] = TRUE]
    /\ UNCHANGED <<control, m_numTaskOverloads, m_sem, thread, shouldTerminate, completed>>

\* Mutant: the early return after the overload is missing.
NotifyOverloadPosts(i) ==
    /\ Activation(i) /\ m_jobPendingOrRunning[i]
    /\ m_numTaskOverloads' = [m_numTaskOverloads EXCEPT ![i] = @ + 1]
    /\ posting' = [posting EXCEPT ![i] = TRUE]
    /\ UNCHANGED <<control, m_jobPendingOrRunning, m_sem, thread, shouldTerminate,
                   completed>>

\* The compare-exchange fails: a job is queued or running, a task overload.
NotifyOverload(i) ==
    /\ Activation(i) /\ m_jobPendingOrRunning[i]
    /\ m_numTaskOverloads' = [m_numTaskOverloads EXCEPT ![i] = @ + 1]
    /\ UNCHANGED <<control, m_jobPendingOrRunning, m_sem, thread, posting,
                   shouldTerminate, completed>>

\* Mutant: the token is not posted.
NotifyPostLost(i) ==
    /\ posting[i]
    /\ posting' = [posting EXCEPT ![i] = FALSE]
    /\ UNCHANGED <<control, m_jobPendingOrRunning, m_numTaskOverloads, counters,
                   m_sem, thread, shouldTerminate, completed>>

\* sem_post after a successful compare-exchange.
NotifyPosts(i) ==
    /\ posting[i]
    /\ posting' = [posting EXCEPT ![i] = FALSE]
    /\ m_sem' = [m_sem EXCEPT ![i] = @ + 1]
    /\ UNCHANGED <<control, m_jobPendingOrRunning, m_numTaskOverloads, counters,
                   thread, shouldTerminate, completed>>

NotifyCounts(i) ==
    NotifyInOffset(i) \/ NotifyBetween(i) \/ NotifyAccepted(i) \/ NotifyOverload(i)

-----------------------------------------------------------------------------
(* Thread(), the worker.                                                   *)

\* WaitForNotification(): sem_wait takes a token (EINTR waits again).
WaitForNotification(i) ==
    /\ thread[i] = "wait" /\ m_sem[i] > 0
    /\ m_sem' = [m_sem EXCEPT ![i] = @ - 1]
    /\ thread' = [thread EXCEPT ![i] = "check"]
    /\ UNCHANGED <<control, m_jobPendingOrRunning, m_numTaskOverloads, counters,
                   posting, shouldTerminate, completed>>

\* WaitForNotification(): any other error of sem_wait ends the worker and asks
\* the application to terminate.
WaitFails(i) ==
    /\ thread[i] = "wait"
    /\ thread' = [thread EXCEPT ![i] = "exited"]
    /\ shouldTerminate' = TRUE
    /\ UNCHANGED <<control, m_jobPendingOrRunning, m_numTaskOverloads, counters,
                   m_sem, posting, completed>>

ThreadTerminates(i) ==
    /\ thread[i] = "check" /\ m_terminate[i]
    /\ thread' = [thread EXCEPT ![i] = "exited"]
    /\ UNCHANGED <<control, m_jobPendingOrRunning, m_numTaskOverloads, counters,
                   m_sem, posting, shouldTerminate, completed>>

StepBegins(i) ==
    /\ thread[i] = "check" /\ ~m_terminate[i]
    /\ thread' = [thread EXCEPT ![i] = "step"]
    /\ UNCHANGED <<control, m_jobPendingOrRunning, m_numTaskOverloads, counters,
                   m_sem, posting, shouldTerminate, completed>>

\* Mutant: the flag is never cleared.
StepReturnsBusy(i) ==
    /\ thread[i] = "step"
    /\ thread' = [thread EXCEPT ![i] = "wait"]
    /\ completed' = [completed EXCEPT ![i] = @ + 1]
    /\ UNCHANGED <<control, m_jobPendingOrRunning, m_numTaskOverloads, counters,
                   m_sem, posting, shouldTerminate>>

\* SimulinkInterface::Step returns and the flag is cleared.  Nothing another
\* thread does can tell the two apart.
StepReturns(i) ==
    /\ thread[i] = "step"
    /\ thread' = [thread EXCEPT ![i] = "wait"]
    /\ completed' = [completed EXCEPT ![i] = @ + 1]
    /\ m_jobPendingOrRunning' = [m_jobPendingOrRunning EXCEPT ![i] = FALSE]
    /\ UNCHANGED <<control, m_numTaskOverloads, counters, m_sem, posting,
                   shouldTerminate>>

-----------------------------------------------------------------------------
Works(i) ==
    WaitForNotification(i) \/ ThreadTerminates(i) \/ StepBegins(i) \/ StepReturns(i)
Worker(i) == Works(i) \/ WaitFails(i)
StopReaches(i) == StopPosts(i) \/ StopJoins(i)

\* Another thread of the application asks it to terminate.
TerminationRequested ==
    /\ shouldTerminate' = TRUE
    /\ UNCHANGED <<control, m_jobPendingOrRunning, m_numTaskOverloads, counters,
                   m_sem, thread, posting, completed>>

Next ==
    \/ TerminationRequested
    \/ \E i \in Task :
         \/ Start(i) \/ StopBegins(i) \/ StopReaches(i)
         \/ NotifyCounts(i) \/ NotifyPosts(i)
         \/ Worker(i)

Spec == Init /\ [][Next]_vars

\* A thread that can take a step takes one, and a step of the model returns.
\* Whether the master notifies and when the task is started or stopped is up
\* to others, and sem_wait need not fail.
Fairness ==
    \A i \in Task :
        WF_vars(Works(i)) /\ WF_vars(NotifyPosts(i)) /\ WF_vars(StopReaches(i))
FairSpec == Spec /\ Fairness

-----------------------------------------------------------------------------
TypeOK ==
    /\ m_started \in [Task -> BOOLEAN]
    /\ m_terminate \in [Task -> BOOLEAN]
    /\ m_jobPendingOrRunning \in [Task -> BOOLEAN]
    /\ m_numTaskOverloads \in [Task -> Nat]
    /\ m_ticks \in [Task -> Nat]
    /\ m_offsetSamples \in [Task -> Nat]
    /\ m_sem \in [Task -> Nat]
    /\ thread \in [Task -> {"none", "wait", "check", "step", "exited"}]
    /\ caller \in [Task -> {"idle", "terminating", "joining"}]
    /\ posting \in [Task -> BOOLEAN]
    /\ shouldTerminate \in BOOLEAN
    /\ notified \in [Task -> 0..MaxTicks]
    /\ completed \in [Task -> Nat]

\* The job a task holds, queued or running.
Job(i) == IF m_jobPendingOrRunning[i] THEN 1 ELSE 0

\* What became of the activations of a task since it was started: each is a
\* completed step, a task overload, or the job that is queued or running.
Activations(i) == completed[i] + m_numTaskOverloads[i] + Job(i)

\* No activation is lost, invented or late: after any number of Notify calls
\* the activations are exactly those at ticks offset, offset + sample,
\* offset + 2 * sample, ... that have passed (tick 0 is the first call), each
\* run once, still held, or counted as an overload.  This ties the two
\* down-counters of Notify, the compare-exchange and the worker together, and
\* holds during and after a Stop that drops the queued job.
ExactSchedule ==
    \A i \in Task : m_started[i] =>
        LET n == Activations(i) IN
        /\ notified[i] <= OffsetTicks[i] + n * SampleTicks[i]
        /\ n > 0 => notified[i] > OffsetTicks[i] + (n - 1) * SampleTicks[i]

\* Tokens of a task: posted, about to be posted, or taken by the worker.
Tokens(i) ==
    m_sem[i] + (IF posting[i] THEN 1 ELSE 0)
             + (IF thread[i] \in {"check", "step"} THEN 1 ELSE 0)

\* The flag m_jobPendingOrRunning and the semaphore never disagree: there is
\* one token while a job is held and none otherwise, Stop() adds at most its
\* own, and the model is stepped only on behalf of a held job (never on the
\* token of Stop, and never twice for one activation).
TokenMatchesJob ==
    \A i \in Task :
        /\ m_started[i] /\ ~m_terminate[i] => Tokens(i) = Job(i)
        /\ m_terminate[i] => Tokens(i) <= Job(i) + 1
        /\ thread[i] = "step" => m_jobPendingOrRunning[i]

\* A worker leaves its loop only because it is being stopped or after it has
\* asked the whole application to terminate: a dead task is never unnoticed.
NoSilentExit ==
    \A i \in Task : thread[i] = "exited" => m_terminate[i] \/ shouldTerminate

\* An accepted job is eventually done, unless the task is stopped or its
\* worker has given up: no token is lost between Notify and sem_wait.
AcceptedJobCompletes ==
    \A i \in Task :
        m_jobPendingOrRunning[i] ~>
            \/ ~m_jobPendingOrRunning[i]
            \/ m_terminate[i] \/ thread[i] = "exited" \/ ~m_started[i]

-----------------------------------------------------------------------------
\* The promise of a task, free of counters, flags and semaphores.
Schedule == INSTANCE TaskSchedule WITH tick <- notified, busy <- m_jobPendingOrRunning,
                                       overloads <- m_numTaskOverloads
ImplementsSchedule == Schedule!Spec
====
