----------------------------- MODULE UDPServices -----------------------------
(***************************************************************************)
(* The UDP services of GT_DriverImplementationDetails and their manager:   *)
(* sockets are opened while the model is initialised, bound then or, if    *)
(* that fails, by a management thread that the first step to send or       *)
(* receive wakes up; steps that receive join and leave multicast groups.   *)
(*                                                                         *)
(* Services are numbered in the order of their creation.  What a step does *)
(* to a socket under the lock of its service is one action.                *)
(***************************************************************************)
EXTENDS Integers

CONSTANTS
    NumServices,    \* ports of the model
    Task,           \* threads that call the steps
    Group,          \* multicast addresses
    NoGroup,        \* an address that is none
    MaxFaults       \* bound: calls of the kernel that fail

ASSUME UDPConstants ==
    NumServices \in Nat \ {0} /\ NoGroup \notin Group /\ MaxFaults \in Nat

Service == 1..NumServices

VARIABLES
    \* of a service
    isOpen,                     \* m_udpSocket
    m_attemptToBindStatus, m_isBound, m_currentlyJoinedGroups,
    portBound, memberships,     \* kernel: state of the socket
    \* of the manager
    numServices,                \* m_services.size()
    m_threadStarted, m_terminate,
    m_event,                    \* the semaphore of Event is positive
    thread,                     \* none, wait, test, bind, exited
    next, allBound,             \* the loop of the thread over the services
    \* of those who call it
    main,                       \* init, running (steps), in ClearAllServices(), cleared
    task,                       \* a step in the manager: idle, store, notify, transfer, lock
    using,                      \* the service whose lock the step takes next, or 0
    faults                      \* history: failed calls

binding == <<m_attemptToBindStatus, m_isBound, portBound>>
groups == <<m_currentlyJoinedGroups, memberships>>
loop == <<thread, next, allBound>>
steps == <<task, using>>
vars == <<isOpen, binding, groups, numServices, m_threadStarted, m_terminate, m_event,
          loop, main, steps, faults>>

Init ==
    /\ isOpen = [k \in Service |-> FALSE]
    /\ m_attemptToBindStatus = [k \in Service |-> 0]
    /\ m_isBound = [k \in Service |-> FALSE]
    /\ portBound = [k \in Service |-> FALSE]
    /\ m_currentlyJoinedGroups = [k \in Service |-> {}]
    /\ memberships = [k \in Service |-> {}]
    /\ numServices = 0
    /\ m_threadStarted = FALSE /\ m_terminate = FALSE /\ m_event = FALSE
    /\ thread = "none" /\ next = 1 /\ allBound = TRUE
    /\ main = "init" /\ task = [t \in Task |-> "idle"]
    /\ using = [t \in Task |-> 0] /\ faults = 0

Fault == faults < MaxFaults /\ faults' = faults + 1

-----------------------------------------------------------------------------
(* What the calls of UDPSocket do to the socket of service k in the kernel *)

OpenSocket(k) == isOpen' = [isOpen EXCEPT ![k] = TRUE]
BindPort(k) == portBound' = [portBound EXCEPT ![k] = TRUE]
ChangeMemberships(k, left, joined) ==
    memberships' = [memberships EXCEPT ![k] = (@ \ left) \cup joined]
CloseSockets ==
    /\ isOpen' = [k \in Service |-> FALSE]
    /\ portBound' = [k \in Service |-> FALSE]
    /\ memberships' = [k \in Service |-> {}]

-----------------------------------------------------------------------------
(* AttemptToBind() of service k, whose socket is "open" or not.  The       *)
(* kernel binds a socket to a port only once.                              *)

Bound(k) == m_isBound'[k] = TRUE

AlreadyBound(k) == m_isBound[k] /\ UNCHANGED <<binding, faults>>

BindSucceeds(k, open) ==
    /\ ~m_isBound[k] /\ open
    /\ m_attemptToBindStatus[k] < 1 => ~portBound[k]
    /\ BindPort(k)
    /\ m_attemptToBindStatus' = [m_attemptToBindStatus EXCEPT ![k] = 2]
    /\ m_isBound' = [m_isBound EXCEPT ![k] = TRUE]
    /\ UNCHANGED faults

\* The port cannot be bound ...
BindPortFails(k, open) ==
    /\ ~m_isBound[k] /\ m_attemptToBindStatus[k] < 1
    /\ IF open /\ ~portBound[k] THEN Fault ELSE UNCHANGED faults
    /\ UNCHANGED binding

\* Mutant: that the port is bound is not remembered.
BindDeviceForgets(k, open) ==
    /\ ~m_isBound[k] /\ open
    /\ m_attemptToBindStatus[k] < 1 => ~portBound[k]
    /\ Fault
    /\ BindPort(k)
    /\ UNCHANGED <<m_attemptToBindStatus, m_isBound>>

\* ... or it can, now or before, and the device cannot.
BindDeviceFails(k, open) ==
    /\ ~m_isBound[k] /\ open
    /\ m_attemptToBindStatus[k] < 1 => ~portBound[k]
    /\ Fault
    /\ BindPort(k)
    /\ m_attemptToBindStatus' = [m_attemptToBindStatus EXCEPT ![k] = 1]
    /\ UNCHANGED m_isBound

AttemptToBind(k, open) ==
    \/ AlreadyBound(k) \/ BindSucceeds(k, open)
    \/ BindPortFails(k, open) \/ BindDeviceFails(k, open)

-----------------------------------------------------------------------------
(* AddService(), called for every block while the model is initialised.    *)
(* Several blocks may share a service; one with another configuration      *)
(* changes nothing.                                                        *)

Addable(k) == main = "init" /\ k <= numServices + 1

Appended(k) == numServices' = IF k > numServices THEN k ELSE numServices

\* Mutant: the thread does not wait for the first step.
StartsAtOnce == thread' = "test" /\ m_threadStarted' = TRUE

\* The thread is created with the first service that is.
StartsThread ==
    /\ thread' = IF m_threadStarted THEN thread ELSE "wait"
    /\ m_threadStarted' = TRUE

AddService(k) ==
    /\ Addable(k) /\ Appended(k)
    /\ OpenSocket(k)
    /\ AttemptToBind(k, TRUE)
    /\ StartsThread
    /\ UNCHANGED <<groups, m_terminate, m_event, next, allBound, main, steps>>

\* The socket cannot be opened or one of its options not be set.
AddServiceFails(k) ==
    /\ Addable(k) /\ Appended(k) /\ ~isOpen[k]
    /\ UNCHANGED <<isOpen, binding, groups, m_threadStarted, m_terminate, m_event, loop,
                   main, steps, faults>>

InitializationEnds ==
    /\ main = "init" /\ numServices = NumServices
    /\ main' = "running"
    /\ UNCHANGED <<isOpen, binding, groups, numServices, m_threadStarted, m_terminate,
                   m_event, loop, steps, faults>>

-----------------------------------------------------------------------------
(* SendTo() and ReceiveFrom() of the manager, called by steps.             *)

TaskGoes(t, there, k) ==
    /\ task' = [task EXCEPT ![t] = there] /\ using' = [using EXCEPT ![t] = k]
    /\ UNCHANGED <<isOpen, binding, numServices, m_terminate, loop, main>>

\* The first to find the thread waiting clears the flag and wakes it up; two
\* tasks may both be the first.
UseTests(t) ==
    /\ main = "running" /\ task[t] = "idle"
    /\ TaskGoes(t, IF m_threadStarted THEN "store" ELSE "transfer", 0)
    /\ UNCHANGED <<groups, m_threadStarted, m_event, faults>>

UseStores(t) ==
    /\ task[t] = "store" /\ TaskGoes(t, "notify", 0)
    /\ m_threadStarted' = FALSE
    /\ UNCHANGED <<groups, m_event, faults>>

UseNotifies(t) ==
    /\ task[t] = "notify" /\ TaskGoes(t, "transfer", 0)
    /\ m_event' = TRUE
    /\ UNCHANGED <<groups, m_threadStarted, faults>>

\* SendTo() or ReceiveFrom() of service k tests m_isBound without the lock ...
FindsBound(t, k) ==
    /\ task[t] = "transfer" /\ m_isBound[k] /\ TaskGoes(t, "lock", k)
    /\ UNCHANGED <<groups, m_threadStarted, m_event, faults>>

\* ... and finds a socket that is not bound, or else takes the lock and sends.
TransferEnds(t) ==
    /\ task[t] \in {"transfer", "lock"} /\ TaskGoes(t, "idle", 0)
    /\ UNCHANGED <<groups, m_threadStarted, m_event, faults>>

\* Mutant: a group that cannot be left is forgotten.
ForgetsGroups(current, valid, left, joined) == (current \cap valid) \cup joined

\* The new list: groups stay on it that are still wanted or cannot be left.
RemainingGroups(current, valid, left, joined) == (current \ left) \cup joined

\* Mutant: addresses that are no multicast addresses are joined, too.
AllGroups(wanted) == wanted

\* RemoveInvalidGroupAddresses.
ValidGroups(wanted) == wanted \ {NoGroup}

\* UpdateMulticastGroups: leave the groups that are no longer wanted, join the
\* new ones; either may fail for some of them.
UpdateMulticastGroups(k, wanted) ==
    LET current == m_currentlyJoinedGroups[k]
        valid == ValidGroups(wanted)
    IN \E left \in SUBSET ((current \ valid) \cap memberships[k]),
          joined \in SUBSET ((valid \ current) \ memberships[k]) :
        /\ IF /\ left = (current \ valid) \cap memberships[k]
              /\ joined = (valid \ current) \ memberships[k]
           THEN UNCHANGED faults ELSE Fault
        /\ ChangeMemberships(k, left, joined)
        /\ m_currentlyJoinedGroups' = [m_currentlyJoinedGroups EXCEPT
                ![k] = RemainingGroups(current, valid, left, joined)]

\* ReceiveFrom() of a service takes the lock.
ReceivesFrom(t, wanted) ==
    /\ task[t] = "lock" /\ TaskGoes(t, "idle", 0)
    /\ UpdateMulticastGroups(using[t], wanted)
    /\ UNCHANGED <<m_threadStarted, m_event>>

-----------------------------------------------------------------------------
(* ManagementThread(); the pause of 100 ms is left out.                    *)

ThreadWaits ==
    /\ thread = "wait" /\ m_event
    /\ m_event' = FALSE /\ thread' = "test"
    /\ UNCHANGED <<isOpen, binding, groups, numServices, m_threadStarted, m_terminate,
                   next, allBound, main, steps, faults>>

ThreadTests ==
    /\ thread = "test"
    /\ thread' = IF m_terminate THEN "exited" ELSE "bind"
    /\ next' = 1 /\ allBound' = TRUE
    /\ UNCHANGED <<isOpen, binding, groups, numServices, m_threadStarted, m_terminate,
                   m_event, main, steps, faults>>

\* Mutant: "allBound = allBound && AttemptToBind()".
ThreadBindsWhileBound ==
    /\ thread = "bind" /\ next <= numServices
    /\ IF allBound THEN AttemptToBind(next, isOpen[next]) /\ allBound' = Bound(next)
                   ELSE UNCHANGED <<binding, allBound, faults>>
    /\ next' = next + 1
    /\ UNCHANGED <<isOpen, groups, numServices, m_threadStarted, m_terminate, m_event,
                   thread, main, steps>>

\* All services are tried, also those after one that cannot be bound.
ThreadBinds ==
    /\ thread = "bind" /\ next <= numServices
    /\ AttemptToBind(next, isOpen[next])
    /\ allBound' = (allBound /\ Bound(next))
    /\ next' = next + 1
    /\ UNCHANGED <<isOpen, groups, numServices, m_threadStarted, m_terminate, m_event,
                   thread, main, steps>>

ThreadDecides ==
    /\ thread = "bind" /\ next > numServices
    /\ thread' = IF allBound THEN "exited" ELSE "test"
    /\ UNCHANGED <<isOpen, binding, groups, numServices, m_threadStarted, m_terminate,
                   m_event, next, allBound, main, steps, faults>>

-----------------------------------------------------------------------------
(* ClearAllServices(), called by the main thread after the last step.      *)

MainGoes(there) == main' = there /\ UNCHANGED <<next, allBound, steps, faults>>

ClearBegins ==
    /\ main = "running" /\ \A t \in Task : task[t] = "idle"
    /\ MainGoes("notify")
    /\ m_terminate' = TRUE
    /\ UNCHANGED <<isOpen, binding, groups, numServices, m_threadStarted, m_event, thread>>

\* Mutant: a thread that no step has woken yet is not notified.
ClearNotifiesWaiting ==
    /\ main = "notify" /\ MainGoes("join")
    /\ m_event' = (m_event \/ ~m_threadStarted)
    /\ UNCHANGED <<isOpen, binding, groups, numServices, m_threadStarted, m_terminate,
                   thread>>

ClearNotifies ==
    /\ main = "notify" /\ MainGoes("join")
    /\ m_event' = TRUE
    /\ UNCHANGED <<isOpen, binding, groups, numServices, m_threadStarted, m_terminate,
                   thread>>

\* There is a thread only if a service has been created.
ClearJoins ==
    /\ main = "join" /\ thread \in {"none", "exited"} /\ MainGoes("destroy")
    /\ thread' = "none"
    /\ m_terminate' = FALSE /\ m_event' = FALSE /\ m_threadStarted' = FALSE
    /\ UNCHANGED <<isOpen, binding, groups, numServices>>

\* Destroy() of every service: the kernel closes the socket and forgets it.
ClearDestroys ==
    /\ main = "destroy" /\ MainGoes("cleared")
    /\ CloseSockets
    /\ m_attemptToBindStatus' = [k \in Service |-> 0]
    /\ m_isBound' = [k \in Service |-> FALSE]
    /\ m_currentlyJoinedGroups' = [k \in Service |-> {}]
    /\ numServices' = 0
    /\ UNCHANGED <<m_threadStarted, m_terminate, m_event, thread>>

\* Every other block calls ClearAllServices() again, to no effect.
Done == main = "cleared" /\ UNCHANGED vars

-----------------------------------------------------------------------------
Adds == \E k \in Service : AddService(k) \/ AddServiceFails(k)
Uses(t) ==
    \/ UseStores(t) \/ UseNotifies(t)
    \/ \E k \in Service : FindsBound(t, k)
    \/ TransferEnds(t)
    \/ \E wanted \in SUBSET (Group \cup {NoGroup}) : ReceivesFrom(t, wanted)
Thread == ThreadWaits \/ ThreadTests \/ ThreadBinds \/ ThreadDecides
Clears == ClearNotifies \/ ClearJoins \/ ClearDestroys

Next ==
    \/ Adds \/ InitializationEnds
    \/ \E t \in Task : UseTests(t) \/ Uses(t)
    \/ Thread
    \/ ClearBegins \/ Clears \/ Done

Spec == Init /\ [][Next]_vars

\* The threads run.  Nobody need send or receive, and the bound on faults is
\* what makes the failures of bind() end.
FairSpec ==
    /\ Spec
    /\ WF_vars(Thread) /\ WF_vars(Clears) /\ \A t \in Task : WF_vars(Uses(t))

-----------------------------------------------------------------------------
TypeOK ==
    /\ isOpen \in [Service -> BOOLEAN] /\ portBound \in [Service -> BOOLEAN]
    /\ m_attemptToBindStatus \in [Service -> 0..2]
    /\ m_isBound \in [Service -> BOOLEAN]
    /\ m_currentlyJoinedGroups \in [Service -> SUBSET Group]
    /\ memberships \in [Service -> SUBSET Group]
    /\ numServices \in 0..NumServices
    /\ m_threadStarted \in BOOLEAN /\ m_terminate \in BOOLEAN /\ m_event \in BOOLEAN
    /\ thread \in {"none", "wait", "test", "bind", "exited"}
    /\ next \in 1..(NumServices + 1) /\ allBound \in BOOLEAN
    /\ main \in {"init", "running", "notify", "join", "destroy", "cleared"}
    /\ task \in [Task -> {"idle", "store", "notify", "transfer", "lock"}]
    /\ using \in [Task -> 0..NumServices]
    /\ faults \in 0..MaxFaults

\* The list of joined groups is what the socket is a member of, also after
\* groups that could not be joined or left: no membership is forgotten, and
\* none is asked for again.
JoinedGroupsDescribeSocket ==
    \A k \in Service : m_currentlyJoinedGroups[k] = memberships[k]

\* The thread goes through m_services, which has no lock, only while nobody
\* adds to it or destroys its elements, and the flags of a service that it or
\* a step trusts describe the socket: also when a step takes the lock, what
\* it has found before is still so.
ServicesStableInLoop ==
    /\ thread \in {"test", "bind"} =>
         numServices = NumServices /\ main \in {"running", "notify", "join"}
    /\ \A k \in Service :
         /\ m_isBound[k] => isOpen[k] /\ portBound[k]
         /\ portBound[k] <=> m_attemptToBindStatus[k] > 0
    /\ \A t \in Task : task[t] = "lock" => m_isBound[using[t]]

\* Once a step has tried to send or receive, each socket that is open gets
\* bound, however often that fails, in whichever order it does, and although
\* others may never be: those that could not be opened.
SocketsGetBound ==
    \A k \in Service :
        (main = "running" /\ isOpen[k] /\ \E t \in Task : task[t] # "idle")
            ~> (main # "running" \/ m_isBound[k])

\* ClearAllServices() returns, whether the thread waits for the first step, is
\* binding, has ended or has never been started.
ClearReturns == main = "notify" ~> main = "cleared"
====
