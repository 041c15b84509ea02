-------------------------- MODULE UDPServicesProofs --------------------------
(***************************************************************************)
(* UDP services and their management thread, for any number of services,   *)
(* tasks and groups, and any number of failing system calls.               *)
(***************************************************************************)
EXTENDS UDPServices, TLAPS

\* What a service believes of its socket is true.
SocketInv(k) ==
    /\ m_currentlyJoinedGroups[k] = memberships[k]
    /\ m_isBound[k] => isOpen[k] /\ portBound[k]
    /\ portBound[k] <=> m_attemptToBindStatus[k] > 0

\* While services are created the thread sleeps and nobody can wake it; once
\* they are destroyed it is gone; in between they stay as they are.
LifeInv ==
    /\ main = "init" => thread \in {"none", "wait"} /\ ~m_event
    /\ main \in {"running", "notify", "join"} => numServices = NumServices
    /\ main \in {"destroy", "cleared"} => thread = "none"
    /\ main # "running" => \A t \in Task : task[t] = "idle"

\* A step about to take the lock of a service has found it bound, and a service
\* stays bound while there are steps.
StepInv == \A t \in Task : task[t] = "lock" => using[t] \in Service /\ m_isBound[using[t]]

IInv == TypeOK /\ LifeInv /\ StepInv /\ \A k \in Service : SocketInv(k)

\* A change of nothing a step relies on.
LEMMA NoStepLosesSocket ==
  ASSUME StepInv, UNCHANGED steps, \A k \in Service : m_isBound[k] => m_isBound'[k]
  PROVE  StepInv'
  BY DEF StepInv, steps

\* There is no step to lose its socket while services are created or destroyed.
LEMMA NoStepNoSocket ==
  ASSUME \A t \in Task : task'[t] = "idle"
  PROVE  StepInv'
  BY DEF StepInv

-----------------------------------------------------------------------------
LEMMA InitIInv == Init => IInv
  <1> SUFFICES ASSUME Init PROVE IInv
      OBVIOUS
  <1>1. /\ 0 \in 0..MaxFaults /\ 0 \in 0..NumServices
        /\ 1 \in 1..(NumServices + 1) /\ 0 \in 0..2
        BY UDPConstants
  <1>2. TypeOK  BY <1>1 DEF Init, TypeOK
  <1>3. LifeInv /\ StepInv  BY DEF Init, LifeInv, StepInv
  <1>4. ASSUME NEW k \in Service PROVE SocketInv(k)
        BY DEF Init, SocketInv
  <1>5. QED  BY <1>2, <1>3, <1>4 DEF IInv

\* An attempt to bind changes only the service it is for, keeps the state of
\* the attempt that of the socket, binds only a socket that is open, and never
\* takes a binding back.
LEMMA AttemptKeepsSocket ==
  ASSUME TypeOK, NEW k \in Service, NEW open \in BOOLEAN, AttemptToBind(k, open),
         \A j \in Service : SocketInv(j), m_isBound[k] => open
  PROVE  /\ m_attemptToBindStatus' \in [Service -> 0..2]
         /\ m_isBound' \in [Service -> BOOLEAN] /\ portBound' \in [Service -> BOOLEAN]
         /\ faults' \in 0..MaxFaults
         /\ \A j \in Service :
              /\ portBound'[j] <=> m_attemptToBindStatus'[j] > 0
              /\ m_isBound'[j] => portBound'[j] /\ IF j = k THEN open ELSE m_isBound[j]
              /\ m_isBound[j] => m_isBound'[j]
  <1> USE DEF TypeOK, binding, SocketInv, BindPort
  <1>1. 1 \in 0..2 /\ 2 \in 0..2 /\ (Fault => faults' \in 0..MaxFaults)
        BY UDPConstants DEF Fault
  <1>2. CASE AlreadyBound(k)
        BY <1>2 DEF AlreadyBound
  <1>3. CASE BindSucceeds(k, open)
        BY <1>1, <1>3 DEF BindSucceeds
  <1>4. CASE BindPortFails(k, open)
        BY <1>1, <1>4 DEF BindPortFails
  <1>5. CASE BindDeviceFails(k, open)
        BY <1>1, <1>5 DEF BindDeviceFails
  <1>6. QED  BY <1>2, <1>3, <1>4, <1>5 DEF AttemptToBind

\* What is left and joined successfully goes from and to both lists.
LEMMA UpdateKeepsGroups ==
  ASSUME TypeOK, NEW k \in Service, NEW wanted \in SUBSET (Group \cup {NoGroup}),
         UpdateMulticastGroups(k, wanted),
         \A j \in Service : m_currentlyJoinedGroups[j] = memberships[j]
  PROVE  /\ m_currentlyJoinedGroups' \in [Service -> SUBSET Group]
         /\ memberships' \in [Service -> SUBSET Group]
         /\ faults' \in 0..MaxFaults
         /\ \A j \in Service : m_currentlyJoinedGroups'[j] = memberships'[j]
  <1> USE DEF TypeOK
  <1> DEFINE current == m_currentlyJoinedGroups[k]
             valid == ValidGroups(wanted)
  <1>1. PICK left \in SUBSET ((current \ valid) \cap memberships[k]),
             joined \in SUBSET ((valid \ current) \ memberships[k]) :
          /\ faults' = faults \/ Fault
          /\ memberships' = [memberships EXCEPT ![k] = (@ \ left) \cup joined]
          /\ m_currentlyJoinedGroups' = [m_currentlyJoinedGroups EXCEPT
                  ![k] = RemainingGroups(current, valid, left, joined)]
        BY DEF UpdateMulticastGroups, ChangeMemberships
  <1>2. valid \subseteq Group  BY DEF ValidGroups
  <1>3. left \subseteq Group /\ joined \subseteq Group  BY <1>2
  <1>4. RemainingGroups(current, valid, left, joined) = (memberships[k] \ left) \cup joined
        BY DEF RemainingGroups
  <1>5. faults' \in 0..MaxFaults  BY <1>1, UDPConstants DEF Fault
  <1> HIDE DEF current, valid
  <1>6. QED  BY <1>1, <1>3, <1>4, <1>5

-----------------------------------------------------------------------------
\* While the model is initialised.
LEMMA InitializationKeepsIInv ==
  ASSUME IInv, Adds \/ InitializationEnds
  PROVE  IInv'
  <1> USE UDPConstants DEF IInv, groups, loop, steps
  <1>1. ASSUME NEW k \in Service, AddService(k) \/ AddServiceFails(k)
        PROVE  IInv'
    <2>1. main = "init" /\ main' = "init" /\ UNCHANGED <<steps, m_event>>
          BY <1>1 DEF AddService, AddServiceFails, Addable
    <2>2. numServices' \in 0..NumServices
      <3>1. Appended(k)  BY <1>1 DEF AddService, AddServiceFails
      <3>2. QED  BY <3>1 DEF TypeOK, Appended, Service
    <2>3. thread' \in {"none", "wait"}
          BY <1>1, <2>1 DEF LifeInv, AddService, AddServiceFails, StartsThread
    <2>4. LifeInv' /\ StepInv'
          BY <2>1, <2>3, NoStepNoSocket DEF LifeInv
    <2>5. CASE AddService(k)
      <3> USE <2>5 DEF AddService, OpenSocket
      <3>1. AttemptToBind(k, TRUE)  OBVIOUS
      <3>2. /\ m_attemptToBindStatus' \in [Service -> 0..2]
            /\ m_isBound' \in [Service -> BOOLEAN] /\ portBound' \in [Service -> BOOLEAN]
            /\ faults' \in 0..MaxFaults
            /\ \A j \in Service :
                 /\ portBound'[j] <=> m_attemptToBindStatus'[j] > 0
                 /\ m_isBound'[j] => portBound'[j] /\ IF j = k THEN TRUE ELSE m_isBound[j]
            BY <3>1, AttemptKeepsSocket
      <3>3. TypeOK'  BY <2>2, <2>3, <3>2 DEF TypeOK, StartsThread
      <3>4. ASSUME NEW j \in Service PROVE SocketInv(j)'
            BY <3>2 DEF SocketInv, TypeOK
      <3>5. QED  BY <2>4, <3>3, <3>4
    <2>6. CASE AddServiceFails(k)
      <3> USE <2>6 DEF AddServiceFails, binding
      <3>1. TypeOK'  BY <2>2 DEF TypeOK
      <3>2. ASSUME NEW j \in Service PROVE SocketInv(j)'  BY DEF SocketInv
      <3>3. QED  BY <2>4, <3>1, <3>2
    <2>7. QED  BY <1>1, <2>5, <2>6
  <1>2. CASE InitializationEnds
    <2> USE <1>2 DEF InitializationEnds, binding
    <2>1. TypeOK'  BY DEF TypeOK
    <2>2. LifeInv' /\ StepInv'  BY NoStepNoSocket DEF LifeInv
    <2>3. ASSUME NEW j \in Service PROVE SocketInv(j)'  BY DEF SocketInv
    <2>4. QED  BY <2>1, <2>2, <2>3
  <1>3. QED  BY <1>1, <1>2 DEF Adds

\* While steps send and receive.
LEMMA TaskKeepsIInv ==
  ASSUME IInv, NEW t \in Task, UseTests(t) \/ Uses(t)
  PROVE  IInv'
  <1> USE UDPConstants DEF IInv, TaskGoes, binding, groups, loop
  <1>1. task[t] # "idle" => main = "running"  BY DEF LifeInv
  <1>2. CASE UseTests(t) \/ UseStores(t) \/ UseNotifies(t) \/ TransferEnds(t)
    <2> USE <1>2 DEF UseTests, UseStores, UseNotifies, TransferEnds
    <2>1. 0 \in 0..NumServices  OBVIOUS
    <2>2. TypeOK'  BY <2>1 DEF TypeOK
    <2>3. main = "running"  BY <1>1
    <2>4. LifeInv'  BY <2>3 DEF LifeInv
    <2>5. StepInv'  BY DEF StepInv, TypeOK
    <2>6. ASSUME NEW j \in Service PROVE SocketInv(j)'  BY DEF SocketInv
    <2>7. QED  BY <2>2, <2>4, <2>5, <2>6
  <1>3. ASSUME NEW k \in Service, FindsBound(t, k)
        PROVE  IInv'
    <2> USE <1>3 DEF FindsBound
    <2>1. k \in 0..NumServices  BY DEF Service
    <2>2. TypeOK'  BY <2>1 DEF TypeOK
    <2>3. LifeInv'  BY <1>1 DEF LifeInv
    <2>4. StepInv'  BY DEF StepInv, TypeOK
    <2>5. ASSUME NEW j \in Service PROVE SocketInv(j)'  BY DEF SocketInv
    <2>6. QED  BY <2>2, <2>3, <2>4, <2>5
  <1>4. ASSUME NEW wanted \in SUBSET (Group \cup {NoGroup}), ReceivesFrom(t, wanted)
        PROVE  IInv'
    <2> USE <1>4 DEF ReceivesFrom
    <2>1. using[t] \in Service  BY DEF StepInv
    <2>2. /\ m_currentlyJoinedGroups' \in [Service -> SUBSET Group]
          /\ memberships' \in [Service -> SUBSET Group]
          /\ faults' \in 0..MaxFaults
          /\ \A j \in Service : m_currentlyJoinedGroups'[j] = memberships'[j]
          BY <2>1, UpdateKeepsGroups DEF SocketInv
    <2>3. 0 \in 0..NumServices  OBVIOUS
    <2>4. TypeOK'  BY <2>2, <2>3 DEF TypeOK
    <2>5. LifeInv'  BY <1>1 DEF LifeInv
    <2>6. StepInv'  BY DEF StepInv, TypeOK
    <2>7. ASSUME NEW j \in Service PROVE SocketInv(j)'  BY <2>2 DEF SocketInv
    <2>8. QED  BY <2>4, <2>5, <2>6, <2>7
  <1>5. QED  BY <1>2, <1>3, <1>4 DEF Uses

\* The management thread.
LEMMA ThreadKeepsIInv ==
  ASSUME IInv, Thread
  PROVE  IInv'
  <1> USE UDPConstants DEF IInv, binding, groups, steps
  <1>1. CASE ThreadWaits \/ ThreadTests \/ ThreadDecides
    <2> USE <1>1 DEF ThreadWaits, ThreadTests, ThreadDecides
    <2>1. 1 \in 1..(NumServices + 1)  OBVIOUS
    <2>2. TypeOK'  BY <2>1 DEF TypeOK
    <2>3. LifeInv' /\ StepInv'  BY NoStepLosesSocket DEF LifeInv
    <2>4. ASSUME NEW j \in Service PROVE SocketInv(j)'  BY DEF SocketInv
    <2>5. QED  BY <2>2, <2>3, <2>4
  <1>2. CASE ThreadBinds
    <2> USE <1>2 DEF ThreadBinds
    <2>1. next \in Service /\ next + 1 \in 1..(NumServices + 1)
          BY DEF TypeOK, Service
    <2>2. isOpen[next] \in BOOLEAN /\ (m_isBound[next] => isOpen[next])
          BY <2>1 DEF TypeOK, SocketInv
    <2>3. /\ m_attemptToBindStatus' \in [Service -> 0..2]
          /\ m_isBound' \in [Service -> BOOLEAN] /\ portBound' \in [Service -> BOOLEAN]
          /\ faults' \in 0..MaxFaults
          /\ \A j \in Service :
               /\ portBound'[j] <=> m_attemptToBindStatus'[j] > 0
               /\ m_isBound'[j] =>
                    portBound'[j] /\ IF j = next THEN isOpen[next] ELSE m_isBound[j]
               /\ m_isBound[j] => m_isBound'[j]
          BY <2>1, <2>2, AttemptKeepsSocket
    <2>4. allBound' \in BOOLEAN  BY DEF Bound
    <2>5. TypeOK'  BY <2>1, <2>3, <2>4 DEF TypeOK
    <2>6. LifeInv' /\ StepInv'  BY <2>3, NoStepLosesSocket DEF LifeInv
    <2>7. ASSUME NEW j \in Service PROVE SocketInv(j)'  BY <2>3 DEF SocketInv
    <2>8. QED  BY <2>5, <2>6, <2>7
  <1>3. QED  BY <1>1, <1>2 DEF Thread

\* ClearAllServices().
LEMMA ClearKeepsIInv ==
  ASSUME IInv, ClearBegins \/ Clears
  PROVE  IInv'
  <1> USE UDPConstants DEF IInv, binding, groups, steps, MainGoes
  <1>1. CASE ClearBegins \/ ClearNotifies \/ ClearJoins
    <2> USE <1>1 DEF ClearBegins, ClearNotifies, ClearJoins
    <2>1. TypeOK'  BY DEF TypeOK
    <2>2. LifeInv' /\ StepInv'  BY NoStepNoSocket DEF LifeInv
    <2>3. ASSUME NEW j \in Service PROVE SocketInv(j)'  BY DEF SocketInv
    <2>4. QED  BY <2>1, <2>2, <2>3
  <1>2. CASE ClearDestroys
    <2> USE <1>2 DEF ClearDestroys, CloseSockets
    <2>1. 0 \in 0..2 /\ 0 \in 0..NumServices  OBVIOUS
    <2>2. TypeOK'  BY <2>1 DEF TypeOK
    <2>3. LifeInv' /\ StepInv'  BY NoStepNoSocket DEF LifeInv
    <2>4. ASSUME NEW j \in Service PROVE SocketInv(j)'  BY DEF SocketInv
    <2>5. QED  BY <2>2, <2>3, <2>4
  <1>3. QED  BY <1>1, <1>2 DEF Clears

LEMMA Inductive == IInv /\ [Next]_vars => IInv'
  <1> SUFFICES ASSUME IInv, [Next]_vars PROVE IInv'
      OBVIOUS
  <1>1. CASE UNCHANGED vars
        BY <1>1 DEF vars, binding, groups, loop, steps, IInv, TypeOK, LifeInv, StepInv,
             SocketInv
  <1>2. CASE Done
        BY <1>1, <1>2 DEF Done
  <1>3. QED  BY <1>1, <1>2, InitializationKeepsIInv, TaskKeepsIInv, ThreadKeepsIInv,
                ClearKeepsIInv DEF Next

LEMMA AlwaysIInv == Spec => []IInv
  BY InitIInv, Inductive, PTL DEF Spec

\* The variables of services, manager and threads keep their types; the loop
\* of the thread never leaves the list of services.
THEOREM TypeCorrect == Spec => []TypeOK
  <1>1. IInv => TypeOK  BY DEF IInv
  <1>2. QED  BY <1>1, AlwaysIInv, PTL

\* Whatever groups the steps ask for and whichever system calls fail, a service
\* knows the memberships of its socket.
THEOREM GroupsAreKnown == Spec => []JoinedGroupsDescribeSocket
  <1>1. IInv => JoinedGroupsDescribeSocket
        BY DEF IInv, SocketInv, JoinedGroupsDescribeSocket
  <1>2. QED  BY <1>1, AlwaysIInv, PTL

\* The management thread needs no lock for the list of services, and the flags
\* of a service are true of its socket, also of one that a step tested before it
\* took the lock (UDPService::SendTo and ReceiveFrom).
THEOREM LoopNeedsNoLock == Spec => []ServicesStableInLoop
  <1>1. IInv => ServicesStableInLoop
        BY DEF IInv, TypeOK, LifeInv, StepInv, SocketInv, ServicesStableInLoop
  <1>2. QED  BY <1>1, AlwaysIInv, PTL
====
