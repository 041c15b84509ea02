----------------------- MODULE TCPClientServiceProofs -----------------------
(***************************************************************************)
(* The handshake between the steps of the model and the management thread  *)
(* of a TCP client service, for any set of servers.                        *)
(***************************************************************************)
EXTENDS TCPClientService, TLAPS

\* The thread is between reading the command and waiting for the next.
Serving == {"disconnect", "open", "setUp", "connect", "configure", "mark", "wait"}

\* The thread is inside Connect().
Connecting == {"open", "setUp", "connect", "configure", "mark"}

\* A thread that has read the command holds the latest one, or has a
\* notification waiting for it.
CommandInv == thread \in Serving /\ ~m_event => destination = m_commandedAddress

\* The connection while it is made and once it is made.
ConnectionInv ==
    /\ thread \in Connecting => ~m_isConnected /\ IsConnectCommand(destination)
    /\ thread \in {"configure", "mark"} =>
         m_socket \in {"connected", "dead"} /\ server = destination
    /\ m_isConnected =>
         /\ m_socket \in {"connected", "dead"}
         /\ thread # "disconnect" => server = destination /\ IsConnectCommand(destination)
    /\ thread = "wait" /\ ~m_event /\ IsConnectCommand(destination) => m_isConnected

\* While the steps run, the thread is in its loop.
LoopInv ==
    /\ ~m_terminate
    /\ thread \in {"test", "read"} \cup Serving

IInv ==
    /\ TypeOK
    /\ main = "new" => thread = "none" /\ ~m_terminate /\ ~m_isConnected
    /\ main = "running" => CommandInv /\ ConnectionInv /\ LoopInv

-----------------------------------------------------------------------------
\* Every step keeps the variables in their types.
LEMMA TypeInductive == TypeOK /\ [Next]_vars => TypeOK'
  <1> SUFFICES ASSUME TypeOK, [Next]_vars PROVE TypeOK'
      OBVIOUS
  <1> USE DEF TypeOK, Address, command, socket, Disconnect, OpenSocket,
              ConnectSocket, CloseSocket, ThreadGoes, MainGoes
  <1>1. ASSUME NEW a \in Address, Transfer(a) \/ TransferFindsClosed(a)
        PROVE  TypeOK'
        BY <1>1 DEF Transfer, TransferFindsClosed, SetNewAddressCommand
  <1>2. CASE ServerCloses  BY <1>2 DEF ServerCloses
  <1>3. CASE Thread
    <2>1. CASE ThreadTests \/ ThreadReads \/ ThreadDisconnects
          BY <2>1 DEF ThreadTests, ThreadReads, ThreadDisconnects
    <2>2. CASE ThreadOpens \/ ThreadSetsUp \/ ThreadConnects
          BY <2>2 DEF ThreadOpens, ThreadSetsUp, ThreadConnects
    <2>3. CASE ThreadConfigures \/ ConnectFails
          BY <2>3 DEF ThreadConfigures, ConnectFails
    <2>4. CASE ThreadMarks \/ ThreadWaits \/ ThreadLeaves
          BY <2>4 DEF ThreadMarks, ThreadWaits, ThreadLeaves
    <2>5. QED  BY <1>3, <2>1, <2>2, <2>3, <2>4 DEF Thread
  <1>4. CASE Create \/ DestroyBegins  BY <1>4 DEF Create, DestroyBegins
  <1>5. CASE Destroy
        BY <1>5 DEF Destroy, DestroyDisconnects, DestroyNotifies, DestroyJoins
  <1>6. CASE Done \/ UNCHANGED vars  BY <1>6 DEF Done, vars
  <1>7. QED  BY <1>1, <1>2, <1>3, <1>4, <1>5, <1>6 DEF Next, Uses

\* A command that differs comes with a notification, and so does the end of a
\* connection that a step finds.
LEMMA TransfersKeepInv ==
    ASSUME IInv, NEW a \in Address, Transfer(a) \/ TransferFindsClosed(a) \/ ServerCloses
    PROVE  main' = "running" => (CommandInv /\ ConnectionInv /\ LoopInv)'
  <1> USE DEF IInv, TypeOK, CommandInv, ConnectionInv, LoopInv, command, socket,
              Serving, Connecting, IsConnectCommand
  <1>1. CASE Transfer(a)  BY <1>1 DEF Transfer, SetNewAddressCommand
  <1>2. CASE TransferFindsClosed(a)  BY <1>2 DEF TransferFindsClosed
  <1>3. CASE ServerCloses  BY <1>3 DEF ServerCloses
  <1>4. QED  BY <1>1, <1>2, <1>3

\* The thread brings the connection up before it says so.
LEMMA ThreadKeepsInv ==
    ASSUME IInv, Thread
    PROVE  main' = "running" => (CommandInv /\ ConnectionInv /\ LoopInv)'
  <1> SUFFICES ASSUME main = "running" PROVE (CommandInv /\ ConnectionInv /\ LoopInv)'
      BY DEF Thread, ThreadTests, ThreadReads, ThreadDisconnects, ThreadOpens,
             ThreadSetsUp, ThreadConnects, ThreadConfigures, ConnectFails, ThreadMarks,
             ThreadWaits, ThreadLeaves, ThreadGoes
  <1> USE DEF IInv, TypeOK, CommandInv, ConnectionInv, LoopInv, command, socket,
              Serving, Connecting, IsConnectCommand, Disconnect, ThreadGoes,
              OpenSocket, ConnectSocket, CloseSocket
  <1>1. CASE ThreadTests  BY <1>1 DEF ThreadTests
  <1>2. CASE ThreadReads  BY <1>2 DEF ThreadReads
  <1>3. CASE ThreadDisconnects  BY <1>3 DEF ThreadDisconnects
  <1>4. CASE ThreadOpens \/ ThreadSetsUp  BY <1>4 DEF ThreadOpens, ThreadSetsUp
  <1>5. CASE ThreadConnects  BY <1>5 DEF ThreadConnects
  <1>6. CASE ThreadConfigures  BY <1>6 DEF ThreadConfigures
  <1>7. CASE ConnectFails  BY <1>7 DEF ConnectFails
  <1>8. CASE ThreadMarks  BY <1>8 DEF ThreadMarks
  <1>9. CASE ThreadWaits \/ ThreadLeaves  BY <1>9 DEF ThreadWaits, ThreadLeaves
  <1>10. QED
         BY <1>1, <1>2, <1>3, <1>4, <1>5, <1>6, <1>7, <1>8, <1>9 DEF Thread

\* The main thread takes part only before and after the steps.
LEMMA MainKeepsInv ==
    ASSUME IInv, Create \/ DestroyBegins \/ Destroy
    PROVE  main' = "running" => (CommandInv /\ ConnectionInv /\ LoopInv)'
  <1>1. CASE Create
        BY <1>1 DEF Create, MainGoes, IInv, TypeOK, CommandInv, ConnectionInv, LoopInv,
                    Serving, Connecting, command, socket
  <1>2. CASE DestroyBegins \/ Destroy
        BY <1>2 DEF DestroyBegins, Destroy, DestroyDisconnects, DestroyNotifies,
                    DestroyJoins, MainGoes
  <1>3. QED  BY <1>1, <1>2

-----------------------------------------------------------------------------
\* The invariant is inductive.
LEMMA InvInductive == IInv /\ [Next]_vars => IInv'
  <1> SUFFICES ASSUME IInv, [Next]_vars PROVE IInv'
      OBVIOUS
  <1>1. TypeOK'  BY TypeInductive DEF IInv
  <1>2. main' = "new" => (thread = "none" /\ ~m_terminate /\ ~m_isConnected)'
    <2> USE DEF IInv, ThreadGoes, MainGoes, command, socket
    <2>1. CASE UNCHANGED vars  BY <2>1 DEF vars
    <2>2. ASSUME NEW a \in Address, Transfer(a) \/ TransferFindsClosed(a) PROVE main' # "new"
          BY <2>2 DEF Transfer, TransferFindsClosed
    <2>3. ASSUME ServerCloses, main = "new"
          PROVE  (thread = "none" /\ ~m_terminate /\ ~m_isConnected)'
          BY <2>3 DEF ServerCloses
    <2>4. ASSUME Thread PROVE main' = main /\ thread # "none"
          BY <2>4 DEF Thread, ThreadTests, ThreadReads, ThreadDisconnects, ThreadOpens,
               ThreadSetsUp, ThreadConnects, ThreadConfigures, ConnectFails, ThreadMarks,
               ThreadWaits, ThreadLeaves
    <2>5. ASSUME Create \/ DestroyBegins \/ Destroy \/ Done PROVE main' # "new"
          BY <2>5 DEF Create, DestroyBegins, Destroy, DestroyDisconnects,
               DestroyNotifies, DestroyJoins, Done, vars
    <2>6. main' = main \/ ~ServerCloses  BY DEF ServerCloses
    <2>7. QED  BY <2>1, <2>2, <2>3, <2>4, <2>5, <2>6 DEF Next, Uses
  <1>3. main' = "running" => (CommandInv /\ ConnectionInv /\ LoopInv)'
    <2>1. CASE UNCHANGED vars
          BY <2>1 DEF vars, IInv, CommandInv, ConnectionInv, LoopInv
    <2>2. CASE Done  BY <2>2 DEF Done, vars
    <2>3. Nowhere \in Address  BY DEF Address
    <2>4. QED
          BY <2>1, <2>2, <2>3, TransfersKeepInv, ThreadKeepsInv, MainKeepsInv DEF Next, Uses
  <1>4. QED  BY <1>1, <1>2, <1>3 DEF IInv

LEMMA InvCorrect == Spec => []IInv
  <1>1. Init => IInv  BY DEF Init, IInv, TypeOK, Address
  <1>2. QED  BY <1>1, InvInductive, PTL DEF Spec

\* The variables keep their types (GT_DriverImplementationDetails.cpp,
\* TCPClientService).
THEOREM TypeCorrect == Spec => []TypeOK
  <1>1. IInv => TypeOK  BY DEF IInv
  <1>2. QED  BY <1>1, InvCorrect, PTL

\* The management thread never sleeps on a command it does not know or a
\* closed connection that a step has found (ManagementThread, Send, Receive).
THEOREM NoMissedNotification == Spec => []SleepsOnlyWhenDone
  <1>1. IInv => SleepsOnlyWhenDone
        BY DEF IInv, SleepsOnlyWhenDone, CommandInv, ConnectionInv, Serving
  <1>2. QED  BY <1>1, InvCorrect, PTL

\* Send() and Receive() never touch a socket that Connect(), which works
\* without the lock, is setting up.
THEOREM SocketIsHandedOver == Spec => []OnlyConnectedSocketIsUsed
  <1>1. IInv => OnlyConnectedSocketIsUsed
        BY DEF IInv, OnlyConnectedSocketIsUsed, ConnectionInv, LoopInv, Serving, Connecting
  <1>2. QED  BY <1>1, InvCorrect, PTL
====
