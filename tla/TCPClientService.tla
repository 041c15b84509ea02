-------------------------- MODULE TCPClientService --------------------------
(***************************************************************************)
(* One TCP client service of GT_DriverImplementationDetails: the steps of  *)
(* the model send, receive and command the address of a server, and a      *)
(* management thread of the service keeps the socket connected to it.      *)
(*                                                                         *)
(* Everything under m_mtxIO is one action.  Connect() opens the socket and *)
(* connects it without the lock, one system call after the other.          *)
(***************************************************************************)
EXTENDS Integers

CONSTANTS
    Server,         \* addresses that can be connected to
    Nowhere         \* an address that is zero or has port zero

ASSUME ServiceConstants == Nowhere \notin Server

Address == Server \cup {Nowhere}

VARIABLES
    m_commandedAddress, m_isConnected, m_terminate,
    m_event,        \* the semaphore of Event is positive
    m_socket,       \* closed, open, connected, dead (closed by the server)
    server,         \* kernel: where the socket is connected to
    destination,    \* ManagementThread's copy of the command
    thread,         \* ManagementThread: what it does next
    main            \* main thread: new, running (the steps), in Destroy(), destroyed

vars == <<m_commandedAddress, m_isConnected, m_terminate, m_event, m_socket, server,
          destination, thread, main>>
socket == <<m_socket, server>>
command == <<m_commandedAddress, m_event>>

Init ==
    /\ m_commandedAddress = Nowhere /\ destination = Nowhere
    /\ m_isConnected = FALSE /\ m_terminate = FALSE /\ m_event = FALSE
    /\ m_socket = "closed" /\ server = Nowhere
    /\ thread = "none" /\ main = "new"

IsConnectCommand(a) == a # Nowhere

(* What the calls of TCPClientSocket do to the socket.                     *)
OpenSocket == m_socket' = "open" /\ server' = Nowhere
ConnectSocket(a) == m_socket' = "connected" /\ server' = a
CloseSocket == m_socket' = "closed" /\ server' = Nowhere

-----------------------------------------------------------------------------
(* Send() and Receive(), called by steps of the model.  A block that does  *)
(* not manage the connection is one that repeats the command.              *)

\* Mutant: the thread is not told of an address that is only changed.
SilentCommand(a) == m_commandedAddress' = a /\ m_event' = (m_event \/ ~m_isConnected)

\* SetNewAddressCommand: the thread is notified of a new address.
SetNewAddressCommand(a) ==
    m_commandedAddress' = a /\ m_event' = (m_event \/ a # m_commandedAddress)

\* Nothing is transferred, or something is, or an error does not tell that the
\* connection is closed.
Transfer(a) ==
    /\ main = "running"
    /\ SetNewAddressCommand(a)
    /\ UNCHANGED <<m_isConnected, m_terminate, socket, destination, thread, main>>

\* Mutant: the flag is cleared but the thread is not notified.
ClosedUnnoticed(a) ==
    /\ main = "running" /\ m_isConnected /\ m_socket = "dead"
    /\ SetNewAddressCommand(a)
    /\ m_isConnected' = FALSE
    /\ UNCHANGED <<m_terminate, socket, destination, thread, main>>

\* The end of the connection is found.
TransferFindsClosed(a) ==
    /\ main = "running" /\ m_isConnected /\ m_socket = "dead"
    /\ m_commandedAddress' = a /\ m_event' = TRUE
    /\ m_isConnected' = FALSE
    /\ UNCHANGED <<m_terminate, socket, destination, thread, main>>

\* Kernel: the server closes or resets the connection, or is gone.
ServerCloses ==
    /\ m_socket = "connected"
    /\ m_socket' = "dead"
    /\ UNCHANGED <<command, m_isConnected, m_terminate, server, destination, thread, main>>

-----------------------------------------------------------------------------
(* ManagementThread()                                                      *)

ThreadGoes(there) == thread' = there /\ UNCHANGED <<m_terminate, main>>

ThreadTests ==
    /\ thread = "test"
    /\ ThreadGoes(IF m_terminate THEN "leave" ELSE "read")
    /\ UNCHANGED <<command, m_isConnected, socket, destination>>

\* Under the lock: the command and the state of the connection.
ThreadReads ==
    /\ thread = "read"
    /\ destination' = m_commandedAddress
    /\ ThreadGoes(IF ~m_isConnected \/ destination # m_commandedAddress
                  THEN "disconnect" ELSE "wait")
    /\ UNCHANGED <<command, m_isConnected, socket>>

\* Mutant: the socket is left to Open(), and m_isConnected to Connect().
KeepsConnection == UNCHANGED <<m_socket, server, m_isConnected>>

\* Mutant: the socket is shut down but not closed.
ShutDownOnly == m_socket' = "shutDown" /\ server' = Nowhere /\ m_isConnected' = FALSE

\* Disconnect(), under the lock.
Disconnect == CloseSocket /\ m_isConnected' = FALSE

ThreadDisconnects ==
    /\ thread = "disconnect"
    /\ Disconnect
    /\ ThreadGoes(IF IsConnectCommand(destination) THEN "open" ELSE "wait")
    /\ UNCHANGED <<command, destination>>

ThreadOpens ==
    /\ thread = "open"
    /\ OpenSocket
    /\ ThreadGoes("setUp")
    /\ UNCHANGED <<command, m_isConnected, destination>>

\* The options are set, port and device bound.
ThreadSetsUp ==
    /\ thread = "setUp" /\ m_socket = "open"
    /\ ThreadGoes("connect")
    /\ UNCHANGED <<command, m_isConnected, socket, destination>>

\* connect() blocks until the server answers.
ThreadConnects ==
    /\ thread = "connect" /\ m_socket = "open"
    /\ ConnectSocket(destination)
    /\ ThreadGoes("configure")
    /\ UNCHANGED <<command, m_isConnected, destination>>

ThreadConfigures ==
    /\ thread = "configure" /\ m_socket # "closed"
    /\ ThreadGoes("mark")
    /\ UNCHANGED <<command, m_isConnected, socket, destination>>

\* Each of these calls may fail, and does if Destroy() has closed the socket
\* in the meantime.  Only connect() leaves a socket to the next Disconnect().
ConnectFails ==
    /\ thread \in {"open", "setUp", "connect", "configure"}
    /\ IF thread \in {"setUp", "configure"} THEN CloseSocket ELSE UNCHANGED socket
    /\ ThreadGoes("test")
    /\ UNCHANGED <<command, m_isConnected, destination>>

\* Under the lock.
ThreadMarks ==
    /\ thread = "mark"
    /\ m_isConnected' = TRUE
    /\ ThreadGoes("wait")
    /\ UNCHANGED <<command, socket, destination>>

\* Event::Wait takes every notification there is.
ThreadWaits ==
    /\ thread = "wait" /\ m_event
    /\ m_event' = FALSE
    /\ ThreadGoes("test")
    /\ UNCHANGED <<m_commandedAddress, m_isConnected, socket, destination>>

ThreadLeaves ==
    /\ thread = "leave"
    /\ Disconnect
    /\ ThreadGoes("exited")
    /\ UNCHANGED <<command, destination>>

-----------------------------------------------------------------------------
(* Create() and Destroy(), called by the main thread before the first and  *)
(* after the last step.                                                    *)

MainGoes(there) == main' = there /\ UNCHANGED destination

Create ==
    /\ main = "new" /\ MainGoes("running")
    /\ thread' = "test"
    /\ UNCHANGED <<command, m_isConnected, m_terminate, socket>>

\* Mutant: m_terminate is not raised.
DestroyWithoutFlag ==
    /\ main = "running" /\ MainGoes("disconnect")
    /\ UNCHANGED <<command, m_isConnected, m_terminate, socket, thread>>

DestroyBegins ==
    /\ main = "running" /\ MainGoes("disconnect")
    /\ m_terminate' = TRUE
    /\ UNCHANGED <<command, m_isConnected, socket, thread>>

\* Ends a connect() that blocks.
DestroyDisconnects ==
    /\ main = "disconnect" /\ MainGoes("notify")
    /\ Disconnect
    /\ UNCHANGED <<command, m_terminate, thread>>

DestroyNotifies ==
    /\ main = "notify" /\ MainGoes("join")
    /\ m_event' = TRUE
    /\ UNCHANGED <<m_commandedAddress, m_isConnected, m_terminate, socket, thread>>

DestroyJoins ==
    /\ main = "join" /\ thread = "exited" /\ MainGoes("destroyed")
    /\ thread' = "none"
    /\ m_terminate' = FALSE /\ m_event' = FALSE
    /\ m_commandedAddress' = Nowhere
    /\ UNCHANGED <<m_isConnected, socket>>

\* The service is deleted.
Done == main = "destroyed" /\ UNCHANGED vars

-----------------------------------------------------------------------------
Uses == \E a \in Address : Transfer(a) \/ TransferFindsClosed(a)
Thread ==
    \/ ThreadTests \/ ThreadReads \/ ThreadDisconnects
    \/ ThreadOpens \/ ThreadSetsUp \/ ThreadConnects \/ ThreadConfigures \/ ConnectFails
    \/ ThreadMarks \/ ThreadWaits \/ ThreadLeaves
Destroy == DestroyDisconnects \/ DestroyNotifies \/ DestroyJoins

Next ==
    \/ Uses \/ ServerCloses \/ Thread
    \/ Create \/ DestroyBegins \/ Destroy \/ Done

Spec == Init /\ [][Next]_vars

\* The threads run and connect() returns, one way or the other.  Nobody need
\* transfer anything, and no connection need be made.
FairSpec == Spec /\ WF_vars(Thread) /\ WF_vars(Destroy)

-----------------------------------------------------------------------------
TypeOK ==
    /\ m_commandedAddress \in Address /\ destination \in Address /\ server \in Address
    /\ m_isConnected \in BOOLEAN /\ m_terminate \in BOOLEAN /\ m_event \in BOOLEAN
    /\ m_socket \in {"closed", "open", "connected", "dead"}
    /\ thread \in {"none", "test", "read", "disconnect", "open", "setUp", "connect",
                   "configure", "mark", "wait", "leave", "exited"}
    /\ main \in {"new", "running", "disconnect", "notify", "join", "destroyed"}

\* The thread sleeps only when there is nothing to do: it knows the command,
\* and has carried it out as far as anybody knows.  No notification is lost
\* between the two locked sections and Event::Wait.
SleepsOnlyWhenDone ==
    main = "running" /\ thread = "wait" /\ ~m_event =>
        /\ destination = m_commandedAddress
        /\ m_isConnected <=> IsConnectCommand(destination)

\* A step sends and receives only on a socket that has been connected and that
\* the thread has finished setting up, although Connect() does not take the
\* lock; and it is connected to the address the thread was given.
OnlyConnectedSocketIsUsed ==
    main = "running" /\ m_isConnected =>
        /\ m_socket \in {"connected", "dead"}
        /\ thread \in {"test", "read", "disconnect", "wait"}
        /\ thread # "disconnect" => server = destination

\* A new address reaches the thread, whatever it is doing, if it is not
\* replaced before.
CommandIsServed ==
    \A a \in Address :
        (main = "running" /\ m_commandedAddress = a) ~>
            (destination = a \/ m_commandedAddress # a \/ main # "running")

\* Destroy() returns, with the thread gone and the socket closed, wherever the
\* thread is when the socket is closed under it.
DestroyReturns ==
    main = "disconnect" ~>
        main = "destroyed" /\ thread = "none" /\ m_socket = "closed" /\ ~m_isConnected

\* The comment on Send() and Receive(): they are given "The server address to
\* which to connect to" and return "A flag indicating that connection has been
\* established".
FlagIsForAddress ==
    [][ \A a \in Address :
          Transfer(a) /\ a # m_commandedAddress /\ m_isConnected' => server = a ]_vars
====
