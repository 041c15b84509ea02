---------------------------- MODULE DriverBlocks ----------------------------
(***************************************************************************)
(* A model with blocks of the library, simulated in Simulink or built for  *)
(* a target: the dialogs are checked, the ports sized, and the drivers     *)
(* initialised, stepped and terminated, again and again.  The drivers keep *)
(* their recorders, services and clocks in static variables, which all     *)
(* blocks of a kind share and which outlive a simulation.                  *)
(*                                                                         *)
(* Simulink is the environment: it calls mdlStart of every block, then     *)
(* mdlOutputs in any order, then mdlTerminate of every block, and lets the *)
(* user change tunable parameters meanwhile.  What sockets and recorders   *)
(* do on their own is in UDPServices, TCPClientService and DataRecorder.   *)
(***************************************************************************)
EXTENDS DataRecorderManager, SFunctions

CONSTANTS
    Models,         \* names of models -> their blocks, as [type, dialogs], where
                    \* "dialogs" is what the user may enter, the first one first
    Connected,      \* widths of signals at ports of dynamic width
    MaxTime         \* bound: ticks of the clock

SocketTypes == {"UDPSocket", "TCPClientSocket"}

\* The masks of the blocks convert counts to unsigned integers, but for the
\* sizes of receive buffers, and pass a text with its length.
MaskPasses(type, d) ==
    \A i \in DOMAIN d \cap DOMAIN DialogOf[type] :
        /\ DialogOf[type][i] = "vector" => d[i + 1].elements[1] \in 0..Len(d[i].elements)
        /\ DialogOf[type][i] = "number" /\ type \notin SocketTypes
                => d[i].elements[1] >= 0

ASSUME BlockConstants ==
    /\ Connected \subseteq (Nat \ {0}) \cup {Dynamic} /\ MaxTime \in Nat
    /\ \A m \in DOMAIN Models :
        /\ Models[m] \in Seq(ToSet(Models[m])) /\ Models[m] # <<>>
        /\ \A block \in ToSet(Models[m]) :
            /\ block.type \in DOMAIN SizesOf
            /\ block.dialogs \in Seq(Seq(Matrices)) /\ block.dialogs # <<>>
            /\ \A d \in ToSet(block.dialogs) : MaskPasses(block.type, d)

VARIABLES
    build,          \* simulation, target, debug (a target built with DEBUG)
    model,
    dialog,         \* parameters in the dialogs
    error,          \* ssSetErrorStatus: the model cannot be run
    phase,          \* design, starting, running, terminating
    next,           \* the block to start or to terminate
    run,            \* number of the simulation, or of the start on the target
    \* set up for the blocks when the model is compiled
    widths, sampleTime, runtime,
    \* in the drivers
    services,       \* m_services of the UDP and the TCP client service manager
    time_point_set, time_point_of_start,
    terminationRequested,
    now,            \* the clock
    times           \* history: <<now, output>> of ModelExecutionTime in this run

compiled == <<widths, sampleTime, runtime>>
clocks == <<time_point_set, time_point_of_start, times>>
drivers == <<managerVars, services, clocks, terminationRequested, faults>>
vars == <<build, model, dialog, error, phase, next, run, compiled, drivers, now>>

Block == DOMAIN Models[model]
Type(b) == Models[model][b].type
Dialogs(b) == Models[model][b].dialogs
Simulated == build = "simulation"
Recorders == {b \in Block : Type(b) = "DataRecorder"}

Init ==
    /\ build \in {"simulation", "target", "debug"} /\ model \in DOMAIN Models
    /\ dialog = [b \in Block |-> Dialogs(b)[1]]
    /\ error = FALSE /\ phase = "design" /\ next = 1 /\ run = 0
    /\ widths = <<>> /\ sampleTime = <<>> /\ runtime = <<>>
    /\ ManagerInit /\ services = [t \in SocketTypes |-> <<>>]
    /\ time_point_set = FALSE /\ time_point_of_start = 0 /\ times = {}
    /\ terminationRequested = FALSE /\ now = 0

-----------------------------------------------------------------------------
(* Before a run                                                            *)

Edit(b, d) ==
    /\ phase = "design" /\ run < MaxRuns
    /\ dialog' = [dialog EXCEPT ![b] = d]
    /\ error' = FALSE
    /\ UNCHANGED <<build, model, phase, next, run, compiled, drivers, now>>

\* The error of any block ends the compilation ...
CompileFails ==
    /\ phase = "design" /\ \E b \in Block : ~mdlInitializeSizes(Type(b), dialog[b])
    /\ error' = TRUE
    /\ UNCHANGED <<build, model, dialog, phase, next, run, compiled, drivers, now>>

PortWidths(b, connected) ==
    LET Resolved(port) == mdlSetPortDimensionInfo(port, dialog[b], connected)
        sizes == SizesOf[Type(b)] IN
    [inputs |-> [k \in DOMAIN sizes.inputs |->
                    mdlSetDefaultPortDimensionInfo(Resolved(sizes.inputs[k]))],
     outputs |-> [k \in DOMAIN sizes.outputs |-> Resolved(sizes.outputs[k])]]

\* ... and so does an output of a width nobody knows.  An application that
\* starts on the target is a new process.
Compile(connected) ==
    /\ phase = "design" /\ run < MaxRuns
    /\ \A b \in Block : mdlInitializeSizes(Type(b), dialog[b])
    /\ widths' = [b \in Block |-> PortWidths(b, connected)]
    /\ \A b \in Block : Dynamic \notin ToSet(widths'[b].outputs)
    /\ sampleTime' = [b \in Block |-> mdlInitializeSampleTimes(Type(b), dialog[b])]
    /\ runtime' = [b \in Block |-> mdlSetWorkWidths(Type(b), dialog[b])]
    /\ phase' = "starting" /\ next' = 1 /\ run' = run + 1 /\ times' = {}
    /\ terminationRequested' = FALSE
    /\ UNCHANGED <<build, model, dialog, error, managerVars, services, time_point_set,
                   time_point_of_start, faults, now>>

-----------------------------------------------------------------------------
(* The driver functions of block b.  A parameter is a sequence of numbers. *)

Parameter(b, i) == runtime[b][i]
Scalar(b, i) == runtime[b][i][1]
Text(b, i) == SubSeq(runtime[b][i], 1, Scalar(b, i + 1))   \* with its length

RecordsFiles(b) == ~Simulated \/ Scalar(b, 14) # 0

RecorderId(b) == ConvertToValidID(Parameter(b, 2), Scalar(b, 3))
SampleSize(b) == IF Scalar(b, 1) = 0 THEN Scalar(b, 6) ELSE Scalar(b, 5)

DataRecorderInitialize(b) ==
    /\ Type(b) = "DataRecorder"
    /\ IF RecordsFiles(b)
       THEN \E success \in BOOLEAN :
            /\ AddDataRecorder(run, RecorderId(b), Scalar(b, 1), SampleSize(b),
                               build = "target", success)
            /\ terminationRequested' = (terminationRequested \/ (~Simulated /\ ~success))
       ELSE UNCHANGED <<managerVars, faults, terminationRequested>>
    /\ UNCHANGED <<services, clocks>>

\* Everything but the length of the device name and what does not print.
Printable(text) == SelectSeq(text, LAMBDA c : c \in 32..127)
Configuration(b) ==
    [i \in ToSet(CallsOf[Type(b)].start) \ {<<"p", 3>>} |->
        IF i[2] = 2 THEN Printable(Text(b, 2)) ELSE Parameter(b, i[2])]

FindService(type, id) == SelectInSeq(services[type], LAMBDA s : s.id = id)

\* Mutant: the configuration of a service that exists is not compared.
AddServiceUnchecked(b, success) ==
    LET k == FindService(Type(b), Scalar(b, 1))
        service == [id |-> Scalar(b, 1), conf |-> Configuration(b), open |-> TRUE]
    IN /\ services' = IF k # 0 THEN services
                      ELSE [services EXCEPT ![Type(b)] = Append(@, service)]
       /\ success /\ UNCHANGED faults

\* AddService() and Create(): a service that exists must have the same
\* configuration; if it has no socket, this is another attempt to open one.
\* The TCP client opens its socket later.
AddService(b, success) ==
    LET m_services == services[Type(b)]
        k == FindService(Type(b), Scalar(b, 1))
        service(open) == [id |-> Scalar(b, 1), conf |-> Configuration(b), open |-> open]
    IN \/ /\ k # 0 /\ (m_services[k].conf = Configuration(b) => m_services[k].open)
          /\ success = (m_services[k].conf = Configuration(b))
          /\ UNCHANGED <<services, faults>>
       \/ /\ k # 0 => m_services[k] = service(FALSE)
          /\ success \/ Type(b) = "UDPSocket"
          /\ services' = [services EXCEPT ![Type(b)] =
                            IF k = 0 THEN Append(@, service(success))
                                     ELSE [@ EXCEPT ![k] = service(success)]]
          /\ Faults(<<success>>)

SocketInitialize(b) ==
    /\ Type(b) \in SocketTypes
    /\ \E success \in BOOLEAN :
        /\ AddService(b, success)
        /\ terminationRequested' = (terminationRequested \/ (build = "target" /\ ~success))
    /\ UNCHANGED <<managerVars, clocks>>

\* Mutant: the clock is not reset.
ModelExecutionTimeInitializeOnce(b) ==
    /\ Type(b) = "ModelExecutionTime"
    /\ UNCHANGED drivers
ModelExecutionTimeInitialize(b) ==
    /\ Type(b) = "ModelExecutionTime"
    /\ IF Simulated THEN time_point_set' = FALSE /\ time_point_of_start' = now
                    ELSE UNCHANGED <<time_point_set, time_point_of_start>>
    /\ UNCHANGED <<times, managerVars, services, terminationRequested, faults>>

\* The other drivers have nothing to initialise or to terminate.
Stateless(b) == Type(b) \notin SocketTypes \cup {"DataRecorder", "ModelExecutionTime"}

mdlStart(b) ==
    \/ DataRecorderInitialize(b) \/ SocketInitialize(b) \/ ModelExecutionTimeInitialize(b)
    \/ Stateless(b) /\ UNCHANGED drivers

-----------------------------------------------------------------------------
DataRecorderStep(b) ==
    /\ Type(b) = "DataRecorder" /\ RecordsFiles(b)
    /\ Write(RecorderId(b), SampleSize(b), b)
    /\ UNCHANGED <<services, clocks, terminationRequested>>

\* The first step of any block starts the time.
ModelExecutionTimeStep(b) ==
    /\ Type(b) = "ModelExecutionTime" /\ Simulated
    /\ time_point_set' = TRUE
    /\ time_point_of_start' = IF time_point_set THEN time_point_of_start ELSE now
    /\ times' = times \cup {<<now, now - time_point_of_start'>>}
    /\ UNCHANGED <<managerVars, services, terminationRequested, faults>>

StopExecutionStep(b, stopExecution) ==
    /\ Type(b) = "StopExecution"
    /\ terminationRequested' = (terminationRequested \/ (~Simulated /\ stopExecution))
    /\ UNCHANGED <<managerVars, services, clocks, faults>>

\* The other steps only fill their outputs.
mdlOutputs(b) ==
    \/ DataRecorderStep(b) \/ ModelExecutionTimeStep(b)
    \/ \E stopExecution \in BOOLEAN : StopExecutionStep(b, stopExecution)

-----------------------------------------------------------------------------
DataRecorderTerminate(b) ==
    /\ Type(b) = "DataRecorder"
    /\ IF RecordsFiles(b) THEN ClearAllDataRecorders ELSE UNCHANGED <<managerVars, faults>>
    /\ UNCHANGED <<services, clocks, terminationRequested>>

\* Mutant: only the service of the block's own port is cleared.
SocketTerminateOwnPort(b) ==
    /\ Type(b) \in SocketTypes
    /\ services' = [services EXCEPT ![Type(b)] = SelectSeq(@, LAMBDA s : s.id # Scalar(b, 1))]
    /\ UNCHANGED <<managerVars, clocks, terminationRequested, faults>>
\* All services of the kind are cleared, whatever the port of the block.
SocketTerminate(b) ==
    /\ Type(b) \in SocketTypes
    /\ services' = [services EXCEPT ![Type(b)] = <<>>]
    /\ UNCHANGED <<managerVars, clocks, terminationRequested, faults>>

mdlTerminate(b) ==
    \/ DataRecorderTerminate(b) \/ SocketTerminate(b)
    \/ (Stateless(b) \/ Type(b) = "ModelExecutionTime") /\ UNCHANGED drivers

-----------------------------------------------------------------------------
(* A run                                                                   *)

Advance(done) ==
    IF next = Len(Models[model]) THEN phase' = done /\ next' = 1
                                 ELSE next' = next + 1 /\ UNCHANGED phase

Start ==
    /\ phase = "starting" /\ mdlStart(next) /\ Advance("running")
    /\ UNCHANGED <<build, model, dialog, error, run, compiled, now>>

Step(b) ==
    /\ phase = "running" /\ mdlOutputs(b)
    /\ UNCHANGED <<build, model, dialog, error, phase, next, run, compiled, now>>

\* Simulink refuses to change a fixed parameter, the size of any, and their
\* number.
Tune(b, d) ==
    /\ phase = "running" /\ Simulated /\ d # dialog[b] /\ Len(d) = Len(dialog[b])
    /\ \A i \in DOMAIN d :
        /\ i \in SizesOf[Type(b)].fixed => d[i] = dialog[b][i]
        /\ d[i].rows = dialog[b][i].rows /\ d[i].columns = dialog[b][i].columns
    /\ mdlCheckParameters(Type(b), d)
    /\ dialog' = [dialog EXCEPT ![b] = d]
    /\ runtime' = [runtime EXCEPT ![b] = mdlProcessParameters(Type(b), d, @)]
    /\ UNCHANGED <<build, model, error, phase, next, run, widths, sampleTime, drivers, now>>

\* The user, a signal or a request ends the run at any time.
End ==
    /\ phase = "running" /\ phase' = "terminating"
    /\ UNCHANGED <<build, model, dialog, error, next, run, compiled, drivers, now>>

Terminate ==
    /\ phase = "terminating" /\ mdlTerminate(next) /\ Advance("design")
    /\ UNCHANGED <<build, model, dialog, error, run, compiled, now>>

\* Only ModelExecutionTime reads the clock.
Tick ==
    /\ \E b \in Block : Type(b) = "ModelExecutionTime"
    /\ now < MaxTime /\ now' = now + 1
    /\ UNCHANGED <<build, model, dialog, error, phase, next, run, compiled, drivers>>

Next ==
    \/ \E b \in Block : \E d \in ToSet(Dialogs(b)) : Edit(b, d) \/ Tune(b, d)
    \/ CompileFails \/ \E connected \in Connected : Compile(connected)
    \/ Start \/ (\E b \in Block : Step(b)) \/ End \/ Terminate \/ Tick

Spec == Init /\ [][Next]_vars

-----------------------------------------------------------------------------
(* What the driver steps read and write of the arrays they are handed: the *)
(* positions of the arguments with the numbers of elements, where "a" has  *)
(* the values of the scalar arguments.                                     *)

\* A socket refuses to receive into a buffer of a negative size.
Receivable(size) == IF size < 0 THEN 0 ELSE size

UDPSocketReach(a) ==
    {<<5, 4>>, <<6, 1>>, <<7, 1>>, <<8, 1>>} \cup
    IF a[2] # 0 THEN {<<9, 4>>, <<11, a[12]>>} ELSE {<<4, Receivable(a[3])>>, <<13, a[14]>>}

TCPClientSocketReach(a) ==
    {<<5, 1>>, <<6, 1>>, <<7, 1>>, <<8, 4>>} \cup
    IF a[2] # 0 THEN {<<11, a[12]>>} ELSE {<<4, Receivable(a[3])>>}

\* A recorder of scalar doubles, eight bytes each, may have the ID of a bus.
DataRecorderReach(b, a) ==
    LET k == Find(RecorderId(b))
        taken == k # 0 /\ m_dataRecorders[k].size = SampleSize(b)
    IN {<<2, a[3]>>} \cup
       IF ~taken THEN {}
       ELSE IF a[1] = 0 THEN {<<5, a[6]>>}
       ELSE {<<7, IF m_dataRecorders[k].type = 0 THEN 8 * a[8] ELSE a[8]>>}

ApplicationArgumentsReach(a) ==
    {<<2, a[5]>>, <<3, 1>>} \cup IF Simulated THEN {} ELSE {<<1, a[4] * a[5]>>}

ReadThermalZonesReach(a) == {<<2, a[1]>>}
TaskReach(a) == {<<1, 1>>} \cup IF Simulated THEN {} ELSE {<<2, a[3]>>}

\* Time and overload drivers write one value to each output.
EachOutput(b) == {<<k, 1>> : k \in DOMAIN widths[b].outputs}

\* The mask of a socket block passes at most the width of the data as its
\* length, and the width of the groups.
InputValue(b, u) ==
    IF Type(b) \in SocketTypes /\ u \in {4, 6} THEN widths[b].inputs[u - 1] ELSE 0

ArgumentValues(b) ==
    LET args == CallsOf[Type(b)].outputs IN
    [k \in DOMAIN args |->
        IF args[k][1] = "u" THEN InputValue(b, args[k][2])
        ELSE IF args[k][1] = "p" /\ Parameter(b, args[k][2]) # <<>>
        THEN Scalar(b, args[k][2]) ELSE 0]

Reach(b) ==
    LET a == ArgumentValues(b) IN
    CASE Type(b) = "UDPSocket" -> UDPSocketReach(a)
      [] Type(b) = "TCPClientSocket" -> TCPClientSocketReach(a)
      [] Type(b) = "DataRecorder" -> IF RecordsFiles(b) THEN DataRecorderReach(b, a) ELSE {}
      [] Type(b) = "ApplicationArguments" -> ApplicationArgumentsReach(a)
      [] Type(b) = "ReadThermalZones" -> ReadThermalZonesReach(a)
      [] Type(b) \in {"NumTaskOverloads", "TaskExecutionTime"} -> TaskReach(a)
      [] Type(b) = "StopExecution" -> {}
      [] OTHER -> EachOutput(b)

Extent(b, arg) ==
    CASE arg[1] = "p" -> Len(Parameter(b, arg[2]))
      [] arg[1] = "u" -> widths[b].inputs[arg[2]]
      [] arg[1] = "y" -> widths[b].outputs[arg[2]]

-----------------------------------------------------------------------------
(* Properties                                                              *)

Regular(t) ==
    \/ t.period > 0 /\ t.offset < t.period
    \/ t.period = 0 /\ t.offset = 1
    \/ t.period = -1 /\ t.offset = 0

\* Types, and what mdlCheckParameters and mdlInitializeSizes are there for:
\* whatever the dialogs hold, a model that is run has ports of a positive
\* width and sample times that Simulink can schedule.
TypeOK ==
    /\ phase \in {"design", "starting", "running", "terminating"} /\ run \in 0..MaxRuns
    /\ next \in Block /\ error \in BOOLEAN /\ m_pathToDataDirectory \in 0..run
    /\ faults \in 0..MaxFaults /\ now \in 0..MaxTime
    /\ {time_point_set, terminationRequested} \subseteq BOOLEAN
    /\ time_point_of_start \in 0..now
    /\ \A r \in ToSet(m_dataRecorders) : r.sources \subseteq Recorders
    /\ DOMAIN services = SocketTypes
    /\ \A t \in SocketTypes : \A s \in ToSet(services[t]) : s.open \in BOOLEAN
    /\ run > 0 => \A b \in Block :
        /\ \A w \in ToSet(widths[b].inputs \o widths[b].outputs) : w >= 1
        /\ Regular(sampleTime[b])
        /\ Len(runtime[b]) = CallsOf[Type(b)].runtime

\* A bus block that writes to a recorder of scalar doubles which has its ID.
MixesRecorders(b) ==
    /\ Type(b) = "DataRecorder" /\ Scalar(b, 1) # 0 /\ Find(RecorderId(b)) # 0
    /\ m_dataRecorders[Find(RecorderId(b))].type = 0

\* No step of a driver reads or writes more elements than the port or the
\* parameter behind its pointer has, though widths are those of the
\* compilation and the counts come from parameters of now.  (The input of a
\* bus whose ID is taken is read too far in a simulation, or before the end of
\* the application it has asked for.)
DriversStayInPorts ==
    phase = "running" =>
        \A b \in Block : \A touched \in Reach(b) :
            \/ touched[2] \in 0..Extent(b, CallsOf[Type(b)].outputs[touched[1]])
            \/ /\ MixesRecorders(b) /\ touched[1] = 7
               /\ Simulated \/ terminationRequested

HasItsRecorder(b) ==
    LET k == Find(RecorderId(b)) IN
    /\ k # 0
    /\ m_dataRecorders[k].type = Scalar(b, 1) /\ m_dataRecorders[k].size = SampleSize(b)
    /\ m_dataRecorders[k].started /\ m_dataRecorders[k].sources \subseteq {b}

HasItsService(b) ==
    LET k == FindService(Type(b), Scalar(b, 1)) IN
    /\ k # 0
    /\ services[Type(b)][k].open /\ services[Type(b)][k].conf = Configuration(b)

\* An application that runs, and has not been told to end, gives each
\* recorder block a started recorder to itself, and each socket block an
\* open service configured as the block asks, although several blocks may
\* name one port and different texts may become one ID.  (In a DEBUG build
\* it runs on without its sockets.)
BlocksGetWhatTheyAskFor ==
    phase = "running" /\ ~Simulated /\ ~terminationRequested =>
        \A b \in Block :
            /\ Type(b) = "DataRecorder" => HasItsRecorder(b)
            /\ Type(b) \in SocketTypes /\ build = "target" => HasItsService(b)

\* The statics of the drivers are as after loading when no model runs, even
\* if ports were changed meanwhile.  Recorders are left if the user switched
\* off the files of all recorder blocks during the simulation.
NothingSurvives ==
    phase = "design" =>
        /\ \A t \in SocketTypes : services[t] = <<>>
        /\ m_dataRecorders # <<>> =>
            Simulated /\ \A b \in Recorders : ~RecordsFiles(b)

\* No two recorders are ever given the same file, in one run or in several,
\* and the index of the directory names the recorders of a run, in order,
\* unless a call failed (on the target the run is then about to end).
FilesOfARun ==
    /\ IsInjective(claimed)
    /\ phase = "running" /\ m_dataRecorders # <<>>
            /\ (IF Simulated THEN faults = 0 ELSE ~terminationRequested)
        => index[m_pathToDataDirectory] = Ids(m_dataRecorders)

\* In a simulation all blocks measure the time from the first step of any
\* of them in this simulation, not in an earlier one.
TimeStartsAtZero ==
    \A x, y \in times :
        /\ x[1] - x[2] = y[1] - y[2]
        /\ \E z \in times : z[2] = 0 /\ z[1] <= x[1]
=============================================================================
