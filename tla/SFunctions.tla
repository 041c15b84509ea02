----------------------------- MODULE SFunctions -----------------------------
(***************************************************************************)
(* The S-functions of the library, as Simulink sees them: which values the *)
(* dialog of a block may have, which of them may change while a simulation *)
(* runs, how wide the ports are, and which parameters and ports each call  *)
(* hands to the driver.  Every S-function has a file of its own with the   *)
(* same callbacks; what differs is in three tables per file:               *)
(*                                                                         *)
(*   ...Dialog   what mdlCheckParameters asks of each parameter            *)
(*   ...Sizes    what mdlInitializeSizes declares: the parameters that are *)
(*               fixed during a simulation, and the widths of the ports    *)
(*   ...Calls    the run-time parameters of mdlSetWorkWidths and the calls *)
(*               in mdlStart, mdlOutputs and mdlTerminate                  *)
(*                                                                         *)
(* Data types, reserved identifiers and other options are left out, and so *)
(* are complex, sparse, logical and infinite values.  Times are integers.  *)
(***************************************************************************)
EXTENDS Integers, Sequences, SequencesExt, TLC

-----------------------------------------------------------------------------
(* Values in a dialog.  A matrix has a class, "double", "numeric" (of      *)
(* another numeric class) or "char", its dimensions and its elements.      *)

Matrices ==
    {v \in [class : {"double", "numeric", "char"}, rows : Nat, columns : Nat,
            elements : Seq(Int)] : Len(v.elements) = v.rows * v.columns}

IsRealMatrix(v) == v.class = "double" /\ v.elements # <<>>

IsScalar(v) == v.rows = 1 /\ v.columns = 1
IsVector(v) == ~(v.rows > 1 /\ v.columns > 1)

\* Mutant: an inherited sample time may have an offset, as a periodic one.
SampleTimeIsAny(v) ==
    /\ IsRealMatrix(v) /\ v.rows * v.columns \in {1, 2}
    /\ v.elements[1] >= -1

SampleTimeIsValid(v) ==
    /\ IsRealMatrix(v) /\ v.rows * v.columns \in {1, 2}
    /\ v.elements[1] >= 0 \/ v.elements[1] = -1
    /\ v.rows * v.columns = 2 =>
        /\ v.elements[1] > 0 => v.elements[2] < v.elements[1]
        /\ v.elements[1] = -1 => v.elements[2] = 0
        /\ v.elements[1] = 0 => v.elements[2] = 1

\* What a parameter must be.
Acceptable(kind, v) ==
    \/ kind = "scalar" /\ IsScalar(v)
    \/ kind = "number" /\ v.class # "char" /\ IsScalar(v)
    \/ kind = "vector" /\ IsVector(v)
    \/ kind = "quad" /\ IsVector(v) /\ v.rows * v.columns = 4
    \/ kind = "sample time" /\ SampleTimeIsValid(v)

\* A dialog of n parameters, the last of which is the sample time; the
\* others are scalars, but for those named.
Dialog(n, vectors, quads, numbers) ==
    [i \in 1..n |->
        IF i = n THEN "sample time"
        ELSE IF i \in vectors THEN "vector"
        ELSE IF i \in quads THEN "quad"
        ELSE IF i \in numbers THEN "number" ELSE "scalar"]

OnlySampleTime == Dialog(1, {}, {}, {})

-----------------------------------------------------------------------------
(* Widths and arguments                                                    *)

Dynamic == -1       \* DYNAMICALLY_SIZED

Fixed(n) == [factor |-> n, parameters |-> <<>>]
Given(is) == [factor |-> 1, parameters |-> is]      \* product of one or two

Width(port, dialog) ==
    LET value(k) == IF k \in DOMAIN port.parameters
                    THEN dialog[port.parameters[k]].elements[1] ELSE 1
    IN port.factor * value(1) * value(2)

P(i) == <<"p", i>>
U(i) == <<"u", i>>
Y(i) == <<"y", i>>
Parameters(n) == [i \in 1..n |-> P(i)]
Inputs(n) == [i \in 1..n |-> U(i)]
Outputs(n) == [i \in 1..n |-> Y(i)]

Ports(n) == [i \in 1..n |-> Fixed(1)]

-----------------------------------------------------------------------------
(* UDPSocket: port, device name and its length, priority, four options,    *)
(* TTL, interface address, send or receive, size of the receive buffer     *)

UDPSocketDialog == Dialog(13, {2}, {10}, {12})
UDPSocketSizes ==
    [fixed |-> {12, 13},
     inputs |-> <<Fixed(4), Fixed(1), Fixed(Dynamic), Fixed(1), Fixed(Dynamic), Fixed(1)>>,
     outputs |-> <<Given(<<12>>), Fixed(4), Fixed(1), Fixed(1), Fixed(1)>>]
UDPSocketCalls ==
    [runtime |-> 12, start |-> Parameters(10), terminate |-> <<P(1)>>,
     outputs |-> <<P(1), P(11), P(12), Y(1), Y(2), Y(3), Y(4), Y(5),
                   U(1), U(2), U(3), U(4), U(5), U(6)>>]

(* TCPClientSocket: port, device name and its length, priority, send or    *)
(* receive, size of the receive buffer, whether to manage the connection   *)

TCPClientSocketDialog == Dialog(8, {2}, {}, {6})
TCPClientSocketSizes ==
    [fixed |-> {6, 8},
     inputs |-> <<Fixed(4), Fixed(1), Fixed(Dynamic), Fixed(1)>>,
     outputs |-> <<Given(<<6>>), Fixed(1), Fixed(1), Fixed(1)>>]
TCPClientSocketCalls ==
    [runtime |-> 7, start |-> Parameters(4), terminate |-> <<P(1)>>,
     outputs |-> <<P(1), P(5), P(6), Y(1), Y(2), Y(3), Y(4), U(1), U(2), P(7), U(3), U(4)>>]

(* DataRecorder: type, ID and its length, samples per file, bytes per      *)
(* sample, number of signals, three texts with their lengths, priority,    *)
(* and whether to write files during a simulation                          *)

DataRecorderDialog == Dialog(15, {2, 7, 9, 11}, {}, {5, 6})
DataRecorderSizes ==
    [fixed |-> {5, 6, 15}, inputs |-> <<Fixed(1), Given(<<6>>), Given(<<5>>)>>,
     outputs |-> <<>>]
DataRecorderCalls ==
    [runtime |-> 14, start |-> Parameters(14), terminate |-> <<P(14)>>,
     outputs |-> <<P(1), P(2), P(3), U(1), U(2), P(6), U(3), P(5), P(14)>>]

(* ApplicationArguments: most characters of an argument, most arguments    *)

ApplicationArgumentsDialog == Dialog(3, {}, {}, {1, 2})
\* Mutant: the sizes may change during a simulation.
ApplicationArgumentsSizesTunable ==
    [fixed |-> {3}, inputs |-> <<>>,
     outputs |-> <<Given(<<1, 2>>), Given(<<2>>), Fixed(1)>>]
ApplicationArgumentsSizes ==
    [fixed |-> {1, 2, 3}, inputs |-> <<>>,
     outputs |-> <<Given(<<1, 2>>), Given(<<2>>), Fixed(1)>>]
ApplicationArgumentsCalls ==
    [runtime |-> 2, start |-> <<>>, terminate |-> <<>>,
     outputs |-> <<Y(1), Y(2), Y(3), P(1), P(2)>>]

(* ReadThermalZones: number of zones                                       *)

ReadThermalZonesDialog == Dialog(2, {}, {}, {1})
ReadThermalZonesSizes ==
    [fixed |-> {1, 2}, inputs |-> <<>>, outputs |-> <<Given(<<1>>)>>]
ReadThermalZonesCalls ==
    [runtime |-> 1, start |-> <<>>, terminate |-> <<>>, outputs |-> <<P(1), Y(1)>>]

(* NumTaskOverloads, TaskExecutionTime: name of a task and its length      *)

NumTaskOverloadsDialog == Dialog(3, {1}, {}, {})
NumTaskOverloadsSizes == [fixed |-> {3}, inputs |-> <<>>, outputs |-> Ports(1)]
NumTaskOverloadsCalls ==
    [runtime |-> 2, start |-> <<>>, terminate |-> <<>>, outputs |-> <<Y(1), P(1), P(2)>>]

TaskExecutionTimeDialog == Dialog(3, {1}, {}, {})
TaskExecutionTimeSizes == [fixed |-> {3}, inputs |-> <<>>, outputs |-> Ports(1)]
TaskExecutionTimeCalls ==
    [runtime |-> 2, start |-> <<>>, terminate |-> <<>>, outputs |-> <<Y(1), P(1), P(2)>>]

(* Those that have a sample time only.  StopExecution has an input, the    *)
(* others have outputs.                                                    *)

StopExecutionDialog == OnlySampleTime
StopExecutionSizes == [fixed |-> {1}, inputs |-> Ports(1), outputs |-> <<>>]
StopExecutionCalls ==
    [runtime |-> 0, start |-> <<>>, terminate |-> <<>>, outputs |-> Inputs(1)]

NumCPUOverloadsDialog == OnlySampleTime
NumCPUOverloadsSizes == [fixed |-> {1}, inputs |-> <<>>, outputs |-> Ports(2)]
NumCPUOverloadsCalls ==
    [runtime |-> 0, start |-> <<>>, terminate |-> <<>>, outputs |-> Outputs(2)]

ModelExecutionTimeDialog == OnlySampleTime
ModelExecutionTimeSizes == [fixed |-> {1}, inputs |-> <<>>, outputs |-> Ports(1)]
ModelExecutionTimeCalls ==
    [runtime |-> 0, start |-> <<>>, terminate |-> <<>>, outputs |-> Outputs(1)]

UnixTimeDialog == OnlySampleTime
UnixTimeSizes == [fixed |-> {1}, inputs |-> <<>>, outputs |-> Ports(1)]
UnixTimeCalls ==
    [runtime |-> 0, start |-> <<>>, terminate |-> <<>>, outputs |-> Outputs(1)]

UTCTimestampDialog == OnlySampleTime
UTCTimestampSizes == [fixed |-> {1}, inputs |-> <<>>, outputs |-> Ports(1)]
UTCTimestampCalls ==
    [runtime |-> 0, start |-> <<>>, terminate |-> <<>>, outputs |-> Outputs(1)]

UTCTimeDialog == OnlySampleTime
UTCTimeSizes == [fixed |-> {1}, inputs |-> <<>>, outputs |-> Ports(10)]
UTCTimeCalls ==
    [runtime |-> 0, start |-> <<>>, terminate |-> <<>>, outputs |-> Outputs(10)]

LocalTimeDialog == OnlySampleTime
LocalTimeSizes == [fixed |-> {1}, inputs |-> <<>>, outputs |-> Ports(10)]
LocalTimeCalls ==
    [runtime |-> 0, start |-> <<>>, terminate |-> <<>>, outputs |-> Outputs(10)]

-----------------------------------------------------------------------------
(* The tables by S-function, and the callbacks every file has              *)

DialogOf ==
    [UDPSocket |-> UDPSocketDialog, TCPClientSocket |-> TCPClientSocketDialog,
     DataRecorder |-> DataRecorderDialog,
     ApplicationArguments |-> ApplicationArgumentsDialog,
     ReadThermalZones |-> ReadThermalZonesDialog,
     NumTaskOverloads |-> NumTaskOverloadsDialog,
     TaskExecutionTime |-> TaskExecutionTimeDialog,
     StopExecution |-> StopExecutionDialog, NumCPUOverloads |-> NumCPUOverloadsDialog,
     ModelExecutionTime |-> ModelExecutionTimeDialog, UnixTime |-> UnixTimeDialog,
     UTCTimestamp |-> UTCTimestampDialog, UTCTime |-> UTCTimeDialog,
     LocalTime |-> LocalTimeDialog]

SizesOf ==
    [UDPSocket |-> UDPSocketSizes, TCPClientSocket |-> TCPClientSocketSizes,
     DataRecorder |-> DataRecorderSizes,
     ApplicationArguments |-> ApplicationArgumentsSizes,
     ReadThermalZones |-> ReadThermalZonesSizes,
     NumTaskOverloads |-> NumTaskOverloadsSizes,
     TaskExecutionTime |-> TaskExecutionTimeSizes,
     StopExecution |-> StopExecutionSizes, NumCPUOverloads |-> NumCPUOverloadsSizes,
     ModelExecutionTime |-> ModelExecutionTimeSizes, UnixTime |-> UnixTimeSizes,
     UTCTimestamp |-> UTCTimestampSizes, UTCTime |-> UTCTimeSizes,
     LocalTime |-> LocalTimeSizes]

CallsOf ==
    [UDPSocket |-> UDPSocketCalls, TCPClientSocket |-> TCPClientSocketCalls,
     DataRecorder |-> DataRecorderCalls,
     ApplicationArguments |-> ApplicationArgumentsCalls,
     ReadThermalZones |-> ReadThermalZonesCalls,
     NumTaskOverloads |-> NumTaskOverloadsCalls,
     TaskExecutionTime |-> TaskExecutionTimeCalls,
     StopExecution |-> StopExecutionCalls, NumCPUOverloads |-> NumCPUOverloadsCalls,
     ModelExecutionTime |-> ModelExecutionTimeCalls, UnixTime |-> UnixTimeCalls,
     UTCTimestamp |-> UTCTimestampCalls, UTCTime |-> UTCTimeCalls,
     LocalTime |-> LocalTimeCalls]

mdlCheckParameters(type, dialog) ==
    \A i \in DOMAIN DialogOf[type] : Acceptable(DialogOf[type][i], dialog[i])

\* No error: the dialog has the right number of parameters, all of them
\* acceptable, and every width is dynamic or positive.
mdlInitializeSizes(type, dialog) ==
    /\ Len(dialog) = Len(DialogOf[type]) /\ mdlCheckParameters(type, dialog)
    /\ \A port \in ToSet(SizesOf[type].inputs \o SizesOf[type].outputs) :
           Width(port, dialog) = Dynamic \/ Width(port, dialog) >= 1

mdlInitializeSampleTimes(type, dialog) ==
    LET v == Last(dialog) IN
    [period |-> v.elements[1],
     offset |-> IF v.rows * v.columns = 2 THEN v.elements[2]
                ELSE IF v.elements[1] = 0 THEN 1 ELSE 0]

\* Inputs and outputs of dynamic width get that of the signal they are
\* connected to; mdlSetDefaultPortDimensionInfo gives the inputs the width 1
\* if that is open, too.
mdlSetPortDimensionInfo(port, dialog, connected) ==
    IF Width(port, dialog) = Dynamic THEN connected ELSE Width(port, dialog)
mdlSetDefaultPortDimensionInfo(width) == IF width = Dynamic THEN 1 ELSE width

mdlSetWorkWidths(type, dialog) ==
    [i \in 1..CallsOf[type].runtime |-> dialog[i].elements]

\* The tunable parameters only are updated.
mdlProcessParameters(type, dialog, runtime) ==
    [i \in DOMAIN runtime |->
        IF i \in SizesOf[type].fixed THEN runtime[i] ELSE dialog[i].elements]
=============================================================================
