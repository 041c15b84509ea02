------------------------- MODULE DriverBlocksProofs -------------------------
(***************************************************************************)
(* Runs of a model with any blocks of the library, for any dialogs, any    *)
(* number of runs and any failing calls of the operating system.           *)
(***************************************************************************)
EXTENDS DriverBlocks, SequenceTheorems, FiniteSetTheorems, WellFoundedInduction, TLAPS

-----------------------------------------------------------------------------
(* The inductive invariant                                                 *)

\* The phases of a run; each starts with the first block.
Phases ==
    /\ build \in {"simulation", "target", "debug"} /\ model \in DOMAIN Models
    /\ phase \in {"design", "starting", "running", "terminating"}
    /\ run \in 0..MaxRuns /\ (phase # "design" => run > 0)
    /\ next \in Block /\ (phase \in {"design", "running"} => next = 1)
    /\ error \in BOOLEAN /\ terminationRequested \in BOOLEAN
    /\ faults \in 0..MaxFaults /\ now \in 0..MaxTime

\* Blocks that have been started, and those still to be terminated.
Started(b) == phase = "running" \/ (phase = "starting" /\ b < next)
Pending(b) == phase \in {"starting", "running"} \/ (phase = "terminating" /\ b >= next)

\* Services belong to blocks of their kind that are not terminated yet.
ServicesInv ==
    /\ services = [t \in SocketTypes |-> services[t]]
    /\ \A t \in SocketTypes :
        services[t] # <<>> => \E b \in Block : Type(b) = t /\ Pending(b)

\* The lists of the service managers.
ServiceLists ==
    \A t \in SocketTypes :
        /\ services[t] \in Seq(ToSet(services[t]))
        /\ \A s \in ToSet(services[t]) : s.open \in BOOLEAN

\* A recorder as the manager makes it.
IsRecorder(r) ==
    r = [id |-> r.id, type |-> r.type, size |-> r.size, started |-> r.started,
         sources |-> r.sources]

\* Recorders have a directory, and only blocks that record no files have
\* been terminated or rest while recorders are left.
RecordersInv ==
    /\ m_dataRecorders \in Seq(ToSet(m_dataRecorders))
    /\ m_pathToDataDirectory \in 0..run
    /\ \A r \in ToSet(m_dataRecorders) : IsRecorder(r) /\ r.sources \subseteq Recorders
    /\ m_dataRecorders # <<>> =>
        /\ m_pathToDataDirectory # 0 /\ Recorders # {}
        /\ \A b \in Recorders : Pending(b) \/ ~RecordsFiles(b)

\* The files of this directory have IDs of the manager's recorders, and no
\* file is in a directory that has not been named yet.
FilesInv ==
    /\ claimed \in Seq(ToSet(claimed)) /\ IsInjective(claimed)
    /\ \A n \in DOMAIN claimed :
        /\ claimed[n] = <<claimed[n][1], claimed[n][2]>> /\ claimed[n][1] \in 1..run
        /\ claimed[n][1] = m_pathToDataDirectory =>
            \E k \in DOMAIN m_dataRecorders : m_dataRecorders[k].id = claimed[n][2]
        /\ m_pathToDataDirectory = 0 /\ phase \in {"starting", "running"} =>
            claimed[n][1] # run

\* The index file is written after every change of the list.
IndexInv ==
    /\ index = [d \in 1..MaxRuns |-> index[d]]
    /\ m_dataRecorders # <<>> /\ (IF Simulated THEN faults = 0 ELSE ~terminationRequested)
        => index[m_pathToDataDirectory] = Ids(m_dataRecorders)

\* The time of all outputs is measured from the one start, whose own output
\* is among them; until there are any, started blocks have reset the clock.
TimeInv ==
    /\ time_point_set \in BOOLEAN /\ time_point_of_start \in 0..now
    /\ \A x \in times : \E t \in time_point_of_start..now : x = <<t, t - time_point_of_start>>
    /\ times # {} => time_point_set /\ <<time_point_of_start, 0>> \in times
    /\ phase = "starting" => times = {}
    /\ times = {} /\ Simulated =>
        \A b \in Block : Type(b) = "ModelExecutionTime" /\ Started(b) => ~time_point_set

\* On the target, blocks that have been started have what they asked for, and
\* no two recorder blocks one ID.
OwnersInv ==
    ~Simulated /\ ~terminationRequested =>
        \A b \in Block : Started(b) =>
            /\ Type(b) = "DataRecorder" =>
                /\ HasItsRecorder(b)
                /\ \A c \in Recorders : Started(c) /\ RecorderId(b) = RecorderId(c) => b = c
            /\ Type(b) \in SocketTypes /\ build = "target" => HasItsService(b)

\* What the compilation has set up for the blocks.
CompiledInv ==
    /\ dialog \in [Block -> Seq(Matrices)]
    /\ run > 0 =>
        /\ runtime = [b \in Block |-> runtime[b]]
        /\ \A b \in Block :
            /\ \A w \in ToSet(widths[b].inputs \o widths[b].outputs) : w >= 1
            /\ Regular(sampleTime[b])
            /\ Len(runtime[b]) = CallsOf[Type(b)].runtime

\* While a model runs, the parameters and ports are those of the dialogs.
PortsInv ==
    /\ \A b \in Block : dialog[b] \in ToSet(Dialogs(b))
    /\ phase # "design" => \A b \in Block :
        /\ mdlInitializeSizes(Type(b), dialog[b])
        /\ runtime[b] = mdlSetWorkWidths(Type(b), dialog[b])
        /\ \E connected \in Connected : widths[b] = PortWidths(b, connected)
        /\ Dynamic \notin ToSet(widths[b].outputs)

IInv ==
    /\ Phases /\ ServicesInv /\ ServiceLists /\ RecordersInv /\ FilesInv /\ IndexInv
    /\ TimeInv /\ OwnersInv /\ CompiledInv /\ PortsInv

-----------------------------------------------------------------------------
(* Models, and calls that may fail                                         *)

LEMMA BlockFacts ==
    ASSUME model \in DOMAIN Models
    PROVE  /\ Len(Models[model]) \in Nat \ {0} /\ Block = 1..Len(Models[model])
           /\ 1 \in Block
           /\ \A b \in Block :
                /\ Type(b) \in DOMAIN SizesOf
                /\ Dialogs(b) \in Seq(Seq(Matrices)) /\ Dialogs(b) # <<>>
  <1> DEFINE blocks == Models[model]
  <1>1. blocks \in Seq(ToSet(blocks)) /\ blocks # <<>>  BY BlockConstants
  <1>2. \A x \in ToSet(blocks) :
            /\ x.type \in DOMAIN SizesOf
            /\ x.dialogs \in Seq(Seq(Matrices)) /\ x.dialogs # <<>>
        BY BlockConstants
  <1> HIDE DEF blocks
  <1>3. Len(blocks) \in Nat \ {0} /\ DOMAIN blocks = 1..Len(blocks)  BY <1>1
  <1>4. \A b \in DOMAIN blocks : blocks[b] \in ToSet(blocks)  BY DEF ToSet
  <1>5. QED  BY <1>2, <1>3, <1>4 DEF blocks, Block, Type, Dialogs

\* The history variable counts the calls that failed.
LEMMA FaultsCount ==
    ASSUME NEW n \in Nat, NEW outcomes, DOMAIN outcomes = 1..n,
           faults \in Nat, Faults(outcomes)
    PROVE  /\ faults' \in 0..MaxFaults
           /\ faults' = 0 => faults = 0 /\ \A k \in 1..n : outcomes[k]
  <1> DEFINE failed == {k \in DOMAIN outcomes : ~outcomes[k]}
  <1>1. IsFiniteSet(failed)
    <2>1. IsFiniteSet(1..n)  BY FS_Interval
    <2>2. failed \subseteq 1..n  OBVIOUS
    <2>3. QED  BY <2>1, <2>2, FS_Subset
  <1>2. Cardinality(failed) \in Nat /\ (Cardinality(failed) = 0 <=> failed = {})
        BY <1>1, FS_CardinalityType, FS_EmptySet
  <1>3. faults' = faults + Cardinality(failed) /\ faults' <= MaxFaults  BY DEF Faults
  <1>4. failed = {} => \A k \in 1..n : outcomes[k]  OBVIOUS
  <1> HIDE DEF failed
  <1>5. QED  BY <1>2, <1>3, <1>4, ManagerConstants

LEMMA FaultsCountOne ==
    ASSUME NEW o \in BOOLEAN, faults \in Nat, Faults(<<o>>)
    PROVE  faults' \in 0..MaxFaults /\ (faults' = 0 => faults = 0 /\ o)
  <1> DEFINE outcomes == <<o>>
  <1>1. DOMAIN outcomes = 1..1 /\ outcomes[1] = o /\ 1 \in 1..1 /\ 1 \in Nat  OBVIOUS
  <1> HIDE DEF outcomes
  <1>2. Faults(outcomes)  BY DEF outcomes
  <1>3. QED  BY <1>1, <1>2, FaultsCount

LEMMA FaultsCountTwo ==
    ASSUME NEW o \in BOOLEAN, NEW p \in BOOLEAN, faults \in Nat, Faults(<<o, p>>)
    PROVE  faults' \in 0..MaxFaults /\ (faults' = 0 => faults = 0 /\ o /\ p)
  <1> DEFINE outcomes == <<o, p>>
  <1>1. DOMAIN outcomes = 1..2 /\ outcomes[1] = o /\ outcomes[2] = p
        /\ 1 \in 1..2 /\ 2 \in 1..2 /\ 2 \in Nat
        OBVIOUS
  <1> HIDE DEF outcomes
  <1>2. Faults(outcomes)  BY DEF outcomes
  <1>3. QED  BY <1>1, <1>2, FaultsCount

\* What AddDataRecorder does to the count and to the result.
LEMMA AddedFaults ==
    ASSUME NEW r, NEW id, NEW type, NEW size, NEW may, NEW success \in BOOLEAN,
           faults \in Nat, AddDataRecorder(r, id, type, size, may, success)
    PROVE  faults' \in 0..MaxFaults
  <1>1. CASE MakeDataDirectoryFails(r)
        BY <1>1, FaultsCountOne DEF MakeDataDirectoryFails
  <1>2. CASE ~MakeDataDirectoryFails(r)
    <2>1. \/ \E written \in BOOLEAN : Faults(<<written>>)
          \/ \E started, written \in BOOLEAN : Faults(<<started, written>>)
          BY <1>2 DEF AddDataRecorder
    <2>2. QED  BY <2>1, FaultsCountOne, FaultsCountTwo
  <1>3. QED  BY <1>1, <1>2

-----------------------------------------------------------------------------
(* The phases                                                              *)

\* What a step of the drivers may change.
DriversMove ==
    /\ terminationRequested' \in BOOLEAN /\ faults' \in 0..MaxFaults

LEMMA StartMoves ==
    ASSUME Phases, NEW b \in Block, mdlStart(b)
    PROVE  DriversMove
  <1>1. faults \in 0..MaxFaults /\ faults \in Nat /\ terminationRequested \in BOOLEAN
        BY ManagerConstants DEF Phases
  <1>2. CASE DataRecorderInitialize(b)
    <2>1. CASE RecordsFiles(b)
      <3>1. PICK success \in BOOLEAN :
              /\ AddDataRecorder(run, RecorderId(b), Scalar(b, 1), SampleSize(b),
                                 build = "target", success)
              /\ terminationRequested' = (terminationRequested \/ (~Simulated /\ ~success))
            BY <1>2, <2>1 DEF DataRecorderInitialize
      <3>2. faults' \in 0..MaxFaults  BY <1>1, <3>1, AddedFaults
      <3>3. terminationRequested' \in BOOLEAN  BY <3>1, Zenon
      <3>4. QED  BY <3>2, <3>3 DEF DriversMove
    <2>2. CASE ~RecordsFiles(b)
          BY <1>1, <1>2, <2>2 DEF DataRecorderInitialize, DriversMove
    <2>3. QED  BY <2>1, <2>2
  <1>3. CASE SocketInitialize(b)
    <2>1. PICK success \in BOOLEAN :
            /\ AddService(b, success)
            /\ terminationRequested' =
                (terminationRequested \/ (build = "target" /\ ~success))
          BY <1>3 DEF SocketInitialize
    <2>2. UNCHANGED faults \/ Faults(<<success>>)  BY <2>1 DEF AddService
    <2>3. faults' \in 0..MaxFaults  BY <1>1, <2>1, <2>2, FaultsCountOne
    <2>4. terminationRequested' \in BOOLEAN  BY <2>1, Zenon
    <2>5. QED  BY <2>3, <2>4 DEF DriversMove
  <1>4. CASE ModelExecutionTimeInitialize(b) \/ UNCHANGED drivers
        BY <1>1, <1>4 DEF ModelExecutionTimeInitialize, DriversMove, drivers
  <1>5. QED  BY <1>2, <1>3, <1>4 DEF mdlStart

LEMMA OutputsMove ==
    ASSUME Phases, NEW b \in Block, mdlOutputs(b)
    PROVE  DriversMove
  <1>1. faults \in 0..MaxFaults /\ terminationRequested \in BOOLEAN  BY DEF Phases
  <1>2. CASE DataRecorderStep(b) \/ ModelExecutionTimeStep(b)
        BY <1>1, <1>2 DEF DataRecorderStep, ModelExecutionTimeStep, Write, DriversMove
  <1>3. ASSUME NEW stop \in BOOLEAN, StopExecutionStep(b, stop)  PROVE DriversMove
    <2>1. faults' = faults
          /\ terminationRequested' = (terminationRequested \/ (~Simulated /\ stop))
          BY <1>3 DEF StopExecutionStep
    <2>2. terminationRequested' \in BOOLEAN  BY <2>1, Zenon
    <2>3. QED  BY <1>1, <2>1, <2>2 DEF DriversMove
  <1>4. QED  BY <1>2, <1>3 DEF mdlOutputs

LEMMA TerminateMoves ==
    ASSUME Phases, NEW b \in Block, mdlTerminate(b)
    PROVE  DriversMove
  BY DEF mdlTerminate, DataRecorderTerminate, ClearAllDataRecorders, SocketTerminate,
         drivers, DriversMove, Phases

LEMMA PhasesInit == Init => Phases
  <1> SUFFICES ASSUME Init PROVE Phases  OBVIOUS
  <1>1. model \in DOMAIN Models  BY DEF Init
  <1>2. 1 \in Block  BY <1>1, BlockFacts
  <1>3. 0 \in 0..MaxRuns /\ 0 \in 0..MaxFaults /\ 0 \in 0..MaxTime
        BY ManagerConstants, BlockConstants
  <1>4. FALSE \in BOOLEAN  OBVIOUS
  <1>5. QED  BY <1>2, <1>3, <1>4 DEF Init, ManagerInit, Phases

LEMMA PhasesStep ==
    ASSUME Phases, [Next]_vars
    PROVE  Phases'
  <1>1. Len(Models[model]) \in Nat \ {0} /\ Block = 1..Len(Models[model]) /\ 1 \in Block
        BY BlockFacts DEF Phases
  <1>2. MaxRuns \in Nat /\ MaxTime \in Nat  BY ManagerConstants, BlockConstants
  <1>3. ASSUME Advance("running") \/ Advance("design"), phase \in {"starting", "terminating"}
        PROVE  /\ next' \in Block
               /\ phase' = phase \/ next' = 1
               /\ phase' \in {"design", "starting", "running", "terminating"}
        BY <1>1, <1>3 DEF Advance, Phases
  <1>4. CASE UNCHANGED <<build, model, phase, next, run, faults, terminationRequested, now>>
             /\ error' \in BOOLEAN
        BY <1>4 DEF Phases, Block
  <1>5. ASSUME NEW connected \in Connected, Compile(connected)  PROVE Phases'
    <2>1. /\ UNCHANGED <<build, model, error, faults, now>> /\ run < MaxRuns
          /\ phase' = "starting" /\ next' = 1 /\ run' = run + 1
          /\ terminationRequested' = FALSE
          BY <1>5 DEF Compile
    <2>2. run' \in 0..MaxRuns /\ run' > 0  BY <1>2, <2>1 DEF Phases
    <2>3. QED  BY <1>1, <2>1, <2>2 DEF Phases, Block
  <1>6. CASE Start
    <2>1. DriversMove  BY <1>6, StartMoves DEF Start, Phases
    <2>2. /\ UNCHANGED <<build, model, error, run, now>> /\ phase = "starting"
          /\ Advance("running")
          BY <1>6 DEF Start
    <2>3. /\ next' \in Block /\ (phase' = phase \/ next' = 1)
          /\ phase' \in {"design", "starting", "running", "terminating"}
          BY <1>3, <2>2
    <2>4. QED  BY <2>1, <2>2, <2>3 DEF Phases, Block, DriversMove
  <1>7. ASSUME NEW b \in Block, Step(b)  PROVE Phases'
    <2>1. DriversMove  BY <1>7, OutputsMove DEF Step
    <2>2. UNCHANGED <<build, model, error, phase, next, run, now>>  BY <1>7 DEF Step
    <2>3. QED  BY <2>1, <2>2 DEF Phases, Block, DriversMove
  <1>8. CASE End
        BY <1>8 DEF End, Phases, Block, drivers
  <1>9. CASE Terminate
    <2>1. DriversMove  BY <1>9, TerminateMoves DEF Terminate, Phases
    <2>2. /\ UNCHANGED <<build, model, error, run, now>> /\ phase = "terminating"
          /\ Advance("design")
          BY <1>9 DEF Terminate
    <2>3. /\ next' \in Block /\ (phase' = phase \/ next' = 1)
          /\ phase' \in {"design", "starting", "running", "terminating"}
          BY <1>3, <2>2
    <2>4. QED  BY <2>1, <2>2, <2>3 DEF Phases, Block, DriversMove
  <1>10. CASE Tick
    <2>1. now' \in 0..MaxTime  BY <1>2, <1>10 DEF Tick, Phases
    <2>2. QED  BY <1>10, <2>1 DEF Tick, Phases, Block, drivers
  <1>11. ASSUME NEW b \in Block, NEW d, Edit(b, d) \/ Tune(b, d) \/ CompileFails
         PROVE  Phases'
    <2>1. UNCHANGED <<build, model, phase, next, run, faults, terminationRequested, now>>
          BY <1>11 DEF Edit, Tune, CompileFails, drivers
    <2>2. error' \in BOOLEAN  BY <1>11 DEF Edit, Tune, CompileFails, Phases
    <2>3. QED  BY <1>4, <2>1, <2>2
  <1>12. CASE UNCHANGED vars  BY <1>4, <1>12 DEF vars, drivers, Phases
  <1>13. QED  BY <1>1, <1>5, <1>6, <1>7, <1>8, <1>9, <1>10, <1>11, <1>12 DEF Next

-----------------------------------------------------------------------------
(* The services                                                            *)

LEMMA ServicesInit == Init => ServicesInv
  BY DEF Init, ServicesInv

\* Steps that leave the services and the pending blocks.
LEMMA ServicesFrame ==
    ASSUME ServicesInv, UNCHANGED <<model, services>>,
           \A b \in Block : Type(b) \in SocketTypes /\ Pending(b) => Pending(b)'
    PROVE  ServicesInv'
  BY DEF ServicesInv, Block, Type

LEMMA ServicesStep ==
    ASSUME Phases, ServicesInv, [Next]_vars
    PROVE  ServicesInv'
  <1>1. Len(Models[model]) \in Nat \ {0} /\ Block = 1..Len(Models[model]) /\ next \in Block
        BY BlockFacts DEF Phases
  <1>2. CASE UNCHANGED <<model, services, phase, next>>
        BY <1>2, ServicesFrame DEF Pending
  <1>3. ASSUME NEW connected \in Connected, Compile(connected)  PROVE ServicesInv'
        BY <1>3, ServicesFrame DEF Compile, Pending
  <1>4. CASE Start
    <2>1. UNCHANGED model /\ phase = "starting" /\ mdlStart(next)
          /\ \A b \in Block : Pending(b)'
          BY <1>4 DEF Start, Advance, Pending
    <2>2. UNCHANGED services
          \/ /\ Type(next) \in SocketTypes
             /\ \E list : services' = [services EXCEPT ![Type(next)] = list]
      <3>1. CASE SocketInitialize(next)
        <4>1. PICK success \in BOOLEAN : AddService(next, success)
              BY <3>1 DEF SocketInitialize
        <4>2. UNCHANGED services
              \/ \E list : services' = [services EXCEPT ![Type(next)] = list]
              BY <4>1 DEF AddService
        <4>3. QED  BY <3>1, <4>2 DEF SocketInitialize
      <3>2. CASE ~SocketInitialize(next)
            BY <2>1, <3>2
            DEF mdlStart, DataRecorderInitialize, ModelExecutionTimeInitialize, drivers
      <3>3. QED  BY <3>1, <3>2
    <2>3. CASE UNCHANGED services  BY <2>1, <2>3, ServicesFrame
    <2>4. CASE Type(next) \in SocketTypes
               /\ \E list : services' = [services EXCEPT ![Type(next)] = list]
      <3>1. PICK list : services' = [services EXCEPT ![Type(next)] = list]  BY <2>4
      <3>2. services' = [t \in SocketTypes |-> services'[t]]
            /\ \A t \in SocketTypes : t # Type(next) => services'[t] = services[t]
            BY <3>1 DEF ServicesInv
      <3>3. ASSUME NEW t \in SocketTypes, services'[t] # <<>>
            PROVE  \E b \in Block : Type(b) = t
            BY <1>1, <3>2, <3>3 DEF ServicesInv
      <3>4. QED  BY <2>1, <3>2, <3>3 DEF ServicesInv, Block, Type
    <2>5. QED  BY <2>2, <2>3, <2>4
  <1>5. ASSUME NEW b \in Block, Step(b)  PROVE ServicesInv'
    <2>1. UNCHANGED <<model, services, phase, next>>
          BY <1>5 DEF Step, mdlOutputs, DataRecorderStep, ModelExecutionTimeStep,
                      StopExecutionStep
    <2>2. QED  BY <1>2, <2>1
  <1>6. CASE End
    <2>1. UNCHANGED <<model, services>> /\ phase' = "terminating" /\ next' = 1
          BY <1>6 DEF End, drivers, Phases
    <2>2. \A b \in Block : Pending(b)'  BY <1>1, <2>1 DEF Pending
    <2>3. QED  BY <2>1, <2>2, ServicesFrame
  <1>7. CASE Terminate
    <2>1. UNCHANGED model /\ phase = "terminating" /\ mdlTerminate(next)
          /\ Advance("design")
          BY <1>7 DEF Terminate
    <2>2. ASSUME NEW b \in Block, Pending(b), b # next  PROVE Pending(b)'
          BY <1>1, <2>1, <2>2 DEF Pending, Advance
    <2>3. CASE Type(next) \in SocketTypes
      <3>1. services' = [services EXCEPT ![Type(next)] = <<>>]
            BY <2>1, <2>3
            DEF mdlTerminate, DataRecorderTerminate, SocketTerminate, Stateless, SocketTypes
      <3>2. /\ services' = [t \in SocketTypes |-> services'[t]]
            /\ \A t \in SocketTypes :
                services'[t] # <<>> => t # Type(next) /\ services[t] # <<>>
            BY <2>3, <3>1 DEF ServicesInv
      <3>3. ASSUME NEW t \in SocketTypes, services'[t] # <<>>
            PROVE  \E b \in Block : Type(b) = t /\ Pending(b)'
        <4>1. PICK b \in Block : Type(b) = t /\ Pending(b)
              BY <3>2, <3>3 DEF ServicesInv
        <4>2. b # next  BY <3>2, <3>3, <4>1
        <4>3. QED  BY <2>2, <4>1, <4>2
      <3>4. QED  BY <2>1, <3>2, <3>3 DEF ServicesInv, Block, Type
    <2>4. CASE Type(next) \notin SocketTypes
      <3>1. UNCHANGED services
            BY <2>1, <2>4 DEF mdlTerminate, DataRecorderTerminate, SocketTerminate, drivers
      <3>2. \A b \in Block : Type(b) \in SocketTypes /\ Pending(b) => Pending(b)'
            BY <2>2, <2>4
      <3>3. QED  BY <2>1, <3>1, <3>2, ServicesFrame
    <2>5. QED  BY <2>3, <2>4
  <1>8. CASE Tick \/ CompileFails \/ UNCHANGED vars
        BY <1>2, <1>8 DEF Tick, CompileFails, vars, drivers
  <1>9. ASSUME NEW b \in Block, NEW d, Edit(b, d) \/ Tune(b, d)
        PROVE  ServicesInv'
        BY <1>2, <1>9 DEF Edit, Tune, drivers
  <1>10. QED  BY <1>3, <1>4, <1>5, <1>6, <1>7, <1>8, <1>9 DEF Next

-----------------------------------------------------------------------------
(* The recorders                                                           *)

LEMMA SequenceOfItself ==
    ASSUME NEW S, NEW s \in Seq(S)
    PROVE  s \in Seq(ToSet(s)) /\ ToSet(s) \subseteq S
  <1>1. s = [i \in 1..Len(s) |-> s[i]] /\ Len(s) \in Nat /\ DOMAIN s = 1..Len(s)
        OBVIOUS
  <1>2. \A i \in 1..Len(s) : s[i] \in ToSet(s) /\ s[i] \in S  BY <1>1 DEF ToSet
  <1> DEFINE T == ToSet(s)
  <1> HIDE DEF T
  <1>3. \A i \in 1..Len(s) : s[i] \in T  BY <1>2 DEF T
  <1>4. s \in Seq(T)  BY <1>1, <1>3
  <1>5. QED  BY <1>1, <1>2, <1>4 DEF T, ToSet

\* What Write changes of the list: the sources of one recorder.
LEMMA WriteChanges ==
    ASSUME RecordersInv, NEW id, NEW size, NEW b, Write(id, size, b)
    PROVE  /\ m_dataRecorders' \in Seq(ToSet(m_dataRecorders'))
           /\ Len(m_dataRecorders') = Len(m_dataRecorders)
           /\ \A k \in 1..Len(m_dataRecorders) :
                LET r == m_dataRecorders[k]
                    q == m_dataRecorders'[k]
                IN  /\ IsRecorder(q)
                    /\ q.id = r.id /\ q.type = r.type /\ q.size = r.size
                    /\ q.started = r.started
                    /\ q.sources = r.sources
                       \/ (k = Find(id) /\ q.sources = r.sources \cup {b})
  <1> DEFINE n == Len(m_dataRecorders)
             q == m_dataRecorders'
             changed(k) == IF k = Find(id) /\ m_dataRecorders[k].size = size
                           THEN [m_dataRecorders[k] EXCEPT !.sources = @ \cup {b}]
                           ELSE m_dataRecorders[k]
  <1>1. m_dataRecorders \in Seq(ToSet(m_dataRecorders))  BY DEF RecordersInv
  <1>2. n \in Nat /\ DOMAIN m_dataRecorders = 1..n
    <2> DEFINE S == ToSet(m_dataRecorders)
    <2> HIDE DEF S
    <2>1. m_dataRecorders \in Seq(S)  BY <1>1 DEF S
    <2>2. QED  BY <2>1
  <1>3. q = [k \in 1..n |-> changed(k)]  BY <1>2 DEF Write
  <1>4. q \in Seq({changed(k) : k \in 1..n}) /\ Len(q) = n
    <2> DEFINE S == {changed(k) : k \in 1..n}
    <2>1. \A k \in 1..n : changed(k) \in S  OBVIOUS
    <2>2. \A k \in 1..n : q[k] \in S  BY <1>3, <2>1
    <2>3. q = [k \in 1..n |-> q[k]]  BY <1>3
    <2> HIDE DEF S, changed
    <2>4. q \in Seq(S) /\ Len(q) = n  BY <1>2, <2>2, <2>3
    <2>5. QED  BY <2>4 DEF S
  <1>5. q \in Seq(ToSet(q))  BY <1>4, SequenceOfItself
  <1>6. ASSUME NEW k \in 1..n
        PROVE  /\ IsRecorder(q[k])
               /\ q[k].id = m_dataRecorders[k].id /\ q[k].type = m_dataRecorders[k].type
               /\ q[k].size = m_dataRecorders[k].size
               /\ q[k].started = m_dataRecorders[k].started
               /\ q[k].sources = m_dataRecorders[k].sources
                  \/ (k = Find(id) /\ q[k].sources = m_dataRecorders[k].sources \cup {b})
    <2>1. IsRecorder(m_dataRecorders[k])  BY <1>2 DEF RecordersInv, ToSet
    <2>2. q[k] = changed(k)  BY <1>3
    <2>3. CASE q[k] = m_dataRecorders[k]  BY <2>1, <2>3
    <2>4. CASE k = Find(id)
               /\ q[k] = [m_dataRecorders[k] EXCEPT !.sources = @ \cup {b}]
          BY <2>1, <2>4 DEF IsRecorder
    <2>5. QED  BY <2>2, <2>3, <2>4
  <1>7. QED  BY <1>4, <1>5, <1>6

\* Steps that leave the recorders, and blocks as they have to be.
LEMMA RecordersFrame ==
    ASSUME RecordersInv, run \in Nat, run' \in Nat, run <= run',
           UNCHANGED <<build, model, managed>>,
           \A b \in Recorders :
                Pending(b) \/ ~RecordsFiles(b) => Pending(b)' \/ ~RecordsFiles(b)'
    PROVE  RecordersInv'
  <1>1. m_pathToDataDirectory \in 0..run'  BY DEF RecordersInv
  <1>2. Recorders' = Recorders  BY DEF Recorders, Block, Type
  <1>3. QED  BY <1>1, <1>2 DEF RecordersInv, managed

LEMMA AppendedList ==
    ASSUME NEW s, s \in Seq(ToSet(s)), NEW x
    PROVE  /\ Append(s, x) \in Seq(ToSet(Append(s, x)))
           /\ ToSet(Append(s, x)) = ToSet(s) \cup {x}
           /\ Len(s) \in Nat /\ DOMAIN s = 1..Len(s)
           /\ Len(Append(s, x)) = Len(s) + 1 /\ DOMAIN Append(s, x) = 1..(Len(s) + 1)
           /\ \A k \in 1..Len(s) : Append(s, x)[k] = s[k]
           /\ Append(s, x)[Len(s) + 1] = x
  <1> DEFINE S == ToSet(s) \cup {x}
             T == ToSet(s)
             t == Append(s, x)
  <1>1. s \in Seq(T) /\ T \subseteq S /\ x \in S  OBVIOUS
  <1> HIDE DEF S, T
  <1>2. s \in Seq(S)  BY <1>1
  <1>3. /\ t \in Seq(S) /\ Len(t) = Len(s) + 1 /\ t[Len(s) + 1] = x
        /\ Len(s) \in Nat /\ DOMAIN s = 1..Len(s) /\ DOMAIN t = 1..(Len(s) + 1)
        /\ \A k \in 1..Len(s) : t[k] = s[k]
        BY <1>1, <1>2
  <1> HIDE DEF t
  <1>4. t \in Seq(ToSet(t))  BY <1>3, SequenceOfItself
  <1>5. ToSet(t) = ToSet(s) \cup {x}
    <2>1. \A k \in 1..(Len(s) + 1) : k \in 1..Len(s) \/ k = Len(s) + 1  BY <1>3
    <2>2. Len(s) + 1 \in 1..(Len(s) + 1) /\ 1..Len(s) \subseteq 1..(Len(s) + 1)  BY <1>3
    <2>3. QED  BY <1>3, <2>1, <2>2 DEF ToSet
  <1>6. QED  BY <1>3, <1>4, <1>5 DEF t

\* What AddDataRecorder does to the list, the files and the index.
LEMMA AddChanges ==
    ASSUME NEW r, NEW id, NEW type, NEW size, NEW may, NEW success \in BOOLEAN,
           faults \in Nat, AddDataRecorder(r, id, type, size, may, success)
    PROVE  /\ SetPathAndTimeIfNotSet(r)
           /\ \/ ~success /\ UNCHANGED <<m_dataRecorders, claimed>>
              \/ /\ ~AlreadyRegistered(id)
                 /\ \E started \in BOOLEAN :
                    Registers(id, type, size, started) /\ (success => started)
           /\ index' = index \/ WriteIndexFile(TRUE)
           /\ success \/ faults' = 0 => WriteIndexFile(TRUE)
  <1>1. CASE MakeDataDirectoryFails(r) /\ ~success
    <2>1. faults' # 0  BY <1>1, FaultsCountOne DEF MakeDataDirectoryFails
    <2>2. QED  BY <1>1, <2>1 DEF MakeDataDirectoryFails
  <1>2. ASSUME NEW written \in BOOLEAN,
               /\ ~success /\ AlreadyRegistered(id)
               /\ SetPathAndTimeIfNotSet(r)
               /\ UNCHANGED <<m_dataRecorders, claimed>>
               /\ WriteIndexFile(written) /\ Faults(<<written>>)
        PROVE  /\ SetPathAndTimeIfNotSet(r)
               /\ ~success /\ UNCHANGED <<m_dataRecorders, claimed>>
               /\ index' = index \/ WriteIndexFile(TRUE)
               /\ faults' = 0 => WriteIndexFile(TRUE)
    <2>1. faults' = 0 => written  BY <1>2, FaultsCountOne
    <2>2. QED  BY <1>2, <2>1 DEF WriteIndexFile
  <1>3. ASSUME NEW started \in BOOLEAN, NEW written \in BOOLEAN,
               /\ ~AlreadyRegistered(id)
               /\ SetPathAndTimeIfNotSet(r)
               /\ Registers(id, type, size, started)
               /\ WriteIndexFile(written) /\ Faults(<<started, written>>)
               /\ success = (started /\ written)
        PROVE  /\ SetPathAndTimeIfNotSet(r)
               /\ ~AlreadyRegistered(id)
               /\ Registers(id, type, size, started) /\ (success => started)
               /\ index' = index \/ WriteIndexFile(TRUE)
               /\ success \/ faults' = 0 => WriteIndexFile(TRUE)
    <2>1. faults' = 0 => written  BY <1>3, FaultsCountTwo
    <2>2. QED  BY <1>3, <2>1 DEF WriteIndexFile
  <1>4. QED  BY <1>1, <1>2, <1>3 DEF AddDataRecorder

LEMMA RecordersInit == Init => RecordersInv
  BY SequenceOfItself DEF Init, ManagerInit, RecordersInv, ToSet

LEMMA RecordersStart ==
    ASSUME Phases, RecordersInv, Start
    PROVE  RecordersInv'
  <1>1. /\ UNCHANGED <<build, model, run, runtime>> /\ phase = "starting"
        /\ mdlStart(next) /\ \A b \in Block : Pending(b)'
        BY DEF Start, Advance, Pending, compiled
  <1>2. run \in Nat /\ run > 0 /\ next \in Block /\ faults \in Nat
        BY <1>1, ManagerConstants DEF Phases
  <1>3. CASE UNCHANGED managed  BY <1>1, <1>2, <1>3, RecordersFrame DEF Recorders
  <1>4. CASE ~UNCHANGED managed
    <2>1. Type(next) = "DataRecorder"
          BY <1>1, <1>4 DEF mdlStart, DataRecorderInitialize, SocketInitialize,
             ModelExecutionTimeInitialize, drivers, managerVars
    <2>2. PICK success \in BOOLEAN :
             AddDataRecorder(run, RecorderId(next), Scalar(next, 1), SampleSize(next),
                             build = "target", success)
          BY <1>1, <1>4 DEF mdlStart, DataRecorderInitialize, SocketInitialize,
             ModelExecutionTimeInitialize, drivers, managerVars
    <2>3. /\ SetPathAndTimeIfNotSet(run)
          /\ \/ UNCHANGED m_dataRecorders
             \/ \E started : Registers(RecorderId(next), Scalar(next, 1),
                                       SampleSize(next), started)
          BY <1>2, <2>2, AddChanges
    <2>4. m_pathToDataDirectory' \in 1..run
          BY <1>2, <2>3 DEF SetPathAndTimeIfNotSet, RecordersInv
    <2>5. next \in Recorders /\ Recorders' = Recorders
          BY <1>1, <1>2, <2>1 DEF Recorders, Block, Type
    <2>6. CASE UNCHANGED m_dataRecorders
          BY <1>1, <2>4, <2>5, <2>6 DEF RecordersInv, Recorders
    <2>7. ASSUME NEW started, Registers(RecorderId(next), Scalar(next, 1),
                                        SampleSize(next), started)
          PROVE  RecordersInv'
      <3> DEFINE r == [id |-> RecorderId(next), type |-> Scalar(next, 1),
                       size |-> SampleSize(next), started |-> started, sources |-> {}]
      <3>1. m_dataRecorders' = Append(m_dataRecorders, r)  BY <2>7 DEF Registers
      <3>2. IsRecorder(r) /\ r.sources \subseteq Recorders  BY DEF IsRecorder
      <3> HIDE DEF r
      <3>3. /\ m_dataRecorders' \in Seq(ToSet(m_dataRecorders'))
            /\ ToSet(m_dataRecorders') = ToSet(m_dataRecorders) \cup {r}
            BY <3>1, AppendedList DEF RecordersInv
      <3>4. \A q \in ToSet(m_dataRecorders') : IsRecorder(q) /\ q.sources \subseteq Recorders
            BY <3>2, <3>3 DEF RecordersInv
      <3>5. QED  BY <1>1, <2>4, <2>5, <3>3, <3>4 DEF RecordersInv, Recorders
    <2>8. QED  BY <2>3, <2>6, <2>7
  <1>5. QED  BY <1>3, <1>4

LEMMA RecordersOutputs ==
    ASSUME Phases, RecordersInv, NEW b \in Block, Step(b)
    PROVE  RecordersInv'
  <1>1. /\ UNCHANGED <<build, model, phase, next, run, runtime>> /\ phase = "running"
        /\ mdlOutputs(b)
        BY DEF Step, compiled
  <1>2. run \in Nat  BY ManagerConstants DEF Phases
  <1>3. CASE UNCHANGED managed  BY <1>1, <1>2, <1>3, RecordersFrame DEF Pending
  <1>4. CASE ~UNCHANGED managed
    <2>1. Type(b) = "DataRecorder" /\ Write(RecorderId(b), SampleSize(b), b)
          BY <1>1, <1>4 DEF mdlOutputs, DataRecorderStep, ModelExecutionTimeStep,
             StopExecutionStep, managerVars
    <2>2. b \in Recorders /\ Recorders' = Recorders
          BY <1>1, <2>1 DEF Recorders, Block, Type
    <2>3. m_pathToDataDirectory' = m_pathToDataDirectory  BY <2>1 DEF Write
    <2> DEFINE s == m_dataRecorders
               n == Len(s)
    <2>4. /\ s' \in Seq(ToSet(s')) /\ Len(s') = n
          /\ \A k \in 1..n :
                /\ IsRecorder(s'[k])
                /\ s'[k].sources = s[k].sources \/ s'[k].sources = s[k].sources \cup {b}
          BY <2>1, WriteChanges
    <2>5. DOMAIN s = 1..n /\ DOMAIN s' = 1..n /\ n \in Nat
      <3> DEFINE S == ToSet(s)
                 T == ToSet(s')
      <3>1. s \in Seq(S) /\ s' \in Seq(T) /\ Len(s') = n  BY <2>4 DEF RecordersInv
      <3> HIDE DEF S, T
      <3>2. QED  BY <3>1
    <2>6. \A r \in ToSet(s') : IsRecorder(r) /\ r.sources \subseteq Recorders
      <3>1. \A k \in 1..n : s[k].sources \subseteq Recorders
            BY <2>5 DEF RecordersInv, ToSet
      <3>2. \A k \in 1..n : s'[k].sources \subseteq Recorders  BY <2>2, <2>4, <3>1
      <3>3. QED  BY <2>4, <2>5, <3>2 DEF ToSet
    <2>7. \A c \in Block : Pending(c)'  BY <1>1 DEF Pending
    <2>8. QED  BY <1>1, <2>2, <2>3, <2>4, <2>6, <2>7 DEF RecordersInv, Recorders
  <1>5. QED  BY <1>3, <1>4

LEMMA RecordersTerminate ==
    ASSUME Phases, RecordersInv, Terminate
    PROVE  RecordersInv'
  <1>1. /\ UNCHANGED <<build, model, run, runtime>> /\ phase = "terminating"
        /\ mdlTerminate(next) /\ Advance("design")
        BY DEF Terminate, compiled
  <1>2. /\ run \in Nat /\ next \in Block
        /\ Block = 1..Len(Models[model]) /\ Len(Models[model]) \in Nat
        BY BlockFacts, ManagerConstants DEF Phases
  <1>3. CASE ClearAllDataRecorders
    <2>1. m_dataRecorders' = <<>> /\ m_pathToDataDirectory' = 0
          BY <1>3 DEF ClearAllDataRecorders
    <2>2. QED  BY <1>1, <1>2, <2>1, SequenceOfItself DEF RecordersInv, ToSet
  <1>4. CASE ~ClearAllDataRecorders
    <2>1. UNCHANGED managed /\ (Type(next) = "DataRecorder" => ~RecordsFiles(next))
          BY <1>1, <1>4 DEF mdlTerminate, DataRecorderTerminate, SocketTerminate, Stateless,
             SocketTypes, drivers, managerVars
    <2>2. ASSUME NEW b \in Block, Pending(b), b # next  PROVE Pending(b)'
          BY <1>1, <1>2, <2>2 DEF Pending, Advance
    <2>3. \A b \in Block : RecordsFiles(b)' = RecordsFiles(b)
          BY <1>1 DEF RecordsFiles, Scalar, Simulated
    <2>4. QED  BY <1>1, <1>2, <2>1, <2>2, <2>3, RecordersFrame DEF Recorders
  <1>5. QED  BY <1>3, <1>4

LEMMA RecordersStep ==
    ASSUME Phases, RecordersInv, [Next]_vars
    PROVE  RecordersInv'
  <1>1. run \in Nat  BY ManagerConstants DEF Phases
  <1>2. CASE UNCHANGED <<build, model, run, phase, next, runtime, managed>>
        BY <1>1, <1>2, RecordersFrame DEF Pending, RecordsFiles, Scalar, Simulated
  <1>3. ASSUME NEW connected \in Connected, Compile(connected)  PROVE RecordersInv'
    <2>1. /\ UNCHANGED <<build, model, managed>> /\ run' = run + 1 /\ phase' = "starting"
          BY <1>3 DEF Compile, managerVars
    <2>2. QED  BY <1>1, <2>1, RecordersFrame DEF Pending
  <1>4. CASE End
    <2>1. /\ UNCHANGED <<build, model, run, managed>>
          /\ phase' = "terminating" /\ next' = 1
          BY <1>4 DEF End, drivers, managerVars, Phases
    <2>2. \A b \in Block : b >= 1  BY BlockFacts DEF Phases
    <2>3. QED  BY <1>1, <2>1, <2>2, RecordersFrame DEF Pending, Recorders
  <1>5. CASE Tick \/ CompileFails \/ UNCHANGED vars
        BY <1>2, <1>5 DEF Tick, CompileFails, vars, drivers, compiled, managerVars
  <1>6. ASSUME NEW b \in Block, NEW d, Edit(b, d)  PROVE RecordersInv'
        BY <1>2, <1>6 DEF Edit, drivers, compiled, managerVars
  <1>7. ASSUME NEW b \in Block, NEW d, Tune(b, d)  PROVE RecordersInv'
    <2>1. /\ UNCHANGED <<build, model, run, phase, managed>> /\ phase = "running"
          BY <1>7 DEF Tune, drivers, managerVars
    <2>2. QED  BY <1>1, <2>1, RecordersFrame DEF Pending
  <1>8. QED
        BY <1>3, <1>4, <1>5, <1>6, <1>7, RecordersStart, RecordersOutputs,
           RecordersTerminate DEF Next

-----------------------------------------------------------------------------
(* The files of a run, and the index that names them                       *)

LEMMA FilesInit == Init => FilesInv
  BY SequenceOfItself DEF Init, ManagerInit, FilesInv, ToSet, IsInjective

\* Steps that leave the files and the IDs of the recorders.
LEMMA FilesFrame ==
    ASSUME FilesInv, run \in Nat, UNCHANGED <<run, claimed, m_pathToDataDirectory>>,
           DOMAIN m_dataRecorders' = DOMAIN m_dataRecorders,
           \A k \in DOMAIN m_dataRecorders :
                m_dataRecorders'[k].id = m_dataRecorders[k].id,
           phase' \in {"starting", "running"} => phase \in {"starting", "running"}
    PROVE  FilesInv'
  BY DEF FilesInv, IsInjective

LEMMA FilesStart ==
    ASSUME Phases, RecordersInv, FilesInv, Start
    PROVE  FilesInv'
  <1>1. /\ UNCHANGED <<build, model, run>> /\ phase = "starting" /\ mdlStart(next)
        /\ phase' \in {"starting", "running"}
        BY DEF Start, Advance
  <1>2. run \in Nat /\ run > 0 /\ faults \in Nat  BY <1>1, ManagerConstants DEF Phases
  <1>3. CASE UNCHANGED <<managed, claimed>>
        BY <1>1, <1>2, <1>3, FilesFrame DEF managed
  <1>4. CASE ~UNCHANGED <<managed, claimed>>
    <2> DEFINE id == RecorderId(next)
    <2>1. PICK success \in BOOLEAN :
             AddDataRecorder(run, id, Scalar(next, 1), SampleSize(next),
                             build = "target", success)
          BY <1>1, <1>4 DEF mdlStart, DataRecorderInitialize, SocketInitialize,
             ModelExecutionTimeInitialize, drivers, managerVars
    <2>2. /\ SetPathAndTimeIfNotSet(run)
          /\ \/ UNCHANGED <<m_dataRecorders, claimed>>
             \/ /\ ~AlreadyRegistered(id)
                /\ \E started \in BOOLEAN :
                    /\ Registers(id, Scalar(next, 1), SampleSize(next), started)
                    /\ success => started
          BY <1>2, <2>1, AddChanges
    <2> DEFINE path == m_pathToDataDirectory'
    <2>3. /\ path \in 1..run
          /\ m_pathToDataDirectory # 0 => path = m_pathToDataDirectory
          /\ m_pathToDataDirectory = 0 => path = run
          BY <1>2, <2>2 DEF SetPathAndTimeIfNotSet, RecordersInv
    <2>4. ASSUME NEW n \in DOMAIN claimed, claimed[n][1] = path
          PROVE  \E k \in DOMAIN m_dataRecorders : m_dataRecorders[k].id = claimed[n][2]
          BY <1>1, <2>3, <2>4 DEF FilesInv
    <2>5. CASE UNCHANGED <<m_dataRecorders, claimed>>
          BY <1>1, <1>2, <2>3, <2>4, <2>5 DEF FilesInv, IsInjective
    <2>6. ASSUME ~AlreadyRegistered(id), NEW started \in BOOLEAN,
                 Registers(id, Scalar(next, 1), SampleSize(next), started)
          PROVE  FilesInv'
      <3> DEFINE r == [id |-> id, type |-> Scalar(next, 1), size |-> SampleSize(next),
                       started |-> started, sources |-> {}]
                 s == m_dataRecorders
                 x == <<path, id>>
      <3>1. /\ s' = Append(s, r)
            /\ claimed' = IF started THEN Append(claimed, x) ELSE claimed
            BY <2>6 DEF Registers
      <3>2. /\ DOMAIN s = 1..Len(s) /\ DOMAIN s' = 1..(Len(s) + 1) /\ Len(s) \in Nat
            /\ \A k \in 1..Len(s) : s'[k] = s[k]
            /\ s'[Len(s) + 1] = r
            BY <3>1, AppendedList DEF RecordersInv
      <3>3. /\ DOMAIN claimed = 1..Len(claimed) /\ Len(claimed) \in Nat
            /\ DOMAIN Append(claimed, x) = 1..(Len(claimed) + 1)
            /\ \A n \in 1..Len(claimed) : Append(claimed, x)[n] = claimed[n]
            /\ Append(claimed, x)[Len(claimed) + 1] = x
            /\ Append(claimed, x) \in Seq(ToSet(Append(claimed, x)))
            BY AppendedList DEF FilesInv
      <3>4. s'[Len(s) + 1].id = id  BY <3>2
      <3> HIDE DEF r, path, id, x
      <3>5. ASSUME NEW n \in DOMAIN claimed
            PROVE  /\ claimed[n] = <<claimed[n][1], claimed[n][2]>>
                   /\ claimed[n][1] \in 1..run
                   /\ claimed[n][1] = path =>
                        \E k \in DOMAIN s' : s'[k].id = claimed[n][2]
        <4>1. claimed[n] = <<claimed[n][1], claimed[n][2]>> /\ claimed[n][1] \in 1..run
              BY DEF FilesInv
        <4>2. ASSUME claimed[n][1] = path
              PROVE  \E k \in DOMAIN s' : s'[k].id = claimed[n][2]
          <5>1. PICK k \in DOMAIN s : s[k].id = claimed[n][2]  BY <2>4, <4>2
          <5>2. k \in DOMAIN s' /\ s'[k] = s[k]  BY <3>2
          <5>3. QED  BY <5>1, <5>2
        <4>3. QED  BY <4>1, <4>2
      <3>6. CASE ~started
        <4>1. claimed' = claimed  BY <3>1, <3>6
        <4>2. QED  BY <1>1, <2>3, <3>5, <4>1 DEF FilesInv, IsInjective, path
      <3>7. CASE started
        <4>1. claimed' = Append(claimed, x)  BY <3>1, <3>7
        <4>2. \A n \in DOMAIN claimed : claimed[n] # x
              BY <2>4, <2>6 DEF x, AlreadyRegistered
        <4>3. IsInjective(claimed')
          <5> SUFFICES ASSUME NEW a \in DOMAIN claimed', NEW b \in DOMAIN claimed',
                              claimed'[a] = claimed'[b]
                       PROVE  a = b
              BY DEF IsInjective
          <5> DEFINE n == Len(claimed) + 1
          <5>1. (a \in DOMAIN claimed \/ a = n) /\ (b \in DOMAIN claimed \/ b = n)
                BY <3>3, <4>1
          <5>2. CASE a \in DOMAIN claimed /\ b \in DOMAIN claimed
                BY <3>3, <4>1, <5>2 DEF FilesInv, IsInjective
          <5>3. CASE a = n /\ b = n  BY <5>3
          <5>4. CASE a \in DOMAIN claimed /\ b = n  BY <3>3, <4>1, <4>2, <5>4
          <5>5. CASE a = n /\ b \in DOMAIN claimed  BY <3>3, <4>1, <4>2, <5>5
          <5>6. QED  BY <5>1, <5>2, <5>3, <5>4, <5>5
        <4>4. ASSUME NEW n \in DOMAIN claimed'
              PROVE  /\ claimed'[n] = <<claimed'[n][1], claimed'[n][2]>>
                     /\ claimed'[n][1] \in 1..run
                     /\ claimed'[n][1] = path =>
                          \E k \in DOMAIN s' : s'[k].id = claimed'[n][2]
          <5>1. CASE n \in DOMAIN claimed
            <6>1. claimed'[n] = claimed[n]  BY <3>3, <4>1, <5>1
            <6>2. QED  BY <3>5, <5>1, <6>1
          <5>2. CASE n = Len(claimed) + 1
            <6>1. claimed'[n] = x  BY <3>3, <4>1, <5>2
            <6>2. Len(s) + 1 \in DOMAIN s'  BY <3>2
            <6>3. QED  BY <2>3, <3>4, <6>1, <6>2 DEF x, path
          <5>3. QED  BY <3>3, <4>1, <5>1, <5>2
        <4>5. claimed' \in Seq(ToSet(claimed'))  BY <3>3, <4>1
        <4>6. path # 0  BY <1>2, <2>3 DEF path
        <4>7. QED  BY <1>1, <4>3, <4>4, <4>5, <4>6 DEF FilesInv, path
      <3>8. QED  BY <3>6, <3>7
    <2>7. QED  BY <2>2, <2>5, <2>6
  <1>5. QED  BY <1>3, <1>4

LEMMA FilesStep ==
    ASSUME Phases, RecordersInv, FilesInv, [Next]_vars
    PROVE  FilesInv'
  <1>1. run \in Nat  BY ManagerConstants DEF Phases
  <1>2. CASE UNCHANGED <<run, phase, managed, claimed>>
        BY <1>1, <1>2, FilesFrame DEF managed
  <1>3. ASSUME NEW connected \in Connected, Compile(connected)  PROVE FilesInv'
    <2>1. UNCHANGED <<managed, claimed>> /\ run' = run + 1
          BY <1>3 DEF Compile, managerVars
    <2>2. \A n \in DOMAIN claimed : claimed[n][1] \in 1..run' /\ claimed[n][1] # run'
          BY <1>1, <2>1 DEF FilesInv
    <2>3. QED  BY <2>1, <2>2 DEF FilesInv, IsInjective, managed
  <1>4. ASSUME NEW b \in Block, Step(b)  PROVE FilesInv'
    <2>1. UNCHANGED <<run, phase, claimed, m_pathToDataDirectory>>
          BY <1>4 DEF Step, mdlOutputs, DataRecorderStep, ModelExecutionTimeStep,
             StopExecutionStep, Write, managerVars, managed
    <2>2. CASE UNCHANGED managed  BY <1>2, <2>1, <2>2
    <2>3. CASE ~UNCHANGED managed
      <3> DEFINE s == m_dataRecorders
                 n == Len(s)
      <3>1. Write(RecorderId(b), SampleSize(b), b)
            BY <1>4, <2>3 DEF Step, mdlOutputs, DataRecorderStep, ModelExecutionTimeStep,
               StopExecutionStep, managerVars
      <3>2. /\ s' \in Seq(ToSet(s')) /\ Len(s') = n
            /\ \A k \in 1..n : s'[k].id = s[k].id
            BY <3>1, WriteChanges
      <3>3. DOMAIN s = 1..n /\ DOMAIN s' = 1..n
        <4> DEFINE S == ToSet(s)
                   T == ToSet(s')
        <4>1. s \in Seq(S) /\ s' \in Seq(T) /\ Len(s') = n  BY <3>2 DEF RecordersInv
        <4> HIDE DEF S, T
        <4>2. QED  BY <4>1
      <3>4. QED  BY <1>1, <2>1, <3>2, <3>3, FilesFrame
    <2>4. QED  BY <2>2, <2>3
  <1>5. CASE Terminate
    <2>1. /\ UNCHANGED <<run, claimed>> /\ phase' \in {"terminating", "design"}
          /\ UNCHANGED managed \/ m_pathToDataDirectory' = 0
          BY <1>5 DEF Terminate, Advance, mdlTerminate, DataRecorderTerminate,
             ClearAllDataRecorders, SocketTerminate, drivers, managerVars
    <2>2. CASE UNCHANGED managed  BY <1>1, <2>1, <2>2, FilesFrame DEF managed
    <2>3. CASE m_pathToDataDirectory' = 0
      <3>1. \A n \in DOMAIN claimed : claimed[n][1] # 0  BY <1>1 DEF FilesInv
      <3>2. QED  BY <2>1, <2>3, <3>1 DEF FilesInv, IsInjective
    <2>4. QED  BY <2>1, <2>2, <2>3
  <1>6. CASE End
        BY <1>1, <1>6, FilesFrame DEF End, drivers, managerVars, managed
  <1>7. CASE Tick \/ CompileFails \/ UNCHANGED vars
        BY <1>2, <1>7 DEF Tick, CompileFails, vars, drivers, managerVars
  <1>8. ASSUME NEW b \in Block, NEW d, Edit(b, d) \/ Tune(b, d)  PROVE FilesInv'
        BY <1>2, <1>8 DEF Edit, Tune, drivers, managerVars
  <1>9. QED  BY <1>3, <1>4, <1>5, <1>6, <1>7, <1>8, FilesStart DEF Next

LEMMA IndexInit == Init => IndexInv
  BY DEF Init, ManagerInit, IndexInv

\* Steps that leave the index and the IDs, and do not withdraw a failure.
LEMMA IndexFrame ==
    ASSUME IndexInv, UNCHANGED <<build, index, m_pathToDataDirectory>>,
           Ids(m_dataRecorders') = Ids(m_dataRecorders),
           m_dataRecorders' # <<>> => m_dataRecorders # <<>>,
           faults' = 0 => faults = 0, terminationRequested => terminationRequested'
    PROVE  IndexInv'
  <1>1. Ids(m_dataRecorders)' = Ids(m_dataRecorders)  BY DEF Ids
  <1>2. Simulated' = Simulated  BY DEF Simulated
  <1>3. QED  BY <1>1, <1>2 DEF IndexInv

LEMMA IndexStart ==
    ASSUME Phases, RecordersInv, IndexInv, Start
    PROVE  IndexInv'
  <1>1. UNCHANGED build /\ mdlStart(next) /\ phase = "starting"  BY DEF Start
  <1>2. run \in 1..MaxRuns /\ faults \in 0..MaxFaults /\ faults \in Nat
        /\ terminationRequested \in BOOLEAN
        BY <1>1, ManagerConstants DEF Phases
  <1>3. CASE UNCHANGED <<managed, index>>
    <2>1. (faults' = 0 => faults = 0) /\ (terminationRequested => terminationRequested')
      <3>1. CASE DataRecorderInitialize(next)
        <4>1. CASE ~RecordsFiles(next)  BY <3>1, <4>1 DEF DataRecorderInitialize
        <4>2. CASE RecordsFiles(next)
          <5>1. PICK success \in BOOLEAN :
                  /\ AddDataRecorder(run, RecorderId(next), Scalar(next, 1),
                                     SampleSize(next), build = "target", success)
                  /\ terminationRequested' =
                        (terminationRequested \/ (~Simulated /\ ~success))
                BY <3>1, <4>2 DEF DataRecorderInitialize
          <5>2. faults' = 0 => faults = 0
            <6>1. \/ Faults(<<FALSE>>)
                  \/ \E written \in BOOLEAN : Faults(<<written>>)
                  \/ \E started, written \in BOOLEAN : Faults(<<started, written>>)
                  BY <5>1 DEF AddDataRecorder, MakeDataDirectoryFails
            <6>2. QED  BY <1>2, <6>1, FaultsCountOne, FaultsCountTwo
          <5>3. QED  BY <5>1, <5>2
        <4>3. QED  BY <4>1, <4>2
      <3>2. CASE SocketInitialize(next)
        <4>1. PICK success \in BOOLEAN :
                /\ AddService(next, success)
                /\ terminationRequested' =
                    (terminationRequested \/ (build = "target" /\ ~success))
              BY <3>2 DEF SocketInitialize
        <4>2. UNCHANGED faults \/ Faults(<<success>>)  BY <4>1 DEF AddService
        <4>3. QED  BY <1>2, <4>1, <4>2, FaultsCountOne
      <3>3. CASE ModelExecutionTimeInitialize(next) \/ UNCHANGED drivers
            BY <3>3 DEF ModelExecutionTimeInitialize, drivers
      <3>4. QED  BY <1>1, <3>1, <3>2, <3>3 DEF mdlStart
    <2>2. QED  BY <1>1, <1>3, <2>1, IndexFrame DEF managed
  <1>4. CASE ~UNCHANGED <<managed, index>>
    <2>1. PICK success \in BOOLEAN :
            /\ AddDataRecorder(run, RecorderId(next), Scalar(next, 1), SampleSize(next),
                               build = "target", success)
            /\ terminationRequested' = (terminationRequested \/ (~Simulated /\ ~success))
          BY <1>1, <1>4 DEF mdlStart, DataRecorderInitialize, SocketInitialize,
             ModelExecutionTimeInitialize, drivers, managerVars
    <2>2. /\ SetPathAndTimeIfNotSet(run)
          /\ index' = index \/ WriteIndexFile(TRUE)
          /\ success \/ faults' = 0 => WriteIndexFile(TRUE)
          BY <1>2, <2>1, AddChanges
    <2>3. m_pathToDataDirectory' \in 1..MaxRuns
          BY <1>2, <2>2, ManagerConstants DEF SetPathAndTimeIfNotSet, RecordersInv
    <2>4. index' = [d \in 1..MaxRuns |-> index'[d]]
          BY <2>2 DEF WriteIndexFile, IndexInv
    <2>5. ASSUME IF Simulated THEN faults' = 0 ELSE ~terminationRequested'
          PROVE  index'[m_pathToDataDirectory'] = Ids(m_dataRecorders')
      <3>1. success \/ faults' = 0  BY <2>1, <2>5
      <3>2. WriteIndexFile(TRUE)  BY <2>2, <3>1
      <3>3. QED  BY <2>3, <3>2 DEF WriteIndexFile, IndexInv
    <2>6. Simulated' = Simulated /\ Ids(m_dataRecorders)' = Ids(m_dataRecorders')
          BY <1>1 DEF Simulated, Ids
    <2>7. QED  BY <2>4, <2>5, <2>6 DEF IndexInv
  <1>5. QED  BY <1>3, <1>4

LEMMA IndexStep ==
    ASSUME Phases, RecordersInv, IndexInv, [Next]_vars
    PROVE  IndexInv'
  <1>1. CASE UNCHANGED <<build, managed, index, faults, terminationRequested>>
        BY <1>1, IndexFrame DEF managed
  <1>2. ASSUME NEW connected \in Connected, Compile(connected)  PROVE IndexInv'
    <2>1. UNCHANGED <<build, managed, index, faults>> /\ phase = "design"
          BY <1>2 DEF Compile, managerVars
    <2>2. ~Simulated => m_dataRecorders = <<>>
          BY <2>1 DEF RecordersInv, Pending, RecordsFiles
    <2>3. Simulated' = Simulated /\ Ids(m_dataRecorders)' = Ids(m_dataRecorders)
          BY <2>1 DEF Simulated, managed, Ids
    <2>4. QED  BY <2>1, <2>2, <2>3 DEF IndexInv, managed
  <1>3. ASSUME NEW b \in Block, Step(b)  PROVE IndexInv'
    <2>1. UNCHANGED <<build, index, m_pathToDataDirectory, faults>>
          BY <1>3 DEF Step, mdlOutputs, DataRecorderStep, ModelExecutionTimeStep,
             StopExecutionStep, Write, managerVars, managed
    <2>2. terminationRequested => terminationRequested'
          BY <1>3 DEF Step, mdlOutputs, DataRecorderStep, ModelExecutionTimeStep,
             StopExecutionStep
    <2>3. CASE UNCHANGED m_dataRecorders  BY <2>1, <2>2, <2>3, IndexFrame
    <2>4. CASE ~UNCHANGED m_dataRecorders
      <3> DEFINE s == m_dataRecorders
                 n == Len(s)
      <3>1. Write(RecorderId(b), SampleSize(b), b)
            BY <1>3, <2>4 DEF Step, mdlOutputs, DataRecorderStep, ModelExecutionTimeStep,
               StopExecutionStep, managerVars, managed
      <3>2. /\ s' \in Seq(ToSet(s')) /\ Len(s') = n
            /\ \A k \in 1..n : s'[k].id = s[k].id
            BY <3>1, WriteChanges
      <3>3. DOMAIN s = 1..n /\ DOMAIN s' = 1..n /\ (s' # <<>> => s # <<>>)
        <4> DEFINE S == ToSet(s)
                   T == ToSet(s')
        <4>1. s \in Seq(S) /\ s' \in Seq(T) /\ Len(s') = n  BY <3>2 DEF RecordersInv
        <4> HIDE DEF S, T
        <4>2. QED  BY <4>1
      <3>4. Ids(s') = Ids(s)  BY <3>2, <3>3 DEF Ids
      <3>5. QED  BY <2>1, <2>2, <3>3, <3>4, IndexFrame
    <2>5. QED  BY <2>3, <2>4
  <1>4. CASE Terminate
    <2>1. /\ UNCHANGED <<build, index, faults, terminationRequested>>
          /\ UNCHANGED managed \/ m_dataRecorders' = <<>>
          BY <1>4 DEF Terminate, mdlTerminate, DataRecorderTerminate,
             ClearAllDataRecorders, SocketTerminate, drivers, managerVars
    <2>2. CASE UNCHANGED managed  BY <1>1, <2>1, <2>2
    <2>3. CASE m_dataRecorders' = <<>>  BY <2>1, <2>3 DEF IndexInv
    <2>4. QED  BY <2>1, <2>2, <2>3
  <1>5. CASE End \/ Tick \/ CompileFails \/ UNCHANGED vars
        BY <1>1, <1>5 DEF End, Tick, CompileFails, vars, drivers, managerVars
  <1>6. ASSUME NEW b \in Block, NEW d, Edit(b, d) \/ Tune(b, d)  PROVE IndexInv'
        BY <1>1, <1>6 DEF Edit, Tune, drivers, managerVars
  <1>7. QED  BY <1>2, <1>3, <1>4, <1>5, <1>6, IndexStart DEF Next

-----------------------------------------------------------------------------
(* The time                                                                *)

LEMMA TimeInit == Init => TimeInv
  <1> SUFFICES ASSUME Init PROVE TimeInv  OBVIOUS
  <1>1. /\ time_point_set = FALSE /\ time_point_of_start = 0 /\ times = {} /\ now = 0
        /\ phase = "design"
        BY DEF Init
  <1>2. 0 \in 0..now  BY <1>1
  <1>3. QED  BY <1>1, <1>2 DEF TimeInv

\* Steps that leave the clock, and start no block that would reset it.
LEMMA TimeFrame ==
    ASSUME TimeInv, now \in Nat, UNCHANGED <<build, model, now, clocks>>,
           phase' = "starting" => phase = "starting",
           \A b \in Block : Type(b) = "ModelExecutionTime" /\ Started(b)' => Started(b)
    PROVE  TimeInv'
  <1>1. Simulated' = Simulated /\ Block' = Block /\ \A b \in Block : Type(b)' = Type(b)
        BY DEF Simulated, Block, Type
  <1>2. QED  BY <1>1 DEF TimeInv, clocks

LEMMA TimeStart ==
    ASSUME Phases, TimeInv, Start
    PROVE  TimeInv'
  <1>1. /\ UNCHANGED <<build, model, now>> /\ phase = "starting" /\ times = {}
        /\ mdlStart(next) /\ Advance("running")
        BY DEF Start, TimeInv
  <1>2. /\ now \in Nat /\ next \in Block
        /\ Block = 1..Len(Models[model]) /\ Len(Models[model]) \in Nat
        BY BlockFacts, BlockConstants DEF Phases
  <1>3. \A b \in Block : Started(b)' => Started(b) \/ b = next
        BY <1>1, <1>2 DEF Started, Advance
  <1>4. phase' = "starting" => phase = "starting"  BY <1>1
  <1>5. CASE UNCHANGED clocks /\ Type(next) # "ModelExecutionTime"
        BY <1>1, <1>2, <1>3, <1>4, <1>5, TimeFrame
  <1>6. CASE ModelExecutionTimeInitialize(next)
    <2>1. CASE Simulated
      <3>1. time_point_set' = FALSE /\ time_point_of_start' = now /\ times' = {}
            BY <1>1, <1>6, <2>1 DEF ModelExecutionTimeInitialize
      <3>2. time_point_of_start' \in 0..now  BY <1>2, <3>1
      <3>3. QED  BY <1>1, <3>1, <3>2 DEF TimeInv
    <2>2. CASE ~Simulated
      <3>1. UNCHANGED clocks /\ ~Simulated'
            BY <1>1, <1>6, <2>2 DEF ModelExecutionTimeInitialize, clocks, Simulated
      <3>2. QED  BY <1>1, <1>2, <1>4, <3>1 DEF TimeInv, clocks
    <2>3. QED  BY <2>1, <2>2
  <1>7. QED
        BY <1>1, <1>5, <1>6 DEF mdlStart, DataRecorderInitialize, SocketInitialize,
           SocketTypes, Stateless, drivers

LEMMA TimeOutputs ==
    ASSUME Phases, TimeInv, NEW b \in Block, Step(b)
    PROVE  TimeInv'
  <1>1. UNCHANGED <<build, model, phase, next, now>> /\ phase = "running" /\ mdlOutputs(b)
        BY DEF Step
  <1>2. now \in Nat  BY BlockConstants DEF Phases
  <1>3. CASE UNCHANGED clocks  BY <1>1, <1>2, <1>3, TimeFrame DEF Started
  <1>4. CASE ModelExecutionTimeStep(b)
    <2> DEFINE s == time_point_of_start'
    <2>1. /\ Type(b) = "ModelExecutionTime" /\ Simulated /\ time_point_set' = TRUE
          /\ s = IF time_point_set THEN time_point_of_start ELSE now
          /\ times' = times \cup {<<now, now - s>>}
          BY <1>4 DEF ModelExecutionTimeStep
    <2>2. s \in 0..now  BY <1>2, <2>1 DEF TimeInv
    <2>3. times # {} => time_point_set  BY DEF TimeInv
    <2>4. time_point_set => times # {}
          BY <1>1, <2>1 DEF TimeInv, Started
    <2>5. ASSUME NEW x \in times'  PROVE \E t \in s..now : x = <<t, t - s>>
      <3>1. CASE x \in times  BY <2>1, <2>3, <3>1 DEF TimeInv
      <3>2. CASE x = <<now, now - s>>
        <4>1. now \in s..now  BY <1>2, <2>2
        <4>2. QED  BY <3>2, <4>1
      <3>3. QED  BY <2>1, <3>1, <3>2
    <2>6. <<s, 0>> \in times'
      <3>1. CASE time_point_set  BY <2>1, <2>4, <3>1 DEF TimeInv
      <3>2. CASE ~time_point_set
        <4>1. s = now /\ now - s = 0  BY <1>2, <2>1, <3>2
        <4>2. QED  BY <2>1, <4>1
      <3>3. QED  BY <3>1, <3>2
    <2>7. QED  BY <1>1, <2>1, <2>2, <2>5, <2>6 DEF TimeInv
  <1>5. QED
        BY <1>1, <1>3, <1>4 DEF mdlOutputs, DataRecorderStep, StopExecutionStep

LEMMA TimeStep ==
    ASSUME Phases, TimeInv, [Next]_vars
    PROVE  TimeInv'
  <1>1. now \in Nat  BY BlockConstants DEF Phases
  <1>2. CASE UNCHANGED <<build, model, phase, next, now, clocks>>
        BY <1>1, <1>2, TimeFrame DEF Started
  <1>3. ASSUME NEW connected \in Connected, Compile(connected)  PROVE TimeInv'
    <2>1. /\ UNCHANGED <<build, model, now, time_point_set, time_point_of_start>>
          /\ phase' = "starting" /\ next' = 1 /\ times' = {}
          BY <1>3 DEF Compile
    <2>2. \A b \in Block : ~Started(b)'
          BY <2>1, BlockFacts DEF Started, Phases
    <2>3. Block' = Block  BY <2>1 DEF Block
    <2>4. QED  BY <2>1, <2>2, <2>3 DEF TimeInv
  <1>4. CASE End
        BY <1>1, <1>4, TimeFrame DEF End, drivers, Started
  <1>5. CASE Terminate
    <2>1. /\ UNCHANGED <<build, model, now, clocks>>
          /\ phase' \in {"terminating", "design"}
          BY <1>5 DEF Terminate, Advance, mdlTerminate, DataRecorderTerminate,
             SocketTerminate, drivers
    <2>2. QED  BY <1>1, <2>1, TimeFrame DEF Started
  <1>6. CASE Tick
    <2>1. UNCHANGED <<build, model, phase, next, clocks>> /\ now' = now + 1
          BY <1>6 DEF Tick, drivers
    <2>2. time_point_of_start \in 0..now /\ 0..now \subseteq 0..now'
          /\ time_point_of_start..now \subseteq time_point_of_start..now'
          BY <1>1, <2>1 DEF TimeInv
    <2>3. Block' = Block /\ Simulated' = Simulated
          /\ \A b \in Block : Type(b)' = Type(b) /\ Started(b)' = Started(b)
          BY <2>1 DEF Block, Simulated, Type, Started
    <2>4. \A x \in times : \E t \in time_point_of_start..now' :
                x = <<t, t - time_point_of_start>>
          BY <2>2 DEF TimeInv
    <2>5. time_point_of_start \in 0..now'  BY <2>2
    <2>6. QED  BY <2>1, <2>3, <2>4, <2>5 DEF TimeInv, clocks
  <1>7. CASE CompileFails \/ UNCHANGED vars
        BY <1>2, <1>7 DEF CompileFails, vars, drivers
  <1>8. ASSUME NEW b \in Block, NEW d, Edit(b, d) \/ Tune(b, d)  PROVE TimeInv'
        BY <1>2, <1>8 DEF Edit, Tune, drivers
  <1>9. QED  BY <1>3, <1>4, <1>5, <1>6, <1>7, <1>8, TimeStart, TimeOutputs DEF Next

-----------------------------------------------------------------------------
(* What blocks ask for                                                     *)

LEMMA LeastNumber ==
    ASSUME NEW T \in SUBSET Nat, T # {}
    PROVE  \E x \in T : \A y \in T : x <= y
  <1> DEFINE R == OpToRel(<, Nat)
  <1>1. IsWellFoundedOn(R, Nat)  BY NatLessThanWellFounded
  <1>2. \A x \in Nat, y \in Nat : <<y, x>> \in R <=> y < x
        BY DEF OpToRel
  <1> HIDE DEF R
  <1>3. PICK x \in T : \A y \in T : ~(<<y, x>> \in R)
        BY <1>1, WFMin
  <1>4. ASSUME NEW y \in T PROVE x <= y
    <2>1. x \in Nat /\ y \in Nat  OBVIOUS
    <2>2. ~(y < x)  BY <1>2, <1>3, <2>1
    <2>3. QED  BY <2>1, <2>2
  <1>5. QED  BY <1>4

\* The first entry of a list with this ID, or 0.
FirstWith(list, id) == SelectInSeq(list, LAMBDA r : r.id = id)

LEMMA FirstIsFirst ==
    ASSUME NEW list, NEW id, NEW n \in Nat, Len(list) = n
    PROVE  /\ FirstWith(list, id) \in 0..n
           /\ FirstWith(list, id) = 0 => \A k \in 1..n : list[k].id # id
           /\ FirstWith(list, id) # 0 =>
                /\ list[FirstWith(list, id)].id = id
                /\ \A k \in 1..n : list[k].id = id => FirstWith(list, id) <= k
  <1> DEFINE T == {k \in 1..n : list[k].id = id}
             f == FirstWith(list, id)
  <1>1. f = IF T # {} THEN Min(T) ELSE 0  BY DEF FirstWith, SelectInSeq
  <1>2. CASE T = {}  BY <1>1, <1>2
  <1>3. CASE T # {}
    <2>1. T \in SUBSET Nat  OBVIOUS
    <2>2. \E x \in T : \A y \in T : x <= y  BY <1>3, <2>1, LeastNumber
    <2>3. f \in T /\ \A y \in T : f <= y  BY <1>1, <1>3, <2>2 DEF Min
    <2>4. QED  BY <2>3
  <1>4. QED  BY <1>2, <1>3

\* An entry found and no entry before it is the first one.
LEMMA FirstIsUnique ==
    ASSUME NEW list, NEW id, NEW n \in Nat, Len(list) = n,
           NEW k \in 1..n, list[k].id = id, \A j \in 1..n : j < k => list[j].id # id
    PROVE  FirstWith(list, id) = k
  <1> DEFINE f == FirstWith(list, id)
  <1>1. f \in 0..n /\ (f = 0 => \A j \in 1..n : list[j].id # id)
        /\ (f # 0 => list[f].id = id /\ \A j \in 1..n : list[j].id = id => f <= j)
        BY FirstIsFirst
  <1> HIDE DEF f
  <1>2. f \in 1..n /\ f <= k /\ list[f].id = id  BY <1>1
  <1>3. ~(f < k)  BY <1>2
  <1>4. f = k  BY <1>2, <1>3
  <1>5. QED  BY <1>4 DEF f

\* The same recorder, service or ID after a step that leaves the parameters.
LEMMA FoundAfter ==
    ASSUME UNCHANGED <<build, model, runtime>>, NEW b
    PROVE  /\ Type(b)' = Type(b) /\ RecorderId(b)' = RecorderId(b)
           /\ Scalar(b, 1)' = Scalar(b, 1) /\ SampleSize(b)' = SampleSize(b)
           /\ Configuration(b)' = Configuration(b)
           /\ Find(RecorderId(b)) = FirstWith(m_dataRecorders, RecorderId(b))
           /\ Find(RecorderId(b))' = FirstWith(m_dataRecorders', RecorderId(b))
           /\ FindService(Type(b), Scalar(b, 1)) =
                FirstWith(services[Type(b)], Scalar(b, 1))
           /\ FindService(Type(b), Scalar(b, 1))' =
                FirstWith(services'[Type(b)], Scalar(b, 1))
  <1>1. /\ Type(b)' = Type(b) /\ RecorderId(b)' = RecorderId(b)
        /\ Scalar(b, 1)' = Scalar(b, 1) /\ SampleSize(b)' = SampleSize(b)
        BY DEF Type, RecorderId, Parameter, Scalar, SampleSize
  <1>2. Configuration(b)' = Configuration(b)
        BY DEF Configuration, Type, Parameter, Text, Scalar
  <1>3. /\ Find(RecorderId(b)) = FirstWith(m_dataRecorders, RecorderId(b))
        /\ Find(RecorderId(b))' = FirstWith(m_dataRecorders', RecorderId(b))
        BY <1>1 DEF Find, FirstWith, SelectInSeq
  <1>4. /\ FindService(Type(b), Scalar(b, 1)) =
            FirstWith(services[Type(b)], Scalar(b, 1))
        /\ FindService(Type(b), Scalar(b, 1))' =
            FirstWith(services'[Type(b)], Scalar(b, 1))
        BY <1>1 DEF FindService, FirstWith, SelectInSeq
  <1>5. QED  BY <1>1, <1>2, <1>3, <1>4

\* A block keeps its recorder while the list grows and IDs stay.
LEMMA RecorderKept ==
    ASSUME UNCHANGED <<build, model, runtime>>, NEW b, HasItsRecorder(b),
           NEW n \in Nat, Len(m_dataRecorders) = n,
           NEW m \in Nat, Len(m_dataRecorders') = m, n <= m,
           \A k \in 1..n : m_dataRecorders'[k].id = m_dataRecorders[k].id,
           NEW f, f = Find(RecorderId(b)),
           m_dataRecorders'[f].type = m_dataRecorders[f].type,
           m_dataRecorders'[f].size = m_dataRecorders[f].size,
           m_dataRecorders'[f].started = m_dataRecorders[f].started,
           m_dataRecorders'[f].sources \subseteq m_dataRecorders[f].sources \cup {b}
    PROVE  HasItsRecorder(b)'
  <1>1. f = FirstWith(m_dataRecorders, RecorderId(b)) /\ f # 0
        BY FoundAfter DEF HasItsRecorder
  <1>2. /\ f \in 1..n /\ m_dataRecorders[f].id = RecorderId(b)
        /\ \A k \in 1..n : m_dataRecorders[k].id = RecorderId(b) => f <= k
        BY <1>1, FirstIsFirst
  <1>3. /\ f \in 1..m /\ m_dataRecorders'[f].id = RecorderId(b)
        /\ \A k \in 1..m : k < f => m_dataRecorders'[k].id # RecorderId(b)
        BY <1>2
  <1>4. FirstWith(m_dataRecorders', RecorderId(b)) = f  BY <1>3, FirstIsUnique
  <1>5. Find(RecorderId(b))' = f  BY <1>4, FoundAfter
  <1>6. Scalar(b, 1)' = Scalar(b, 1) /\ SampleSize(b)' = SampleSize(b)
        BY FoundAfter
  <1>7. QED  BY <1>1, <1>5, <1>6 DEF HasItsRecorder

LEMMA ServiceKept ==
    ASSUME UNCHANGED <<build, model, runtime>>, NEW b, HasItsService(b),
           NEW n \in Nat, Len(services[Type(b)]) = n,
           NEW m \in Nat, Len(services'[Type(b)]) = m, n <= m,
           \A k \in 1..n : services'[Type(b)][k].id = services[Type(b)][k].id,
           NEW f, f = FindService(Type(b), Scalar(b, 1)),
           services'[Type(b)][f] = services[Type(b)][f]
    PROVE  HasItsService(b)'
  <1> DEFINE s == services[Type(b)]
             t == services'[Type(b)]
             id == Scalar(b, 1)
  <1>1. f = FirstWith(s, id) /\ f # 0
        BY FoundAfter DEF HasItsService
  <1>2. f \in 1..n /\ s[f].id = id /\ \A k \in 1..n : s[k].id = id => f <= k
        BY <1>1, FirstIsFirst
  <1>3. f \in 1..m /\ t[f].id = id /\ \A k \in 1..m : k < f => t[k].id # id
        BY <1>2
  <1> HIDE DEF s, t, id
  <1>4. Len(t) = m  BY DEF t
  <1>5. FirstWith(t, id) = f  BY <1>3, <1>4, FirstIsUnique
  <1>6. FindService(Type(b), Scalar(b, 1))' = f  BY <1>5, FoundAfter DEF t, id
  <1>7. Type(b)' = Type(b) /\ Configuration(b)' = Configuration(b)
        BY FoundAfter
  <1>8. QED  BY <1>1, <1>6, <1>7 DEF HasItsService

LEMMA ReplacedEntry ==
    ASSUME NEW s, s \in Seq(ToSet(s)), NEW k \in 1..Len(s), NEW x
    PROVE  /\ [s EXCEPT ![k] = x] \in Seq(ToSet([s EXCEPT ![k] = x]))
           /\ Len(s) \in Nat /\ DOMAIN s = 1..Len(s)
           /\ Len([s EXCEPT ![k] = x]) = Len(s)
           /\ ToSet([s EXCEPT ![k] = x]) \subseteq ToSet(s) \cup {x}
           /\ \A j \in 1..Len(s) :
                [s EXCEPT ![k] = x][j] = IF j = k THEN x ELSE s[j]
  <1> DEFINE T == ToSet(s)
             S == T \cup {x}
             t == [s EXCEPT ![k] = x]
             n == Len(s)
  <1>1. s \in Seq(T) /\ T \subseteq S /\ x \in S  OBVIOUS
  <1> HIDE DEF S, T
  <1>2. n \in Nat /\ DOMAIN s = 1..n /\ s = [j \in 1..n |-> s[j]]  BY <1>1
  <1>3. \A j \in 1..n : t[j] = IF j = k THEN x ELSE s[j]  BY <1>2
  <1>4. DOMAIN t = 1..n /\ \A j \in 1..n : t[j] \in S  BY <1>1, <1>2, <1>3
  <1>5. t = [j \in 1..n |-> t[j]]  BY <1>2
  <1> HIDE DEF t
  <1>6. t \in Seq(S) /\ Len(t) = n  BY <1>2, <1>4, <1>5
  <1>7. t \in Seq(ToSet(t)) /\ ToSet(t) \subseteq S  BY <1>6, SequenceOfItself
  <1>8. QED  BY <1>2, <1>3, <1>6, <1>7 DEF t, S, T

\* What AddService does to the list of the block's manager.
AddedService(b, s, t, k, success) ==
    LET service == [id |-> Scalar(b, 1), conf |-> Configuration(b), open |-> success]
    IN  \/ t = s /\ k # 0 /\ (success => s[k].conf = Configuration(b) /\ s[k].open)
        \/ t = Append(s, service) /\ k = 0
        \/ t = [s EXCEPT ![k] = service] /\ k # 0 /\ s[k].open = FALSE

LEMMA AddServiceChanges ==
    ASSUME ServicesInv, UNCHANGED <<build, model, runtime>>,
           NEW b, Type(b) \in SocketTypes, NEW success \in BOOLEAN, AddService(b, success),
           NEW s, s = services[Type(b)], NEW t, t = services'[Type(b)],
           NEW k, k = FirstWith(s, Scalar(b, 1))
    PROVE  /\ \A u \in SocketTypes : u # Type(b) => services'[u] = services[u]
           /\ AddedService(b, s, t, k, success)
  <1> DEFINE c == Configuration(b)
             type == Type(b)
             id == Scalar(b, 1)
             made(open) == [id |-> id, conf |-> c, open |-> open]
             service == made(success)
  <1>1. k = FindService(type, id)  BY FoundAfter
  <1>2. services = [u \in SocketTypes |-> services[u]]  BY DEF ServicesInv
  <1>3. CASE /\ k # 0 /\ (s[k].conf = c => s[k].open)
             /\ success = (s[k].conf = c) /\ UNCHANGED services
        BY <1>3 DEF AddedService
  <1>4. CASE /\ k # 0 => s[k] = made(FALSE)
             /\ services' = [services EXCEPT ![type] =
                    IF k = 0 THEN Append(@, made(success)) ELSE [@ EXCEPT ![k] = made(success)]]
    <2>1. /\ service = made(success)
          /\ service = [id |-> Scalar(b, 1), conf |-> Configuration(b), open |-> success]
          OBVIOUS
    <2>2. k # 0 => s[k].open = FALSE  BY <1>4
    <2> HIDE DEF type, c, made, id, service
    <2>3. t = IF k = 0 THEN Append(s, service) ELSE [s EXCEPT ![k] = service]
          BY <1>2, <1>4, <2>1 DEF type
    <2>4. \A u \in SocketTypes : u # Type(b) => services'[u] = services[u]
          BY <1>2, <1>4 DEF type
    <2>5. QED  BY <2>1, <2>2, <2>3, <2>4 DEF AddedService
  <1>5. QED  BY <1>1, <1>3, <1>4 DEF AddService, AddedService

\* The lists only change where AddService or Terminate change them.
LEMMA ServicesOfStart ==
    ASSUME Start, ~UNCHANGED services
    PROVE  /\ Type(next) \in SocketTypes
           /\ \E success \in BOOLEAN : AddService(next, success)
           /\ UNCHANGED <<build, model, runtime, managed>>
  BY DEF Start, mdlStart, DataRecorderInitialize, SocketInitialize,
         ModelExecutionTimeInitialize, drivers, managerVars, compiled

LEMMA ServiceListsInit == Init => ServiceLists
  BY SequenceOfItself DEF Init, ServiceLists, ToSet

LEMMA ServiceListsStep ==
    ASSUME Phases, ServicesInv, ServiceLists, [Next]_vars
    PROVE  ServiceLists'
  <1>1. CASE UNCHANGED services  BY <1>1 DEF ServiceLists
  <1>2. CASE Start /\ ~UNCHANGED services
    <2>1. Type(next) \in SocketTypes /\ UNCHANGED <<build, model, runtime>>
          BY <1>2, ServicesOfStart
    <2>2. PICK success \in BOOLEAN : AddService(next, success)  BY <1>2, ServicesOfStart
    <2> DEFINE s == services[Type(next)]
               t == services'[Type(next)]
               k == FirstWith(s, Scalar(next, 1))
               service == [id |-> Scalar(next, 1), conf |-> Configuration(next),
                           open |-> success]
    <2>3. service.open \in BOOLEAN  BY <2>2
    <2>4. s \in Seq(ToSet(s)) /\ \A x \in ToSet(s) : x.open \in BOOLEAN
          BY <2>1 DEF ServiceLists
    <2>5. /\ \A u \in SocketTypes : u # Type(next) => services'[u] = services[u]
          /\ AddedService(next, s, t, k, success)
          BY <2>1, <2>2, AddServiceChanges
    <2>a. \/ t = s \/ t = Append(s, service)
          \/ t = [s EXCEPT ![k] = service] /\ k # 0
          BY <2>5 DEF AddedService
    <2> HIDE DEF s, t, k, service
    <2>6. Len(s) \in Nat /\ k \in 0..Len(s)
          BY <2>4, AppendedList, FirstIsFirst DEF k
    <2>7. t \in Seq(ToSet(t)) /\ ToSet(t) \subseteq ToSet(s) \cup {service}
      <3>1. CASE t = s  BY <2>4, <3>1
      <3>2. CASE t = Append(s, service)  BY <2>4, <3>2, AppendedList
      <3>3. CASE t = [s EXCEPT ![k] = service] /\ k # 0
        <4>1. k \in 1..Len(s)  BY <2>6, <3>3
        <4>2. QED  BY <2>4, <3>3, <4>1, ReplacedEntry
      <3>4. QED  BY <2>a, <3>1, <3>2, <3>3
    <2>8. \A x \in ToSet(t) : x.open \in BOOLEAN  BY <2>3, <2>4, <2>7
    <2>9. QED  BY <2>5, <2>7, <2>8 DEF ServiceLists, t
  <1>3. CASE Terminate
    <2>1. UNCHANGED services \/ services' = [services EXCEPT ![Type(next)] = <<>>]
          BY <1>3 DEF Terminate, mdlTerminate, DataRecorderTerminate, SocketTerminate,
             drivers
    <2>2. \A t \in SocketTypes : services'[t] = services[t] \/ services'[t] = <<>>
          BY <2>1 DEF ServicesInv
    <2>3. <<>> \in Seq(ToSet(<<>>)) /\ ToSet(<<>>) = {}
          BY SequenceOfItself DEF ToSet
    <2>4. QED  BY <2>2, <2>3 DEF ServiceLists
  <1>4. ASSUME NEW connected \in Connected, Compile(connected)  PROVE UNCHANGED services
        BY <1>4 DEF Compile
  <1>5. ASSUME NEW b \in Block, Step(b)  PROVE UNCHANGED services
        BY <1>5 DEF Step, mdlOutputs, DataRecorderStep, ModelExecutionTimeStep,
           StopExecutionStep
  <1>6. CASE End \/ Tick \/ CompileFails \/ UNCHANGED vars
        BY <1>1, <1>6 DEF End, Tick, CompileFails, vars, drivers
  <1>7. ASSUME NEW b \in Block, NEW d, Edit(b, d) \/ Tune(b, d)  PROVE UNCHANGED services
        BY <1>7 DEF Edit, Tune, drivers
  <1>8. QED  BY <1>1, <1>2, <1>3, <1>4, <1>5, <1>6, <1>7 DEF Next

LEMMA OwnersInit == Init => OwnersInv
  BY DEF Init, OwnersInv, Started

LEMMA FoundNow ==
    ASSUME NEW b
    PROVE  /\ Find(RecorderId(b)) = FirstWith(m_dataRecorders, RecorderId(b))
           /\ FindService(Type(b), Scalar(b, 1)) =
                FirstWith(services[Type(b)], Scalar(b, 1))
  BY DEF Find, FindService, FirstWith, SelectInSeq

\* Where the recorder and the service of a block are.
LEMMA RecorderPlace ==
    ASSUME RecordersInv, NEW b, HasItsRecorder(b)
    PROVE  /\ Find(RecorderId(b)) \in DOMAIN m_dataRecorders
           /\ m_dataRecorders[Find(RecorderId(b))].id = RecorderId(b)
  <1>1. DOMAIN m_dataRecorders = 1..Len(m_dataRecorders) /\ Len(m_dataRecorders) \in Nat
        BY AppendedList DEF RecordersInv
  <1>2. QED  BY <1>1, FoundNow, FirstIsFirst DEF HasItsRecorder

LEMMA ServicePlace ==
    ASSUME ServiceLists, NEW b, Type(b) \in SocketTypes, HasItsService(b),
           NEW f, f = FindService(Type(b), Scalar(b, 1))
    PROVE  /\ DOMAIN services[Type(b)] = 1..Len(services[Type(b)])
           /\ Len(services[Type(b)]) \in Nat
           /\ f \in DOMAIN services[Type(b)]
           /\ services[Type(b)][f].id = Scalar(b, 1) /\ services[Type(b)][f].open
  <1> DEFINE s == services[Type(b)]
  <1>1. s \in Seq(ToSet(s))  BY DEF ServiceLists
  <1>2. f = FirstWith(s, Scalar(b, 1)) /\ f # 0 /\ s[f].open
        BY FoundNow DEF HasItsService
  <1> HIDE DEF s
  <1>3. DOMAIN s = 1..Len(s) /\ Len(s) \in Nat  BY <1>1, AppendedList
  <1>4. f \in 1..Len(s) /\ s[f].id = Scalar(b, 1)  BY <1>2, <1>3, FirstIsFirst
  <1>5. QED  BY <1>2, <1>3, <1>4 DEF s

\* A step that leaves the lists, too, leaves a block what it has.
LEMMA RecorderStays ==
    ASSUME UNCHANGED <<build, model, runtime, m_dataRecorders>>, NEW b, HasItsRecorder(b)
    PROVE  HasItsRecorder(b)'
  <1>1. /\ Find(RecorderId(b))' = Find(RecorderId(b))
        /\ Scalar(b, 1)' = Scalar(b, 1) /\ SampleSize(b)' = SampleSize(b)
        BY FoundAfter
  <1>2. QED  BY <1>1 DEF HasItsRecorder

LEMMA ServiceStays ==
    ASSUME UNCHANGED <<build, model, runtime>>, NEW b,
           services'[Type(b)] = services[Type(b)], HasItsService(b)
    PROVE  HasItsService(b)'
  <1>1. /\ FindService(Type(b), Scalar(b, 1))' = FindService(Type(b), Scalar(b, 1))
        /\ Type(b)' = Type(b) /\ Configuration(b)' = Configuration(b)
        BY FoundAfter
  <1>2. QED  BY <1>1 DEF HasItsService

\* What OwnersInv says, for a step that leaves the parameters.
LEMMA OwnersAfter ==
    ASSUME UNCHANGED <<build, model, runtime>>,
           ASSUME ~Simulated, ~terminationRequested', NEW b \in Block, Started(b)'
           PROVE  /\ Type(b) = "DataRecorder" =>
                        /\ HasItsRecorder(b)'
                        /\ \A c \in Recorders :
                            Started(c)' /\ RecorderId(b) = RecorderId(c) => b = c
                  /\ Type(b) \in SocketTypes /\ build = "target" => HasItsService(b)'
    PROVE  OwnersInv'
  <1>1. Block' = Block /\ Recorders' = Recorders
        BY DEF Block, Recorders, Type
  <1>2. \A b : Type(b)' = Type(b) /\ RecorderId(b)' = RecorderId(b)  BY FoundAfter
  <1>3. Simulated' = Simulated  BY DEF Simulated
  <1>4. QED  BY <1>1, <1>2, <1>3 DEF OwnersInv

LEMMA OwnersFrame ==
    ASSUME OwnersInv, UNCHANGED <<build, model, runtime, m_dataRecorders, services>>,
           terminationRequested => terminationRequested',
           \A b \in Block : Type(b) \in SocketTypes \cup {"DataRecorder"} /\ Started(b)'
                => Started(b)
    PROVE  OwnersInv'
  <1>1. ASSUME ~Simulated, ~terminationRequested', NEW b \in Block, Started(b)'
        PROVE  /\ Type(b) = "DataRecorder" =>
                    /\ HasItsRecorder(b)'
                    /\ \A c \in Recorders :
                        Started(c)' /\ RecorderId(b) = RecorderId(c) => b = c
               /\ Type(b) \in SocketTypes /\ build = "target" => HasItsService(b)'
    <2>1. CASE Type(b) = "DataRecorder"
      <3>1. /\ HasItsRecorder(b)
            /\ \A c \in Recorders : Started(c) /\ RecorderId(b) = RecorderId(c) => b = c
            BY <1>1, <2>1 DEF OwnersInv
      <3>2. \A c \in Recorders : Started(c)' => Started(c)  BY DEF Recorders
      <3>3. HasItsRecorder(b)'  BY <3>1, RecorderStays
      <3>4. QED  BY <2>1, <3>1, <3>2, <3>3 DEF SocketTypes
    <2>2. CASE Type(b) \in SocketTypes /\ build = "target"
      <3>1. HasItsService(b)  BY <1>1, <2>2 DEF OwnersInv
      <3>2. HasItsService(b)'  BY <3>1, ServiceStays
      <3>3. QED  BY <2>2, <3>2 DEF SocketTypes
    <2>3. QED  BY <2>1, <2>2
  <1>2. QED  BY <1>1, OwnersAfter

\* A recorder block starts: a new recorder under an ID that no other has.
LEMMA OwnersOfRecorder ==
    ASSUME Phases, RecordersInv, OwnersInv, Start,
           NEW a \in Block, a = next, DataRecorderInitialize(a)
    PROVE  OwnersInv'
  <1>1. /\ UNCHANGED <<build, model, runtime, services>>
        /\ phase = "starting" /\ Type(a) = "DataRecorder"
        BY DEF Start, compiled, DataRecorderInitialize, Phases
  <1>2. \A b \in Block : Started(b)' => Started(b) \/ b = a
    <2>1. Block = 1..Len(Models[model]) /\ Len(Models[model]) \in Nat
          BY BlockFacts DEF Phases
    <2>2. QED  BY <1>1, <2>1 DEF Start, Advance, Started
  <1>3. CASE Simulated \/ terminationRequested'
        BY <1>1, <1>3 DEF OwnersInv, Simulated
  <1>4. CASE ~Simulated /\ ~terminationRequested'
    <2>1. RecordsFiles(a)  BY <1>4 DEF RecordsFiles
    <2>2. PICK success \in BOOLEAN :
            /\ AddDataRecorder(run, RecorderId(a), Scalar(a, 1), SampleSize(a),
                               build = "target", success)
            /\ terminationRequested' = (terminationRequested \/ (~Simulated /\ ~success))
          BY <2>1 DEF DataRecorderInitialize
    <2>3. success = TRUE /\ ~terminationRequested  BY <1>4, <2>2
    <2>4. faults \in Nat  BY ManagerConstants DEF Phases
    <2> DEFINE s == m_dataRecorders
               n == Len(s)
               id == RecorderId(a)
               r == [id |-> id, type |-> Scalar(a, 1), size |-> SampleSize(a),
                     started |-> TRUE, sources |-> {}]
    <2>5. ~AlreadyRegistered(id) /\ s' = Append(s, r)
      <3>1. /\ ~AlreadyRegistered(id)
            /\ \E started \in BOOLEAN :
                /\ Registers(id, Scalar(a, 1), SampleSize(a), started)
                /\ success => started
            BY <2>2, <2>3, <2>4, AddChanges
      <3>2. Registers(id, Scalar(a, 1), SampleSize(a), TRUE)  BY <2>3, <3>1
      <3>3. QED  BY <3>1, <3>2 DEF Registers
    <2>6. /\ n \in Nat /\ DOMAIN s = 1..n /\ Len(s') = n + 1
          /\ \A k \in 1..n : s'[k] = s[k]
          /\ s'[n + 1] = r
          BY <2>5, AppendedList DEF RecordersInv
    <2>7. \A k \in 1..n : s[k].id # id  BY <2>5, <2>6 DEF AlreadyRegistered
    <2>8. /\ r.id = id /\ r.type = Scalar(a, 1) /\ r.size = SampleSize(a)
          /\ r.started = TRUE /\ r.sources = {}
          OBVIOUS
    <2> HIDE DEF r, id, n
    <2>9. HasItsRecorder(a)'
      <3>1. n + 1 \in 1..n + 1 /\ n + 1 \in Nat  BY <2>6
      <3>2. \A j \in 1..n + 1 : j < n + 1 => s'[j].id # id  BY <2>6, <2>7
      <3>3. s'[n + 1].id = id  BY <2>6, <2>8
      <3>4. FirstWith(s', id) = n + 1  BY <2>6, <3>1, <3>2, <3>3, FirstIsUnique
      <3>5. /\ Find(RecorderId(a))' = n + 1
            /\ Scalar(a, 1)' = Scalar(a, 1) /\ SampleSize(a)' = SampleSize(a)
            BY <1>1, <3>4, FoundAfter DEF id
      <3>6. QED  BY <2>6, <2>8, <3>5 DEF HasItsRecorder
    <2>10. ASSUME NEW b \in Block, Started(b), Type(b) = "DataRecorder"
           PROVE  /\ HasItsRecorder(b)' /\ RecorderId(b) # id
                  /\ \A c \in Recorders :
                        Started(c) /\ RecorderId(b) = RecorderId(c) => b = c
      <3> DEFINE f == Find(RecorderId(b))
      <3>1. /\ HasItsRecorder(b)
            /\ \A c \in Recorders : Started(c) /\ RecorderId(b) = RecorderId(c) => b = c
            BY <1>4, <2>3, <2>10 DEF OwnersInv
      <3>2. f \in 1..n /\ s[f].id = RecorderId(b)
            BY <2>6, <3>1, RecorderPlace
      <3>3. RecorderId(b) # id  BY <2>7, <3>2
      <3> HIDE DEF f
      <3>4. s'[f] = s[f]  BY <2>6, <3>2
      <3>5. n + 1 \in Nat /\ n <= n + 1  BY <2>6
      <3>6. HasItsRecorder(b)'
            BY <1>1, <2>6, <3>1, <3>4, <3>5, RecorderKept DEF f, n
      <3>7. QED  BY <3>1, <3>3, <3>6
    <2>11. ASSUME NEW b \in Block, Started(b)'
           PROVE  /\ Type(b) = "DataRecorder" =>
                        /\ HasItsRecorder(b)'
                        /\ \A c \in Recorders :
                            Started(c)' /\ RecorderId(b) = RecorderId(c) => b = c
                  /\ Type(b) \in SocketTypes /\ build = "target" => HasItsService(b)'
      <3>1. CASE Type(b) = "DataRecorder"
        <4>1. HasItsRecorder(b)'  BY <1>2, <2>9, <2>10, <2>11, <3>1
        <4>2. ASSUME NEW c \in Recorders, Started(c)', RecorderId(b) = RecorderId(c)
              PROVE  b = c
          <5>1. c \in Block /\ Type(c) = "DataRecorder"  BY DEF Recorders
          <5>2. CASE b = a /\ c = a  BY <5>2
          <5>3. CASE b # a
            <6>1. Started(b)  BY <1>2, <2>11, <5>3
            <6>2. RecorderId(b) # id  BY <2>10, <3>1, <6>1
            <6>3. c # a  BY <4>2, <6>2 DEF id
            <6>4. Started(c)  BY <1>2, <4>2, <5>1, <6>3
            <6>5. QED  BY <2>10, <3>1, <4>2, <6>1, <6>4
          <5>4. CASE c # a
            <6>1. Started(c)  BY <1>2, <4>2, <5>1, <5>4
            <6>2. RecorderId(c) # id  BY <2>10, <5>1, <6>1
            <6>3. b # a  BY <4>2, <6>2 DEF id
            <6>4. QED  BY <5>3, <6>3
          <5>5. QED  BY <5>2, <5>3, <5>4
        <4>3. QED  BY <3>1, <4>1, <4>2 DEF SocketTypes
      <3>2. CASE Type(b) \in SocketTypes /\ build = "target"
        <4>1. b # a  BY <1>1, <3>2 DEF SocketTypes
        <4>2. HasItsService(b)
              BY <1>2, <1>4, <2>3, <2>11, <3>2, <4>1 DEF OwnersInv
        <4>3. HasItsService(b)'  BY <1>1, <4>2, ServiceStays
        <4>4. QED  BY <3>2, <4>3 DEF SocketTypes
      <3>3. QED  BY <3>1, <3>2
    <2>12. QED  BY <1>1, <2>11, OwnersAfter
  <1>5. QED  BY <1>3, <1>4

\* A socket block starts: the service it finds is the one it asks for, or it
\* gets a new one.
LEMMA OwnersOfSocket ==
    ASSUME Phases, ServicesInv, ServiceLists, OwnersInv, Start,
           NEW a \in Block, a = next, SocketInitialize(a)
    PROVE  OwnersInv'
  <1>1. /\ UNCHANGED <<build, model, runtime, m_dataRecorders>>
        /\ phase = "starting" /\ Type(a) \in SocketTypes
        /\ terminationRequested => terminationRequested'
        BY DEF Start, compiled, SocketInitialize, Phases, managerVars, managed
  <1>2. \A b \in Block : Started(b)' => Started(b) \/ b = a
    <2>1. Block = 1..Len(Models[model]) /\ Len(Models[model]) \in Nat
          BY BlockFacts DEF Phases
    <2>2. QED  BY <1>1, <2>1 DEF Start, Advance, Started
  <1>3. CASE Simulated \/ terminationRequested'
        BY <1>1, <1>3 DEF OwnersInv, Simulated
  <1>4. ASSUME build = "target", ~terminationRequested', NEW b \in Block, Started(b)',
               Type(b) \in SocketTypes
        PROVE  HasItsService(b)'
    <2>1. PICK success \in BOOLEAN :
            /\ AddService(a, success)
            /\ terminationRequested' =
                (terminationRequested \/ (build = "target" /\ ~success))
          BY DEF SocketInitialize
    <2>2. success = TRUE /\ ~terminationRequested  BY <1>4, <2>1
    <2> DEFINE id == Scalar(a, 1)
               conf == Configuration(a)
               s == services[Type(a)]
               t == services'[Type(a)]
               k == FirstWith(s, id)
               n == Len(s)
               service == [id |-> id, conf |-> conf, open |-> success]
    <2>3. /\ \A u \in SocketTypes : u # Type(a) => services'[u] = services[u]
          /\ AddedService(a, s, t, k, success)
          BY <1>1, <2>1, AddServiceChanges
    <2>4. \/ t = s /\ k # 0 /\ s[k].conf = conf /\ s[k].open
          \/ t = Append(s, service) /\ k = 0
          \/ t = [s EXCEPT ![k] = service] /\ k # 0 /\ s[k].open = FALSE
          BY <2>2, <2>3 DEF AddedService
    <2>5. s \in Seq(ToSet(s))  BY <1>1 DEF ServiceLists
    <2>6. service.id = id /\ service.conf = conf /\ service.open = TRUE  BY <2>2
    <2> HIDE DEF s, t, k, service, conf, id, n
    <2>7. /\ n \in Nat /\ DOMAIN s = 1..n /\ Len(s) = n
          /\ k \in 0..n /\ (k = 0 => \A j \in 1..n : s[j].id # id)
          /\ k # 0 => s[k].id = id /\ \A j \in 1..n : s[j].id = id => k <= j
      <3>1. n \in Nat /\ DOMAIN s = 1..n /\ Len(s) = n  BY <2>5, AppendedList DEF n
      <3>2. QED  BY <3>1, FirstIsFirst DEF k
    \* the list after the step, where the block finds its service
    <2>8. \E m \in Nat : \E j \in 1..m :
            /\ Len(t) = m /\ n <= m
            /\ t[j].id = id /\ t[j].conf = conf /\ t[j].open
            /\ \A i \in 1..m : i < j => t[i].id # id
            /\ \A i \in 1..n : t[i].id = s[i].id
            /\ \A i \in 1..n : s[i].open => t[i] = s[i]
      <3>1. CASE t = s /\ k # 0 /\ s[k].conf = conf /\ s[k].open
        <4>1. k \in 1..n /\ n <= n /\ \A i \in 1..n : i < k => s[i].id # id
              BY <2>7, <3>1
        <4>2. QED  BY <2>7, <3>1, <4>1
      <3>2. CASE t = Append(s, service) /\ k = 0
        <4>1. /\ Len(t) = n + 1 /\ t[n + 1] = service /\ \A i \in 1..n : t[i] = s[i]
              BY <2>5, <2>7, <3>2, AppendedList
        <4>2. n + 1 \in Nat /\ n + 1 \in 1..n + 1 /\ n <= n + 1  BY <2>7
        <4>3. \A i \in 1..n + 1 : i < n + 1 => t[i].id # id  BY <2>7, <3>2, <4>1
        <4>4. t[n + 1].id = id /\ t[n + 1].conf = conf /\ t[n + 1].open
              BY <2>6, <4>1
        <4>5. QED  BY <4>1, <4>2, <4>3, <4>4
      <3>3. CASE t = [s EXCEPT ![k] = service] /\ k # 0 /\ s[k].open = FALSE
        <4>1. k \in 1..Len(s) /\ k \in 1..n  BY <2>7, <3>3
        <4>2. Len(t) = n /\ \A i \in 1..n : t[i] = IF i = k THEN service ELSE s[i]
              BY <2>5, <2>7, <3>3, <4>1, ReplacedEntry
        <4>3. \A i \in 1..n : t[i].id = s[i].id  BY <2>6, <2>7, <3>3, <4>2
        <4>4. \A i \in 1..n : s[i].open => t[i] = s[i]  BY <3>3, <4>2
        <4>5. t[k].id = id /\ t[k].conf = conf /\ t[k].open  BY <2>6, <4>1, <4>2
        <4>6. \A i \in 1..n : i < k => t[i].id # id  BY <2>7, <3>3, <4>1, <4>3
        <4>7. n <= n  BY <2>7
        <4>8. QED  BY <2>7, <4>1, <4>2, <4>3, <4>4, <4>5, <4>6, <4>7
      <3>4. QED  BY <2>4, <3>1, <3>2, <3>3
    <2>m. PICK m \in Nat : \E j \in 1..m :
            /\ Len(t) = m /\ n <= m
            /\ t[j].id = id /\ t[j].conf = conf /\ t[j].open
            /\ \A i \in 1..m : i < j => t[i].id # id
            /\ \A i \in 1..n : t[i].id = s[i].id
            /\ \A i \in 1..n : s[i].open => t[i] = s[i]
          BY <2>8
    <2>9. PICK j \in 1..m :
            /\ Len(t) = m /\ n <= m
            /\ t[j].id = id /\ t[j].conf = conf /\ t[j].open
            /\ \A i \in 1..m : i < j => t[i].id # id
            /\ \A i \in 1..n : t[i].id = s[i].id
            /\ \A i \in 1..n : s[i].open => t[i] = s[i]
          BY <2>m
    <2>10. HasItsService(a)'
      <3>1. FirstWith(t, id) = j  BY <2>9, FirstIsUnique
      <3>2. /\ FindService(Type(a), Scalar(a, 1))' = j
            /\ Type(a)' = Type(a) /\ Configuration(a)' = conf
            BY <1>1, <3>1, FoundAfter DEF t, id, conf
      <3>3. j # 0  BY <2>9
      <3>4. QED  BY <2>9, <3>2, <3>3 DEF HasItsService, t
    <2>11. ASSUME Started(b)  PROVE HasItsService(b)'
      <3>1. HasItsService(b)  BY <1>4, <2>2, <2>11 DEF OwnersInv, Simulated
      <3>2. CASE Type(b) # Type(a)
            BY <1>1, <1>4, <2>3, <3>1, <3>2, ServiceStays
      <3>3. CASE Type(b) = Type(a)
        <4> DEFINE f == FindService(Type(b), Scalar(b, 1))
        <4>1. f \in DOMAIN s /\ s[f].open
              BY <1>4, <3>1, <3>3, ServicePlace DEF s
        <4>2. t[f] = s[f]  BY <2>7, <2>9, <4>1
        <4> HIDE DEF f
        <4>3. services[Type(b)] = s /\ services'[Type(b)] = t
              BY <3>3 DEF s, t
        <4>4. f = FindService(Type(b), Scalar(b, 1))  BY DEF f
        <4>5. QED  BY <1>1, <2>7, <2>9, <3>1, <4>2, <4>3, <4>4, ServiceKept
      <3>4. QED  BY <3>2, <3>3
    <2>12. QED  BY <1>2, <1>4, <2>10, <2>11
  <1>5. CASE ~Simulated /\ ~terminationRequested'
    <2>1. ASSUME NEW b \in Block, Started(b)'
          PROVE  /\ Type(b) = "DataRecorder" =>
                        /\ HasItsRecorder(b)'
                        /\ \A c \in Recorders :
                            Started(c)' /\ RecorderId(b) = RecorderId(c) => b = c
                 /\ Type(b) \in SocketTypes /\ build = "target" => HasItsService(b)'
      <3>1. CASE Type(b) = "DataRecorder"
        <4>1. b # a /\ \A c \in Recorders : c \in Block /\ c # a
              BY <1>1, <3>1 DEF SocketTypes, Recorders
        <4>2. /\ HasItsRecorder(b)
              /\ \A c \in Recorders :
                    Started(c) /\ RecorderId(b) = RecorderId(c) => b = c
              BY <1>1, <1>2, <1>5, <2>1, <3>1, <4>1 DEF OwnersInv
        <4>3. HasItsRecorder(b)'  BY <1>1, <4>2, RecorderStays
        <4>4. QED  BY <1>2, <3>1, <4>1, <4>2, <4>3 DEF SocketTypes
      <3>2. CASE Type(b) \in SocketTypes /\ build = "target"
        <4>1. HasItsService(b)'  BY <1>4, <1>5, <2>1, <3>2
        <4>2. QED  BY <3>2, <4>1 DEF SocketTypes
      <3>3. QED  BY <3>1, <3>2
    <2>2. QED  BY <1>1, <1>5, <2>1, OwnersAfter
  <1>6. QED  BY <1>3, <1>5

\* A sample reaches the recorder of its own block.
LEMMA OwnersOutputs ==
    ASSUME Phases, RecordersInv, OwnersInv, NEW a \in Block, Step(a)
    PROVE  OwnersInv'
  <1>a. UNCHANGED <<build, model, runtime, phase, next>> /\ phase = "running"
        /\ mdlOutputs(a)
        BY DEF Step, compiled
  <1>b. UNCHANGED services
        BY <1>a DEF mdlOutputs, DataRecorderStep, ModelExecutionTimeStep, StopExecutionStep
  <1>c. terminationRequested => terminationRequested'
        BY <1>a DEF mdlOutputs, DataRecorderStep, ModelExecutionTimeStep, StopExecutionStep
  <1>1. /\ UNCHANGED <<build, model, runtime, services, phase, next>> /\ phase = "running"
        /\ terminationRequested => terminationRequested'
        BY <1>a, <1>b, <1>c
  <1>2. CASE UNCHANGED m_dataRecorders  BY <1>1, <1>2, OwnersFrame DEF Started
  <1>3. CASE ~UNCHANGED m_dataRecorders
    <2> DEFINE s == m_dataRecorders
               n == Len(s)
    <2>1. Type(a) = "DataRecorder" /\ Write(RecorderId(a), SampleSize(a), a)
          BY <1>3 DEF Step, mdlOutputs, DataRecorderStep, ModelExecutionTimeStep,
             StopExecutionStep, managerVars, managed
    <2>2. /\ Len(s') = n
          /\ \A k \in 1..n :
                /\ s'[k].id = s[k].id /\ s'[k].type = s[k].type /\ s'[k].size = s[k].size
                /\ s'[k].started = s[k].started
                /\ s'[k].sources = s[k].sources
                   \/ (k = Find(RecorderId(a)) /\ s'[k].sources = s[k].sources \cup {a})
          BY <2>1, WriteChanges
    <2>3. n \in Nat /\ DOMAIN s = 1..n  BY AppendedList DEF RecordersInv
    <2>4. a \in Recorders  BY <2>1 DEF Recorders
    <2>5. ASSUME ~Simulated, ~terminationRequested', NEW b \in Block, Started(b)'
          PROVE  /\ Type(b) = "DataRecorder" =>
                        /\ HasItsRecorder(b)'
                        /\ \A c \in Recorders :
                            Started(c)' /\ RecorderId(b) = RecorderId(c) => b = c
                 /\ Type(b) \in SocketTypes /\ build = "target" => HasItsService(b)'
      <3>1. \A c : Started(c)' = Started(c) /\ Started(c)  BY <1>1 DEF Started
      <3>2. ~terminationRequested  BY <1>1, <2>5
      <3>3. CASE Type(b) = "DataRecorder"
        <4> DEFINE f == Find(RecorderId(b))
        <4>1. /\ HasItsRecorder(b) /\ HasItsRecorder(a)
              /\ \A c \in Recorders : Started(c) /\ RecorderId(b) = RecorderId(c) => b = c
              BY <2>1, <2>5, <3>1, <3>2, <3>3 DEF OwnersInv
        <4>2. f \in 1..n /\ s[f].id = RecorderId(b)
              /\ s[Find(RecorderId(a))].id = RecorderId(a)
              BY <2>3, <4>1, RecorderPlace
        <4>3. f = Find(RecorderId(a)) => b = a
              BY <2>4, <3>1, <4>1, <4>2
        <4> HIDE DEF f
        <4>4. s'[f].sources \subseteq s[f].sources \cup {b}
              BY <2>2, <4>2, <4>3
        <4>5. n <= n /\ Len(s) = n /\ Len(s') = n /\ f = Find(RecorderId(b))
              BY <2>2, <2>3 DEF f
        <4>6. HasItsRecorder(b)'
              BY <1>1, <2>2, <2>3, <4>1, <4>2, <4>4, <4>5, RecorderKept
        <4>7. QED  BY <3>1, <3>3, <4>1, <4>6 DEF SocketTypes
      <3>4. CASE Type(b) \in SocketTypes /\ build = "target"
        <4>1. HasItsService(b)  BY <2>5, <3>1, <3>2, <3>4 DEF OwnersInv
        <4>2. HasItsService(b)'  BY <1>1, <4>1, ServiceStays
        <4>3. QED  BY <3>4, <4>2 DEF SocketTypes
      <3>5. QED  BY <3>3, <3>4
    <2>6. QED  BY <1>1, <2>5, OwnersAfter
  <1>4. QED  BY <1>2, <1>3

LEMMA OwnersStep ==
    ASSUME Phases, ServicesInv, ServiceLists, RecordersInv, OwnersInv, [Next]_vars
    PROVE  OwnersInv'
  <1>1. CASE UNCHANGED <<build, model, runtime, phase, next, m_dataRecorders, services,
                         terminationRequested>>
        BY <1>1, OwnersFrame DEF Started
  <1>2. ASSUME \A b \in Block : ~Started(b)', UNCHANGED model  PROVE OwnersInv'
        BY <1>2 DEF OwnersInv, Block
  <1>3. ASSUME NEW connected \in Connected, Compile(connected)  PROVE OwnersInv'
    <2>1. UNCHANGED model /\ phase' = "starting" /\ next' = 1  BY <1>3 DEF Compile
    <2>2. \A b \in Block : ~(b < 1)  BY BlockFacts DEF Phases
    <2>3. QED  BY <1>2, <2>1, <2>2 DEF Started
  <1>4. CASE Start
    <2>1. PICK a \in Block : a = next  BY DEF Phases
    <2>2. CASE DataRecorderInitialize(a)  BY <1>4, <2>1, <2>2, OwnersOfRecorder
    <2>3. CASE SocketInitialize(a)  BY <1>4, <2>1, <2>3, OwnersOfSocket
    <2>4. CASE ModelExecutionTimeInitialize(a) \/ (Stateless(a) /\ UNCHANGED drivers)
      <3>1. /\ UNCHANGED <<build, model, runtime, m_dataRecorders, services,
                           terminationRequested>>
            /\ phase = "starting" /\ Advance("running")
            BY <1>4, <2>4
            DEF Start, ModelExecutionTimeInitialize, drivers, managerVars, managed, compiled
      <3>2. Type(next) \notin SocketTypes \cup {"DataRecorder"}
            BY <2>1, <2>4 DEF ModelExecutionTimeInitialize, Stateless, SocketTypes
      <3>3. Block = 1..Len(Models[model]) /\ next \in Block /\ Len(Models[model]) \in Nat
            BY BlockFacts DEF Phases
      <3>4. \A b \in Block : Started(b)' => Started(b) \/ b = next
            BY <3>1, <3>3 DEF Advance, Started
      <3>5. QED  BY <3>1, <3>2, <3>4, OwnersFrame
    <2>5. QED  BY <1>4, <2>1, <2>2, <2>3, <2>4 DEF Start, mdlStart
  <1>5. CASE End  BY <1>2, <1>5 DEF End, Started
  <1>6. CASE Terminate  BY <1>2, <1>6 DEF Terminate, Advance, Started
  <1>7. CASE Tick \/ CompileFails \/ UNCHANGED vars
        BY <1>1, <1>7
        DEF Tick, CompileFails, vars, drivers, managerVars, managed, compiled
  <1>8. ASSUME NEW b \in Block, NEW d, Edit(b, d)  PROVE OwnersInv'
        BY <1>1, <1>8 DEF Edit, drivers, managerVars, managed, compiled
  <1>9. ASSUME NEW b \in Block, NEW d, Tune(b, d)  PROVE OwnersInv'
    <2>1. build' = "simulation"  BY <1>9 DEF Tune, Simulated
    <2>2. QED  BY <2>1 DEF OwnersInv, Simulated
  <1>10. QED
        BY <1>3, <1>4, <1>5, <1>6, <1>7, <1>8, <1>9, OwnersOutputs DEF Next

-----------------------------------------------------------------------------
(* The tables of the S-functions                                           *)

Types ==
    {"UDPSocket", "TCPClientSocket", "DataRecorder", "ApplicationArguments",
     "ReadThermalZones", "NumTaskOverloads", "TaskExecutionTime", "StopExecution",
     "NumCPUOverloads", "ModelExecutionTime", "UnixTime", "UTCTimestamp", "UTCTime",
     "LocalTime"}

LEMMA TypesOfTables ==
    DOMAIN SizesOf = Types /\ DOMAIN DialogOf = Types /\ DOMAIN CallsOf = Types
  BY DEF Types, SizesOf, DialogOf, CallsOf

\* The number of run-time parameters.
LEMMA RuntimeParameters ==
    ASSUME NEW type \in Types
    PROVE  CallsOf[type].runtime \in Nat
  BY DEF Types, CallsOf, UDPSocketCalls, TCPClientSocketCalls, DataRecorderCalls,
         ApplicationArgumentsCalls, ReadThermalZonesCalls, NumTaskOverloadsCalls,
         TaskExecutionTimeCalls, StopExecutionCalls, NumCPUOverloadsCalls,
         ModelExecutionTimeCalls, UnixTimeCalls, UTCTimestampCalls, UTCTimeCalls,
         LocalTimeCalls

\* The last parameter of every dialog is the sample time.
LEMMA DialogsEnd ==
    ASSUME NEW type \in Types
    PROVE  \E n \in Nat \ {0} :
              /\ Len(DialogOf[type]) = n /\ DOMAIN DialogOf[type] = 1..n
              /\ DialogOf[type][n] = "sample time"
  <1>1. \E n \in Nat \ {0} : \E vectors, quads, numbers :
            DialogOf[type] = Dialog(n, vectors, quads, numbers)
        BY DEF Types, DialogOf, UDPSocketDialog, TCPClientSocketDialog,
           DataRecorderDialog, ApplicationArgumentsDialog, ReadThermalZonesDialog,
           NumTaskOverloadsDialog, TaskExecutionTimeDialog, StopExecutionDialog,
           NumCPUOverloadsDialog, ModelExecutionTimeDialog, UnixTimeDialog,
           UTCTimestampDialog, UTCTimeDialog, LocalTimeDialog, OnlySampleTime
  <1>2. PICK n \in Nat \ {0} : \E vectors, quads, numbers :
            DialogOf[type] = Dialog(n, vectors, quads, numbers)
        BY <1>1
  <1>3. PICK vectors, quads, numbers :
            DialogOf[type] = Dialog(n, vectors, quads, numbers)
        BY <1>2
  <1> DEFINE d == Dialog(n, vectors, quads, numbers)
  <1>4. d[n] = "sample time" /\ Len(d) = n /\ DOMAIN d = 1..n
    <2> DEFINE kind(i) == IF i = n THEN "sample time"
                          ELSE IF i \in vectors THEN "vector"
                          ELSE IF i \in quads THEN "quad"
                          ELSE IF i \in numbers THEN "number" ELSE "scalar"
    <2>1. d = [i \in 1..n |-> kind(i)]  BY DEF Dialog
    <2>2. kind(n) = "sample time"  OBVIOUS
    <2> HIDE DEF kind, d
    <2>3. n \in Nat /\ n \in 1..n  BY <1>2
    <2>4. DOMAIN d = 1..n /\ d[n] = kind(n)  BY <2>1, <2>3
    <2>5. Len(d) = n  BY <2>1, <2>3
    <2>6. QED  BY <2>2, <2>4, <2>5
  <1>5. QED  BY <1>3, <1>4

\* The ports of every S-function are two lists.
IsList(s) == \E n \in Nat : Len(s) = n /\ s = [i \in 1..n |-> s[i]]

LEMMA PortLists ==
    ASSUME NEW type \in Types
    PROVE  IsList(SizesOf[type].inputs) /\ IsList(SizesOf[type].outputs)
  <1>1. IsList(<<>>)
    <2> DEFINE s == <<>>
    <2>1. Len(s) = 0 /\ s = [i \in 1..0 |-> s[i]] /\ 0 \in Nat  OBVIOUS
    <2> HIDE DEF s
    <2>2. QED  BY <2>1 DEF IsList, s
  <1>2. ASSUME NEW n \in Nat  PROVE IsList(Ports(n))
    <2> DEFINE s == Ports(n)
    <2>1. s = [i \in 1..n |-> Fixed(1)]  BY DEF Ports
    <2> HIDE DEF s
    <2>2. Len(s) = n /\ s = [i \in 1..n |-> s[i]]  BY <2>1
    <2>3. QED  BY <2>2 DEF IsList, s
  <1>3. ASSUME NEW a, NEW b, NEW c, NEW d, NEW e, NEW f
        PROVE  /\ IsList(<<a>>) /\ IsList(<<a, b, c>>) /\ IsList(<<a, b, c, d>>)
               /\ IsList(<<a, b, c, d, e>>) /\ IsList(<<a, b, c, d, e, f>>)
    <2>1. IsList(<<a>>)
      <3> DEFINE s == <<a>>
      <3>1. Len(s) = 1 /\ s = [i \in 1..1 |-> s[i]] /\ 1 \in Nat  OBVIOUS
      <3> HIDE DEF s
      <3>2. QED  BY <3>1 DEF IsList, s
    <2>2. IsList(<<a, b, c>>)
      <3> DEFINE s == <<a, b, c>>
      <3>1. Len(s) = 3 /\ s = [i \in 1..3 |-> s[i]] /\ 3 \in Nat  OBVIOUS
      <3> HIDE DEF s
      <3>2. QED  BY <3>1 DEF IsList, s
    <2>3. IsList(<<a, b, c, d>>)
      <3> DEFINE s == <<a, b, c, d>>
      <3>1. Len(s) = 4 /\ s = [i \in 1..4 |-> s[i]] /\ 4 \in Nat  OBVIOUS
      <3> HIDE DEF s
      <3>2. QED  BY <3>1 DEF IsList, s
    <2>4. IsList(<<a, b, c, d, e>>)
      <3> DEFINE s == <<a, b, c, d, e>>
      <3>1. Len(s) = 5 /\ s = [i \in 1..5 |-> s[i]] /\ 5 \in Nat  OBVIOUS
      <3> HIDE DEF s
      <3>2. QED  BY <3>1 DEF IsList, s
    <2>5. IsList(<<a, b, c, d, e, f>>)
      <3> DEFINE s == <<a, b, c, d, e, f>>
      <3>1. Len(s) = 6 /\ s = [i \in 1..6 |-> s[i]] /\ 6 \in Nat  OBVIOUS
      <3> HIDE DEF s
      <3>2. QED  BY <3>1 DEF IsList, s
    <2>6. QED  BY <2>1, <2>2, <2>3, <2>4, <2>5
  <1>4. CASE type = "UDPSocket"
    <2>1. SizesOf[type] = UDPSocketSizes  BY <1>4 DEF SizesOf
    <2>2. IsList(<<Fixed(4), Fixed(1), Fixed(Dynamic), Fixed(1), Fixed(Dynamic), Fixed(1)>>)
          BY <1>3
    <2>3. IsList(<<Given(<<12>>), Fixed(4), Fixed(1), Fixed(1), Fixed(1)>>)  BY <1>3
    <2>4. QED  BY <2>1, <2>2, <2>3 DEF UDPSocketSizes
  <1>5. CASE type = "TCPClientSocket"
    <2>1. SizesOf[type] = TCPClientSocketSizes  BY <1>5 DEF SizesOf
    <2>2. IsList(<<Fixed(4), Fixed(1), Fixed(Dynamic), Fixed(1)>>)
          BY <1>3
    <2>3. IsList(<<Given(<<6>>), Fixed(1), Fixed(1), Fixed(1)>>)  BY <1>3
    <2>4. QED  BY <2>1, <2>2, <2>3 DEF TCPClientSocketSizes
  <1>6. CASE type = "DataRecorder"
    <2>1. SizesOf[type] = DataRecorderSizes  BY <1>6 DEF SizesOf
    <2>2. IsList(<<Fixed(1), Given(<<6>>), Given(<<5>>)>>)  BY <1>3
    <2>3. IsList(<<>>)  BY <1>1
    <2>4. QED  BY <2>1, <2>2, <2>3 DEF DataRecorderSizes
  <1>7. CASE type = "ApplicationArguments"
    <2>1. SizesOf[type] = ApplicationArgumentsSizes  BY <1>7 DEF SizesOf
    <2>2. IsList(<<>>)  BY <1>1
    <2>3. IsList(<<Given(<<1, 2>>), Given(<<2>>), Fixed(1)>>)  BY <1>3
    <2>4. QED  BY <2>1, <2>2, <2>3 DEF ApplicationArgumentsSizes
  <1>8. CASE type = "ReadThermalZones"
    <2>1. SizesOf[type] = ReadThermalZonesSizes  BY <1>8 DEF SizesOf
    <2>2. IsList(<<>>)  BY <1>1
    <2>3. IsList(<<Given(<<1>>)>>)  BY <1>3
    <2>4. QED  BY <2>1, <2>2, <2>3 DEF ReadThermalZonesSizes
  <1>9. CASE type \in {"NumTaskOverloads", "TaskExecutionTime", "StopExecution",
                    "NumCPUOverloads", "ModelExecutionTime", "UnixTime", "UTCTimestamp",
                    "UTCTime", "LocalTime"}
    <2>1. \E m \in {0, 1}, n \in {0, 1, 2, 10} :
            /\ SizesOf[type].inputs = IF m = 0 THEN <<>> ELSE Ports(m)
            /\ SizesOf[type].outputs = IF n = 0 THEN <<>> ELSE Ports(n)
          BY <1>9 DEF SizesOf, NumTaskOverloadsSizes, TaskExecutionTimeSizes,
             StopExecutionSizes, NumCPUOverloadsSizes, ModelExecutionTimeSizes,
             UnixTimeSizes, UTCTimestampSizes, UTCTimeSizes, LocalTimeSizes
    <2>2. \A m \in {0, 1, 2, 10} : m \in Nat  OBVIOUS
    <2>3. QED  BY <1>1, <1>2, <2>1, <2>2
  <1>10. QED
        BY <1>4, <1>5, <1>6, <1>7, <1>8, <1>9 DEF Types

LEMMA BothLists ==
    ASSUME NEW s, NEW t, IsList(s), IsList(t)
    PROVE  ToSet(s \o t) = ToSet(s) \cup ToSet(t)
  <1>1. PICK m \in Nat : Len(s) = m /\ s = [i \in 1..m |-> s[i]]  BY DEF IsList
  <1>2. PICK n \in Nat : Len(t) = n /\ t = [i \in 1..n |-> t[i]]  BY DEF IsList
  <1> DEFINE S == ToSet(s) \cup ToSet(t)
             u == s \o t
  <1>3. DOMAIN s = 1..m /\ DOMAIN t = 1..n  BY <1>1, <1>2
  <1>4. (\A i \in 1..m : s[i] \in S) /\ (\A i \in 1..n : t[i] \in S)
        BY <1>3 DEF ToSet
  <1> HIDE DEF S
  <1>5. s \in Seq(S) /\ t \in Seq(S)  BY <1>1, <1>2, <1>4
  <1>6. /\ DOMAIN u = 1..m + n
        /\ \A i \in 1..m : u[i] = s[i]
        /\ \A i \in 1..n : u[m + i] = t[i]
        BY <1>1, <1>2, <1>5
  <1> HIDE DEF u
  <1>7. ASSUME NEW i \in 1..m + n
        PROVE  (i \in 1..m /\ u[i] = s[i]) \/ \E j \in 1..n : u[i] = t[j]
    <2>1. CASE i <= m
      <3>1. i \in 1..m  BY <1>1, <2>1
      <3>2. QED  BY <1>6, <3>1
    <2>2. CASE ~(i <= m)
      <3>1. i - m \in 1..n /\ m + (i - m) = i  BY <1>1, <1>2, <2>2
      <3>2. u[i] = t[i - m]  BY <1>6, <3>1
      <3>3. QED  BY <3>1, <3>2
    <2>3. QED  BY <2>1, <2>2
  <1>8. \A j \in 1..n : m + j \in 1..m + n  BY <1>1, <1>2
  <1>9. 1..m \subseteq 1..m + n  BY <1>1, <1>2
  <1>10. ToSet(u) = ToSet(s) \cup ToSet(t)
    <2>1. ToSet(u) \subseteq ToSet(s) \cup ToSet(t)  BY <1>6, <1>3, <1>7 DEF ToSet
    <2>2. ToSet(s) \subseteq ToSet(u)  BY <1>6, <1>3, <1>9 DEF ToSet
    <2>3. ToSet(t) \subseteq ToSet(u)  BY <1>6, <1>3, <1>8 DEF ToSet
    <2>4. QED  BY <2>1, <2>2, <2>3
  <1>11. QED  BY <1>10 DEF u

-----------------------------------------------------------------------------
(* What the compilation sets up                                            *)

\* mdlCheckParameters and mdlInitializeSampleTimes: a dialog that is accepted
\* has a sample time that Simulink can schedule.
LEMMA SampleTimes ==
    ASSUME NEW type \in Types, NEW d \in Seq(Matrices), mdlInitializeSizes(type, d)
    PROVE  Regular(mdlInitializeSampleTimes(type, d))
  <1>1. PICK n \in Nat \ {0} :
            /\ Len(DialogOf[type]) = n /\ DOMAIN DialogOf[type] = 1..n
            /\ DialogOf[type][n] = "sample time"
        BY DialogsEnd
  <1>p. n \in Nat /\ n # 0  BY <1>1
  <1>q. n \in 1..n  BY <1>p
  <1> DEFINE v == d[n]
  <1>2. Len(d) = n /\ Last(d) = v /\ v \in Matrices
    <2> HIDE DEF v
    <2> DEFINE M == Matrices
    <2> HIDE DEF M
    <2>1. Len(d) = n  BY <1>1 DEF mdlInitializeSizes
    <2>2. d \in Seq(M)  BY DEF M
    <2>3. n \in 1..Len(d)  BY <1>q, <2>1
    <2>4. d[n] \in M  BY <2>2, <2>3
    <2>5. QED  BY <2>1, <2>4 DEF Last, v, M
  <1>3. SampleTimeIsValid(v)
    <2>1. n \in DOMAIN DialogOf[type]  BY <1>1, <1>q
    <2>2. Acceptable("sample time", v)
          BY <1>1, <2>1 DEF mdlInitializeSizes, mdlCheckParameters
    <2>3. QED  BY <2>2 DEF Acceptable
  <1> HIDE DEF v
  <1> DEFINE e == v.elements
             count == v.rows * v.columns
  <1>4. /\ e \in Seq(Int) /\ Len(e) = count /\ count \in {1, 2}
        /\ e[1] >= 0 \/ e[1] = -1
        /\ count = 2 =>
            /\ e[1] > 0 => e[2] < e[1]
            /\ e[1] = -1 => e[2] = 0
            /\ e[1] = 0 => e[2] = 1
        BY <1>2, <1>3 DEF SampleTimeIsValid, Matrices
  <1>5. mdlInitializeSampleTimes(type, d) =
            [period |-> e[1],
             offset |-> IF count = 2 THEN e[2] ELSE IF e[1] = 0 THEN 1 ELSE 0]
        BY <1>2 DEF mdlInitializeSampleTimes
  <1> HIDE DEF e, count
  <1>6. e[1] \in Int /\ (count = 2 => e[2] \in Int)  BY <1>4
  <1>7. QED  BY <1>4, <1>5, <1>6 DEF Regular

\* mdlInitializeSizes and the two callbacks for dynamic widths: a model that
\* is compiled has ports of a positive width.
LEMMA PositiveWidths ==
    ASSUME NEW b, Type(b) \in Types, mdlInitializeSizes(Type(b), dialog[b]),
           NEW connected \in Connected,
           Dynamic \notin ToSet(PortWidths(b, connected).outputs)
    PROVE  \A w \in ToSet(PortWidths(b, connected).inputs \o PortWidths(b, connected).outputs) :
                w >= 1
  <1> DEFINE ins == SizesOf[Type(b)].inputs
             outs == SizesOf[Type(b)].outputs
             resolved(port) == mdlSetPortDimensionInfo(port, dialog[b], connected)
             inputs == [k \in DOMAIN ins |->
                            mdlSetDefaultPortDimensionInfo(resolved(ins[k]))]
             outputs == [k \in DOMAIN outs |-> resolved(outs[k])]
  <1>1. PortWidths(b, connected).inputs = inputs
        /\ PortWidths(b, connected).outputs = outputs
        BY DEF PortWidths
  <1>2. IsList(ins) /\ IsList(outs)  BY PortLists
  <1>3. \A port \in ToSet(ins) \cup ToSet(outs) :
            Width(port, dialog[b]) = Dynamic \/ Width(port, dialog[b]) >= 1
        BY <1>2, BothLists DEF mdlInitializeSizes
  <1>4. \A port \in ToSet(ins) \cup ToSet(outs) :
            resolved(port) = Dynamic \/ resolved(port) >= 1
    <2>1. connected = Dynamic \/ connected >= 1  BY BlockConstants
    <2>2. QED  BY <1>3, <2>1 DEF mdlSetPortDimensionInfo
  <1> HIDE DEF ins, outs, resolved
  <1>5. PICK m \in Nat : Len(ins) = m /\ ins = [i \in 1..m |-> ins[i]]
        BY <1>2 DEF IsList
  <1>6. PICK n \in Nat : Len(outs) = n /\ outs = [i \in 1..n |-> outs[i]]
        BY <1>2 DEF IsList
  <1>7. DOMAIN ins = 1..m /\ DOMAIN outs = 1..n  BY <1>5, <1>6
  <1>8. IsList(inputs) /\ IsList(outputs)
    <2>1. /\ DOMAIN inputs = 1..m /\ DOMAIN outputs = 1..n
          /\ inputs = [i \in 1..m |-> inputs[i]] /\ outputs = [i \in 1..n |-> outputs[i]]
          BY <1>7
    <2> HIDE DEF inputs, outputs
    <2>2. Len(inputs) = m /\ Len(outputs) = n  BY <1>5, <1>6, <2>1
    <2>3. QED  BY <1>5, <1>6, <2>1, <2>2 DEF IsList
  <1>9. \A k \in 1..m : inputs[k] >= 1
    <2> SUFFICES ASSUME NEW k \in 1..m  PROVE inputs[k] >= 1  OBVIOUS
    <2>1. resolved(ins[k]) = Dynamic \/ resolved(ins[k]) >= 1  BY <1>4, <1>7 DEF ToSet
    <2>2. inputs[k] = mdlSetDefaultPortDimensionInfo(resolved(ins[k]))  BY <1>7
    <2>3. QED  BY <2>1, <2>2 DEF mdlSetDefaultPortDimensionInfo
  <1>10. \A k \in 1..n : outputs[k] >= 1
    <2> SUFFICES ASSUME NEW k \in 1..n  PROVE outputs[k] >= 1  OBVIOUS
    <2>1. resolved(outs[k]) = Dynamic \/ resolved(outs[k]) >= 1  BY <1>4, <1>7 DEF ToSet
    <2>2. outputs[k] = resolved(outs[k])  BY <1>7
    <2>3. outputs[k] \in ToSet(outputs)  BY <1>7 DEF ToSet
    <2>4. outputs[k] # Dynamic  BY <1>1, <2>3
    <2>5. QED  BY <2>1, <2>2, <2>4
  <1>11. DOMAIN inputs = 1..m /\ DOMAIN outputs = 1..n  BY <1>7
  <1> HIDE DEF inputs, outputs
  <1>12. ToSet(inputs \o outputs) = ToSet(inputs) \cup ToSet(outputs)
         BY <1>8, BothLists
  <1>13. \A w \in ToSet(inputs) \cup ToSet(outputs) : w >= 1
         BY <1>9, <1>10, <1>11 DEF ToSet
  <1>14. QED  BY <1>1, <1>12, <1>13

LEMMA CompiledInit == Init => CompiledInv
  <1> SUFFICES ASSUME Init  PROVE CompiledInv  OBVIOUS
  <1>1. run = 0 /\ dialog = [b \in Block |-> Dialogs(b)[1]] /\ model \in DOMAIN Models
        BY DEF Init
  <1> DEFINE S == Seq(Matrices)
  <1>2. \A b \in Block : Dialogs(b) \in Seq(S) /\ Dialogs(b) # <<>>
        BY <1>1, BlockFacts
  <1> HIDE DEF S
  <1>3. \A b \in Block : Dialogs(b)[1] \in S  BY <1>2
  <1>4. dialog \in [Block -> S]  BY <1>1, <1>3
  <1>5. QED  BY <1>1, <1>4 DEF CompiledInv, S

LEMMA CompiledFrame ==
    ASSUME CompiledInv, UNCHANGED <<model, dialog, run, compiled>>
    PROVE  CompiledInv'
  <1>1. Block' = Block /\ \A b : Type(b)' = Type(b)  BY DEF Block, Type
  <1>2. QED  BY <1>1 DEF CompiledInv, compiled

LEMMA CompiledStep ==
    ASSUME Phases, CompiledInv, [Next]_vars
    PROVE  CompiledInv'
  <1>1. \A b \in Block : Type(b) \in Types  BY BlockFacts, TypesOfTables DEF Phases
  <1>2. ASSUME NEW b \in Block, NEW d \in ToSet(Dialogs(b))  PROVE d \in Seq(Matrices)
    <2> DEFINE S == Seq(Matrices)
    <2>1. Dialogs(b) \in Seq(S)  BY BlockFacts DEF Phases
    <2> HIDE DEF S
    <2>2. d \in S  BY <2>1, SequenceOfItself DEF ToSet
    <2>3. QED  BY <2>2 DEF S
  <1>3. ASSUME NEW b \in Block, NEW d \in ToSet(Dialogs(b)), Edit(b, d)
        PROVE  CompiledInv'
    <2>1. /\ dialog' = [dialog EXCEPT ![b] = d] /\ UNCHANGED <<model, run, compiled>>
          BY <1>3 DEF Edit
    <2>2. dialog' \in [Block -> Seq(Matrices)]  BY <1>2, <2>1 DEF CompiledInv
    <2>3. Block' = Block /\ \A c : Type(c)' = Type(c)  BY <2>1 DEF Block, Type
    <2>4. QED  BY <2>1, <2>2, <2>3 DEF CompiledInv, compiled
  <1>4. ASSUME NEW b \in Block, NEW d \in ToSet(Dialogs(b)), Tune(b, d)
        PROVE  CompiledInv'
    <2>1. /\ dialog' = [dialog EXCEPT ![b] = d] /\ phase = "running"
          /\ runtime' = [runtime EXCEPT ![b] = mdlProcessParameters(Type(b), d, @)]
          /\ UNCHANGED <<model, run, widths, sampleTime>>
          BY <1>4 DEF Tune
    <2>2. dialog' \in [Block -> Seq(Matrices)]  BY <1>2, <2>1 DEF CompiledInv
    <2>3. Block' = Block /\ \A c : Type(c)' = Type(c)  BY <2>1 DEF Block, Type
    <2>4. run > 0 /\ runtime = [c \in Block |-> runtime[c]]
          /\ Len(runtime[b]) = CallsOf[Type(b)].runtime
          BY <2>1 DEF Phases, CompiledInv
    <2>5. /\ runtime' = [c \in Block |-> runtime'[c]]
          /\ \A c \in Block : c # b => runtime'[c] = runtime[c]
          /\ runtime'[b] = mdlProcessParameters(Type(b), d, runtime[b])
          BY <2>1, <2>4
    <2>6. Len(runtime'[b]) = Len(runtime[b])
          BY <2>5 DEF mdlProcessParameters
    <2>7. QED  BY <2>1, <2>2, <2>3, <2>4, <2>5, <2>6 DEF CompiledInv
  <1>5. ASSUME NEW connected \in Connected, Compile(connected)  PROVE CompiledInv'
    <2>1. /\ UNCHANGED <<model, dialog>>
          /\ \A b \in Block :
                /\ mdlInitializeSizes(Type(b), dialog[b])
                /\ Dynamic \notin ToSet(widths'[b].outputs)
          /\ widths' = [b \in Block |-> PortWidths(b, connected)]
          /\ sampleTime' = [b \in Block |-> mdlInitializeSampleTimes(Type(b), dialog[b])]
          /\ runtime' = [b \in Block |-> mdlSetWorkWidths(Type(b), dialog[b])]
          BY <1>5 DEF Compile
    <2>2. Block' = Block /\ \A b : Type(b)' = Type(b)  BY <2>1 DEF Block, Type
    <2>3. ASSUME NEW b \in Block
          PROVE  /\ \A w \in ToSet(widths'[b].inputs \o widths'[b].outputs) : w >= 1
                 /\ Regular(sampleTime'[b])
                 /\ Len(runtime'[b]) = CallsOf[Type(b)].runtime
      <3>1. \A w \in ToSet(widths'[b].inputs \o widths'[b].outputs) : w >= 1
        <4>1. widths'[b] = PortWidths(b, connected)  BY <2>1
        <4>2. QED  BY <1>1, <2>1, <4>1, PositiveWidths
      <3>2. Regular(sampleTime'[b])
        <4>1. dialog[b] \in Seq(Matrices)  BY DEF CompiledInv
        <4>2. QED  BY <1>1, <2>1, <4>1, SampleTimes
      <3>3. Len(runtime'[b]) = CallsOf[Type(b)].runtime
        <4> DEFINE n == CallsOf[Type(b)].runtime
                   list == mdlSetWorkWidths(Type(b), dialog[b])
        <4>1. n \in Nat  BY <1>1, RuntimeParameters
        <4>2. list = [i \in 1..n |-> dialog[b][i].elements]  BY DEF mdlSetWorkWidths
        <4>3. runtime'[b] = list  BY <2>1
        <4> HIDE DEF n, list
        <4>4. Len(list) = n  BY <4>1, <4>2
        <4>5. QED  BY <4>3, <4>4 DEF n
      <3>4. QED  BY <3>1, <3>2, <3>3
    <2>4. runtime' = [b \in Block |-> runtime'[b]]  BY <2>1
    <2>5. dialog' \in [Block -> Seq(Matrices)]  BY <2>1 DEF CompiledInv
    <2>6. QED  BY <2>2, <2>3, <2>4, <2>5 DEF CompiledInv
  <1>6. CASE CompileFails \/ Tick \/ End \/ UNCHANGED vars
        BY <1>6, CompiledFrame DEF CompileFails, Tick, End, vars
  <1>7. CASE Start \/ Terminate
        BY <1>7, CompiledFrame DEF Start, Terminate
  <1>8. ASSUME NEW b \in Block, Step(b)  PROVE CompiledInv'
        BY <1>8, CompiledFrame DEF Step
  <1>9. QED  BY <1>3, <1>4, <1>5, <1>6, <1>7, <1>8 DEF Next

-----------------------------------------------------------------------------
(* The widths of the ports                                                 *)

\* The parameters of a block that stay as they are during a simulation.
Kept(type) == SizesOf[type].fixed \cap DOMAIN DialogOf[type]

\* A width is a number, a parameter or a product of two, of those that stay.
IsPort(type, port) ==
    \/ \E n \in Int : port = Fixed(n)
    \/ \E i \in Kept(type) : port = Given(<<i>>)
    \/ \E i, j \in Kept(type) : port = Given(<<i, j>>)

LEMMA WidthOfFixed ==
    ASSUME NEW n \in Int, NEW d
    PROVE  Width(Fixed(n), d) = n
  <1>1. Fixed(n).factor = n /\ Fixed(n).parameters = <<>>  BY DEF Fixed
  <1>2. 1 \notin DOMAIN <<>> /\ 2 \notin DOMAIN <<>>  OBVIOUS
  <1>3. QED  BY <1>1, <1>2 DEF Width

LEMMA WidthOfGiven ==
    ASSUME NEW d, NEW i, d[i].elements[1] \in Int
    PROVE  Width(Given(<<i>>), d) = d[i].elements[1]
  <1>1. Given(<<i>>).factor = 1 /\ Given(<<i>>).parameters = <<i>>  BY DEF Given
  <1>2. 1 \in DOMAIN <<i>> /\ 2 \notin DOMAIN <<i>> /\ <<i>>[1] = i  OBVIOUS
  <1>3. QED  BY <1>1, <1>2 DEF Width

LEMMA WidthOfProduct ==
    ASSUME NEW d, NEW i, NEW j, d[i].elements[1] \in Int, d[j].elements[1] \in Int
    PROVE  Width(Given(<<i, j>>), d) = d[i].elements[1] * d[j].elements[1]
  <1>1. Given(<<i, j>>).factor = 1 /\ Given(<<i, j>>).parameters = <<i, j>>
        BY DEF Given
  <1>2. 1 \in DOMAIN <<i, j>> /\ 2 \in DOMAIN <<i, j>>
        /\ <<i, j>>[1] = i /\ <<i, j>>[2] = j
        OBVIOUS
  <1>3. QED  BY <1>1, <1>2 DEF Width

LEMMA WidthStays ==
    ASSUME NEW type, NEW port, IsPort(type, port), NEW d, NEW e,
           \A i \in Kept(type) : d[i] = e[i]
    PROVE  Width(port, d) = Width(port, e)
  <1>1. ASSUME NEW n \in Int, port = Fixed(n)  PROVE Width(port, d) = Width(port, e)
        BY <1>1, WidthOfFixed
  <1>2. ASSUME NEW i \in Kept(type), port = Given(<<i>>)
        PROVE  Width(port, d) = Width(port, e)
    <2>1. port.factor = 1 /\ port.parameters = <<i>>  BY <1>2 DEF Given
    <2>2. 2 \notin DOMAIN <<i>> /\ <<i>>[1] = i  OBVIOUS
    <2>3. QED  BY <2>1, <2>2 DEF Width
  <1>3. ASSUME NEW i \in Kept(type), NEW j \in Kept(type), port = Given(<<i, j>>)
        PROVE  Width(port, d) = Width(port, e)
    <2>1. port.factor = 1 /\ port.parameters = <<i, j>>  BY <1>3 DEF Given
    <2>2. <<i, j>>[1] = i /\ <<i, j>>[2] = j  OBVIOUS
    <2>3. QED  BY <2>1, <2>2 DEF Width
  <1>4. QED  BY <1>1, <1>2, <1>3 DEF IsPort

\* The ports of every S-function are such.
LEMMA PortsOfTables ==
    ASSUME NEW type \in Types
    PROVE  \A port \in ToSet(SizesOf[type].inputs) \cup ToSet(SizesOf[type].outputs) :
                IsPort(type, port)
  <1> DEFINE good(s) == \A port \in ToSet(s) : IsPort(type, port)
  <1>1. \A n \in Int : IsPort(type, Fixed(n))  BY DEF IsPort
  <1>2. good(<<>>)  BY DEF ToSet
  <1>3. \A n \in Nat : good(Ports(n))  BY <1>1 DEF ToSet, Ports
  <1>4. CASE type = "UDPSocket"
    <2>1. SizesOf[type] = UDPSocketSizes  BY <1>4 DEF SizesOf
    <2>2. 12 \in Kept(type)
          BY <1>4, <2>1 DEF Kept, DialogOf, UDPSocketSizes, UDPSocketDialog, Dialog
    <2>3. IsPort(type, Given(<<12>>))  BY <2>2 DEF IsPort
    <2>4. 4 \in Int /\ 1 \in Int /\ Dynamic \in Int  BY DEF Dynamic
    <2>5. good(<<Fixed(4), Fixed(1), Fixed(Dynamic), Fixed(1), Fixed(Dynamic), Fixed(1)>>)
          BY <1>1, <2>4 DEF ToSet
    <2>6. good(<<Given(<<12>>), Fixed(4), Fixed(1), Fixed(1), Fixed(1)>>)
          BY <1>1, <2>3, <2>4 DEF ToSet
    <2>7. QED  BY <2>1, <2>5, <2>6 DEF UDPSocketSizes
  <1>5. CASE type = "TCPClientSocket"
    <2>1. SizesOf[type] = TCPClientSocketSizes  BY <1>5 DEF SizesOf
    <2>2. 6 \in Kept(type)
          BY <1>5, <2>1 DEF Kept, DialogOf, TCPClientSocketSizes, TCPClientSocketDialog, Dialog
    <2>3. IsPort(type, Given(<<6>>))  BY <2>2 DEF IsPort
    <2>4. 4 \in Int /\ 1 \in Int /\ Dynamic \in Int  BY DEF Dynamic
    <2>5. good(<<Fixed(4), Fixed(1), Fixed(Dynamic), Fixed(1)>>)  BY <1>1, <2>4 DEF ToSet
    <2>6. good(<<Given(<<6>>), Fixed(1), Fixed(1), Fixed(1)>>)
          BY <1>1, <2>3, <2>4 DEF ToSet
    <2>7. QED  BY <2>1, <2>5, <2>6 DEF TCPClientSocketSizes
  <1>6. CASE type = "DataRecorder"
    <2>1. SizesOf[type] = DataRecorderSizes  BY <1>6 DEF SizesOf
    <2>2. 5 \in Kept(type) /\ 6 \in Kept(type)
          BY <1>6, <2>1 DEF Kept, DialogOf, DataRecorderSizes, DataRecorderDialog, Dialog
    <2>3. IsPort(type, Given(<<5>>)) /\ IsPort(type, Given(<<6>>))  BY <2>2 DEF IsPort
    <2>4. good(<<Fixed(1), Given(<<6>>), Given(<<5>>)>>)  BY <1>1, <2>3 DEF ToSet
    <2>5. QED  BY <1>2, <2>1, <2>4 DEF DataRecorderSizes
  <1>7. CASE type = "ApplicationArguments"
    <2>1. SizesOf[type] = ApplicationArgumentsSizes  BY <1>7 DEF SizesOf
    <2>2. 1 \in Kept(type) /\ 2 \in Kept(type)
          BY <1>7, <2>1
          DEF Kept, DialogOf, ApplicationArgumentsSizes, ApplicationArgumentsDialog, Dialog
    <2>3. IsPort(type, Given(<<1, 2>>)) /\ IsPort(type, Given(<<2>>))
          BY <2>2 DEF IsPort
    <2>4. good(<<Given(<<1, 2>>), Given(<<2>>), Fixed(1)>>)  BY <1>1, <2>3 DEF ToSet
    <2>5. QED  BY <1>2, <2>1, <2>4 DEF ApplicationArgumentsSizes
  <1>8. CASE type = "ReadThermalZones"
    <2>1. SizesOf[type] = ReadThermalZonesSizes  BY <1>8 DEF SizesOf
    <2>2. 1 \in Kept(type)
          BY <1>8, <2>1
          DEF Kept, DialogOf, ReadThermalZonesSizes, ReadThermalZonesDialog, Dialog
    <2>3. IsPort(type, Given(<<1>>))  BY <2>2 DEF IsPort
    <2>4. good(<<Given(<<1>>)>>)  BY <2>3 DEF ToSet
    <2>5. QED  BY <1>2, <2>1, <2>4 DEF ReadThermalZonesSizes
  <1>9. CASE type \in {"NumTaskOverloads", "TaskExecutionTime", "StopExecution",
                       "NumCPUOverloads", "ModelExecutionTime", "UnixTime",
                       "UTCTimestamp", "UTCTime", "LocalTime"}
    <2>1. \E m \in {0, 1}, n \in {0, 1, 2, 10} :
            /\ SizesOf[type].inputs = IF m = 0 THEN <<>> ELSE Ports(m)
            /\ SizesOf[type].outputs = IF n = 0 THEN <<>> ELSE Ports(n)
          BY <1>9 DEF SizesOf, NumTaskOverloadsSizes, TaskExecutionTimeSizes,
             StopExecutionSizes, NumCPUOverloadsSizes, ModelExecutionTimeSizes,
             UnixTimeSizes, UTCTimestampSizes, UTCTimeSizes, LocalTimeSizes
    <2> HIDE DEF good
    <2>2. \A n \in {1, 2, 10} : good(Ports(n))  BY <1>3
    <2>3. good(SizesOf[type].inputs) /\ good(SizesOf[type].outputs)
          BY <1>2, <2>1, <2>2
    <2>4. QED  BY <2>3 DEF good
  <1>10. QED  BY <1>4, <1>5, <1>6, <1>7, <1>8, <1>9 DEF Types

\* Run-time parameters are the first of the dialog.
LEMMA RuntimeInDialog ==
    ASSUME NEW type \in Types
    PROVE  1..CallsOf[type].runtime \subseteq DOMAIN DialogOf[type]
  <1>1. \A n, vectors, quads, numbers : DOMAIN Dialog(n, vectors, quads, numbers) = 1..n
        BY DEF Dialog
  <1>2. ASSUME NEW m \in Nat, NEW n \in Nat, m <= n, NEW vectors, NEW quads, NEW numbers,
               CallsOf[type].runtime = m,
               DialogOf[type] = Dialog(n, vectors, quads, numbers)
        PROVE  1..CallsOf[type].runtime \subseteq DOMAIN DialogOf[type]
        BY <1>1, <1>2
  <1>3. CASE type = "UDPSocket"
    <2>1. CallsOf[type].runtime = 12 /\ DialogOf[type] = Dialog(13, {2}, {10}, {12})
          BY <1>3 DEF CallsOf, DialogOf, UDPSocketCalls, UDPSocketDialog
    <2>2. QED  BY <1>2, <2>1
  <1>4. CASE type = "TCPClientSocket"
    <2>1. CallsOf[type].runtime = 7 /\ DialogOf[type] = Dialog(8, {2}, {}, {6})
          BY <1>4 DEF CallsOf, DialogOf, TCPClientSocketCalls, TCPClientSocketDialog
    <2>2. QED  BY <1>2, <2>1
  <1>5. CASE type = "DataRecorder"
    <2>1. CallsOf[type].runtime = 14 /\ DialogOf[type] = Dialog(15, {2, 7, 9, 11}, {}, {5, 6})
          BY <1>5 DEF CallsOf, DialogOf, DataRecorderCalls, DataRecorderDialog
    <2>2. QED  BY <1>2, <2>1
  <1>6. CASE type = "ApplicationArguments"
    <2>1. CallsOf[type].runtime = 2 /\ DialogOf[type] = Dialog(3, {}, {}, {1, 2})
          BY <1>6 DEF CallsOf, DialogOf, ApplicationArgumentsCalls, ApplicationArgumentsDialog
    <2>2. QED  BY <1>2, <2>1
  <1>7. CASE type = "ReadThermalZones"
    <2>1. CallsOf[type].runtime = 1 /\ DialogOf[type] = Dialog(2, {}, {}, {1})
          BY <1>7 DEF CallsOf, DialogOf, ReadThermalZonesCalls, ReadThermalZonesDialog
    <2>2. QED  BY <1>2, <2>1
  <1>8. CASE type = "NumTaskOverloads"
    <2>1. CallsOf[type].runtime = 2 /\ DialogOf[type] = Dialog(3, {1}, {}, {})
          BY <1>8 DEF CallsOf, DialogOf, NumTaskOverloadsCalls, NumTaskOverloadsDialog
    <2>2. QED  BY <1>2, <2>1
  <1>9. CASE type = "TaskExecutionTime"
    <2>1. CallsOf[type].runtime = 2 /\ DialogOf[type] = Dialog(3, {1}, {}, {})
          BY <1>9 DEF CallsOf, DialogOf, TaskExecutionTimeCalls, TaskExecutionTimeDialog
    <2>2. QED  BY <1>2, <2>1
  <1>10. CASE type \in {"StopExecution", "NumCPUOverloads", "ModelExecutionTime", "UnixTime",
                       "UTCTimestamp", "UTCTime", "LocalTime"}
    <2>1. CallsOf[type].runtime = 0 /\ DialogOf[type] = OnlySampleTime
          BY <1>10 DEF CallsOf, DialogOf, StopExecutionCalls, NumCPUOverloadsCalls,
             ModelExecutionTimeCalls, UnixTimeCalls, UTCTimestampCalls, UTCTimeCalls,
             LocalTimeCalls, StopExecutionDialog, NumCPUOverloadsDialog,
             ModelExecutionTimeDialog, UnixTimeDialog, UTCTimestampDialog,
             UTCTimeDialog, LocalTimeDialog
    <2>2. QED  BY <1>2, <2>1 DEF OnlySampleTime
  <1>11. QED  BY <1>3, <1>4, <1>5, <1>6, <1>7, <1>8, <1>9, <1>10 DEF Types

-----------------------------------------------------------------------------
(* The ports and the parameters while a model runs                         *)

LEMMA PortWidthsStay ==
    ASSUME UNCHANGED model, NEW b, Type(b) \in Types, NEW connected,
           \A i \in Kept(Type(b)) : dialog'[b][i] = dialog[b][i]
    PROVE  PortWidths(b, connected)' = PortWidths(b, connected)
  <1> DEFINE ins == SizesOf[Type(b)].inputs
             outs == SizesOf[Type(b)].outputs
  <1>1. Type(b)' = Type(b)  BY DEF Type
  <1>2. \A port \in ToSet(ins) \cup ToSet(outs) :
            Width(port, dialog'[b]) = Width(port, dialog[b])
        BY PortsOfTables, WidthStays
  <1>3. /\ \A k \in DOMAIN ins : ins[k] \in ToSet(ins)
        /\ \A k \in DOMAIN outs : outs[k] \in ToSet(outs)
        BY DEF ToSet
  <1>4. /\ \A k \in DOMAIN ins : mdlSetPortDimensionInfo(ins[k], dialog'[b], connected)
                                = mdlSetPortDimensionInfo(ins[k], dialog[b], connected)
        /\ \A k \in DOMAIN outs : mdlSetPortDimensionInfo(outs[k], dialog'[b], connected)
                                = mdlSetPortDimensionInfo(outs[k], dialog[b], connected)
        BY <1>2, <1>3 DEF mdlSetPortDimensionInfo
  <1>5. QED  BY <1>1, <1>4 DEF PortWidths

LEMMA PortsInit == Init => PortsInv
  <1> SUFFICES ASSUME Init  PROVE PortsInv  OBVIOUS
  <1>1. phase = "design" /\ dialog = [b \in Block |-> Dialogs(b)[1]]
        /\ model \in DOMAIN Models
        BY DEF Init
  <1>2. \A b \in Block : Dialogs(b)[1] \in ToSet(Dialogs(b))
    <2> DEFINE S == Seq(Matrices)
    <2>1. \A b \in Block : Dialogs(b) \in Seq(S) /\ Dialogs(b) # <<>>
          BY <1>1, BlockFacts
    <2> HIDE DEF S
    <2>2. \A b \in Block : 1 \in DOMAIN Dialogs(b)  BY <2>1
    <2>3. QED  BY <2>2 DEF ToSet
  <1>3. QED  BY <1>1, <1>2 DEF PortsInv

LEMMA PortsFrame ==
    ASSUME PortsInv, UNCHANGED <<model, dialog, widths, runtime>>,
           phase' # "design" => phase # "design"
    PROVE  PortsInv'
  <1>1. /\ Block' = Block
        /\ \A b : Type(b)' = Type(b) /\ Dialogs(b)' = Dialogs(b)
        /\ \A b, connected : PortWidths(b, connected)' = PortWidths(b, connected)
        BY DEF Block, Type, Dialogs, PortWidths
  <1>2. QED  BY <1>1 DEF PortsInv

\* Tuning changes none of the parameters that the ports depend on.
LEMMA PortsTune ==
    ASSUME Phases, CompiledInv, PortsInv,
           NEW a \in Block, NEW d \in ToSet(Dialogs(a)), Tune(a, d)
    PROVE  PortsInv'
  <1>1. /\ phase = "running" /\ Len(d) = Len(dialog[a]) /\ dialog[a] \in Seq(Matrices)
        /\ \A i \in DOMAIN d : i \in SizesOf[Type(a)].fixed => d[i] = dialog[a][i]
        /\ mdlCheckParameters(Type(a), d)
        /\ dialog' = [dialog EXCEPT ![a] = d]
        /\ runtime' = [runtime EXCEPT ![a] = mdlProcessParameters(Type(a), d, @)]
        /\ UNCHANGED <<model, phase, widths>>
        /\ dialog = [b \in Block |-> dialog[b]] /\ runtime = [b \in Block |-> runtime[b]]
        BY DEF Tune, CompiledInv, Phases
  <1>2. d \in Seq(Matrices)
    <2> DEFINE S == Seq(Matrices)
    <2>1. Dialogs(a) \in Seq(S)  BY BlockFacts DEF Phases
    <2> HIDE DEF S
    <2>2. d \in S  BY <2>1, SequenceOfItself DEF ToSet
    <2>3. QED  BY <2>2 DEF S
  <1>3. /\ Block' = Block
        /\ \A b : Type(b)' = Type(b) /\ Dialogs(b)' = Dialogs(b)
        /\ \A b \in Block : Type(b) \in Types
        BY <1>1, BlockFacts, TypesOfTables DEF Block, Type, Dialogs, Phases
  <1>4. /\ \A b \in Block : b # a => dialog'[b] = dialog[b] /\ runtime'[b] = runtime[b]
        /\ dialog'[a] = d
        /\ runtime'[a] = mdlProcessParameters(Type(a), d, runtime[a])
        BY <1>1
  <1>5. /\ mdlInitializeSizes(Type(a), dialog[a])
        /\ runtime[a] = mdlSetWorkWidths(Type(a), dialog[a])
        BY <1>1 DEF PortsInv
  <1>6. DOMAIN DialogOf[Type(a)] = DOMAIN d
    <2> DEFINE M == Matrices
    <2> HIDE DEF M
    <2>1. PICK n \in Nat \ {0} :
            Len(DialogOf[Type(a)]) = n /\ DOMAIN DialogOf[Type(a)] = 1..n
          BY <1>3, DialogsEnd
    <2>2. Len(d) = n  BY <1>1, <1>5, <2>1 DEF mdlInitializeSizes
    <2>3. d \in Seq(M)  BY <1>2 DEF M
    <2>4. DOMAIN d = 1..Len(d)  BY <2>3
    <2>5. QED  BY <2>1, <2>2, <2>4
  <1>7. \A i \in Kept(Type(a)) : d[i] = dialog[a][i]  BY <1>1, <1>6 DEF Kept
  <1>8. mdlInitializeSizes(Type(a), d)
    <2>1. \A port \in ToSet(SizesOf[Type(a)].inputs) \cup ToSet(SizesOf[Type(a)].outputs) :
              Width(port, d) = Width(port, dialog[a])
          BY <1>3, <1>7, PortsOfTables, WidthStays
    <2>2. ToSet(SizesOf[Type(a)].inputs \o SizesOf[Type(a)].outputs)
            = ToSet(SizesOf[Type(a)].inputs) \cup ToSet(SizesOf[Type(a)].outputs)
          BY <1>3, PortLists, BothLists
    <2>3. QED  BY <1>1, <1>5, <2>1, <2>2 DEF mdlInitializeSizes
  <1>9. runtime'[a] = mdlSetWorkWidths(Type(a), d)
    <2> DEFINE n == CallsOf[Type(a)].runtime
    <2>1. runtime[a] = [i \in 1..n |-> dialog[a][i].elements]
          BY <1>5 DEF mdlSetWorkWidths
    <2>2. runtime'[a] = [i \in 1..n |->
                IF i \in SizesOf[Type(a)].fixed THEN dialog[a][i].elements
                                                ELSE d[i].elements]
          BY <1>4, <2>1 DEF mdlProcessParameters
    <2>3. \A i \in 1..n : i \in SizesOf[Type(a)].fixed => dialog[a][i] = d[i]
          BY <1>3, <1>7, RuntimeInDialog DEF Kept
    <2> HIDE DEF n
    <2>4. runtime'[a] = [i \in 1..n |-> d[i].elements]  BY <2>2, <2>3
    <2>5. QED  BY <2>4 DEF mdlSetWorkWidths, n
  <1>10. ASSUME NEW b \in Block
         PROVE  /\ dialog'[b] \in ToSet(Dialogs(b))
                /\ mdlInitializeSizes(Type(b), dialog'[b])
                /\ runtime'[b] = mdlSetWorkWidths(Type(b), dialog'[b])
                /\ \E connected \in Connected : widths'[b] = PortWidths(b, connected)'
                /\ Dynamic \notin ToSet(widths'[b].outputs)
    <2>1. PICK connected \in Connected : widths[b] = PortWidths(b, connected)
          BY <1>1 DEF PortsInv
    <2>2. \A i \in Kept(Type(b)) : dialog'[b][i] = dialog[b][i]  BY <1>4, <1>7
    <2>3. PortWidths(b, connected)' = PortWidths(b, connected)
          BY <1>1, <1>3, <2>2, PortWidthsStay
    <2>4. /\ widths'[b] = PortWidths(b, connected)'
          /\ Dynamic \notin ToSet(widths'[b].outputs)
          BY <1>1, <2>1, <2>3 DEF PortsInv
    <2>5. CASE b = a  BY <1>4, <1>8, <1>9, <2>4, <2>5
    <2>6. CASE b # a  BY <1>1, <1>4, <2>4, <2>6 DEF PortsInv
    <2>7. QED  BY <2>5, <2>6
  <1>11. QED  BY <1>3, <1>10 DEF PortsInv

LEMMA PortsStep ==
    ASSUME Phases, CompiledInv, PortsInv, [Next]_vars
    PROVE  PortsInv'
  <1>1. ASSUME NEW a \in Block, NEW d \in ToSet(Dialogs(a)), Edit(a, d)
        PROVE  PortsInv'
    <2>1. /\ dialog' = [dialog EXCEPT ![a] = d] /\ UNCHANGED <<model, phase>>
          /\ phase = "design" /\ dialog = [b \in Block |-> dialog[b]]
          BY <1>1 DEF Edit, CompiledInv
    <2>2. Block' = Block /\ \A b : Dialogs(b)' = Dialogs(b)  BY <2>1 DEF Block, Dialogs
    <2>3. \A b \in Block : dialog'[b] \in ToSet(Dialogs(b))  BY <2>1 DEF PortsInv
    <2>4. QED  BY <2>1, <2>2, <2>3 DEF PortsInv
  <1>2. ASSUME NEW connected \in Connected, Compile(connected)  PROVE PortsInv'
    <2>1. /\ UNCHANGED <<model, dialog>>
          /\ \A b \in Block : mdlInitializeSizes(Type(b), dialog[b])
          /\ \A b \in Block : Dynamic \notin ToSet(widths'[b].outputs)
          /\ widths' = [b \in Block |-> PortWidths(b, connected)]
          /\ runtime' = [b \in Block |-> mdlSetWorkWidths(Type(b), dialog[b])]
          BY <1>2 DEF Compile
    <2>2. /\ Block' = Block
          /\ \A b : /\ Type(b)' = Type(b) /\ Dialogs(b)' = Dialogs(b)
                    /\ PortWidths(b, connected)' = PortWidths(b, connected)
          BY <2>1 DEF Block, Type, Dialogs, PortWidths
    <2>3. QED  BY <2>1, <2>2 DEF PortsInv
  <1>3. CASE CompileFails \/ Tick \/ End \/ UNCHANGED vars
        BY <1>3, PortsFrame DEF CompileFails, Tick, End, vars, compiled
  <1>4. CASE Start
        BY <1>4, PortsFrame DEF Start, Advance, compiled
  <1>5. CASE Terminate
        BY <1>5, PortsFrame DEF Terminate, compiled
  <1>6. ASSUME NEW b \in Block, Step(b)  PROVE PortsInv'
        BY <1>6, PortsFrame DEF Step, compiled
  <1>7. QED  BY <1>1, <1>2, <1>3, <1>4, <1>5, <1>6, PortsTune DEF Next

-----------------------------------------------------------------------------
(* What the driver steps reach                                             *)

\* What is known of a block whose driver steps.
LEMMA DialogOfBlock ==
    ASSUME Phases, CompiledInv, PortsInv, phase = "running",
           NEW b \in Block, NEW d, d = dialog[b]
    PROVE  /\ Type(b) \in Types /\ mdlInitializeSizes(Type(b), d)
           /\ MaskPasses(Type(b), d) /\ DOMAIN d = DOMAIN DialogOf[Type(b)]
           /\ \A i \in DOMAIN d : d[i].elements \in Seq(Int)
           /\ \A i \in DOMAIN d : DialogOf[Type(b)][i] \in {"scalar", "number"} =>
                d[i].elements # <<>> /\ d[i].elements[1] \in Int
           /\ \A i \in 1..CallsOf[Type(b)].runtime :
                i \in DOMAIN d /\ Parameter(b, i) = d[i].elements
  <1>1. Type(b) \in Types  BY BlockFacts, TypesOfTables DEF Phases
  <1>2. /\ mdlInitializeSizes(Type(b), d) /\ d \in ToSet(Dialogs(b))
        /\ runtime[b] = mdlSetWorkWidths(Type(b), d)
        BY DEF PortsInv
  <1>3. MaskPasses(Type(b), d)
    <2> DEFINE block == Models[model][b]
    <2>1. block \in ToSet(Models[model])  BY DEF Block, ToSet
    <2>2. d \in ToSet(block.dialogs)  BY <1>2 DEF Dialogs
    <2>3. MaskPasses(block.type, d)
      <3> HIDE DEF block
      <3>1. model \in DOMAIN Models  BY DEF Phases
      <3>2. QED  BY <2>1, <2>2, <3>1, BlockConstants
    <2>4. QED  BY <2>3 DEF Type
  <1>4. d \in Seq(Matrices)  BY DEF CompiledInv
  <1> DEFINE M == Matrices
  <1>5. d \in Seq(M)  BY <1>4
  <1>6. \A v \in M : /\ v.elements \in Seq(Int) /\ v.rows \in Nat /\ v.columns \in Nat
                     /\ Len(v.elements) = v.rows * v.columns
        BY DEF Matrices
  <1> HIDE DEF M
  <1>7. DOMAIN d = DOMAIN DialogOf[Type(b)]
    <2>1. PICK n \in Nat \ {0} :
            Len(DialogOf[Type(b)]) = n /\ DOMAIN DialogOf[Type(b)] = 1..n
          BY <1>1, DialogsEnd
    <2>2. Len(d) = n  BY <1>2, <2>1 DEF mdlInitializeSizes
    <2>3. DOMAIN d = 1..Len(d)  BY <1>5
    <2>4. QED  BY <2>1, <2>2, <2>3
  <1>8. \A i \in DOMAIN d : d[i] \in M  BY <1>5
  <1>9. \A i \in DOMAIN d : d[i].elements \in Seq(Int)  BY <1>6, <1>8
  <1>10. ASSUME NEW i \in DOMAIN d, DialogOf[Type(b)][i] \in {"scalar", "number"}
         PROVE  d[i].elements # <<>> /\ d[i].elements[1] \in Int
    <2>1. Acceptable(DialogOf[Type(b)][i], d[i])
          BY <1>2, <1>7 DEF mdlInitializeSizes, mdlCheckParameters
    <2>2. IsScalar(d[i])  BY <1>10, <2>1 DEF Acceptable
    <2> DEFINE s == d[i].elements
    <2>3. d[i].rows = 1 /\ d[i].columns = 1 /\ Len(s) = d[i].rows * d[i].columns
          BY <1>6, <1>8, <2>2 DEF IsScalar
    <2>4. s \in Seq(Int)  BY <1>9
    <2> HIDE DEF s
    <2>5. Len(s) = 1 * 1  BY <2>3
    <2>6. Len(s) = 1  BY <2>5
    <2>7. s # <<>>
      <3>1. Len(<<>>) = 0  OBVIOUS
      <3>2. QED  BY <2>6, <3>1
    <2>8. 1 \in 1..Len(s)  BY <2>6
    <2>9. s[1] \in Int  BY <2>4, <2>8
    <2>10. QED  BY <2>7, <2>9 DEF s
  <1>11. ASSUME NEW i \in 1..CallsOf[Type(b)].runtime
         PROVE  i \in DOMAIN d /\ Parameter(b, i) = d[i].elements
         BY <1>1, <1>2, <1>7, RuntimeInDialog DEF Parameter, mdlSetWorkWidths
  <1>12. QED  BY <1>1, <1>2, <1>3, <1>7, <1>9, <1>10, <1>11

\* No port is narrower than mdlInitializeSizes has declared it.
LEMMA PortsAreWide ==
    ASSUME PortsInv, phase = "running", NEW b \in Block, Type(b) \in Types
    PROVE  /\ \A k \in DOMAIN SizesOf[Type(b)].inputs :
                Width(SizesOf[Type(b)].inputs[k], dialog[b]) \in Int =>
                    /\ widths[b].inputs[k] \in Nat
                    /\ Width(SizesOf[Type(b)].inputs[k], dialog[b]) <= widths[b].inputs[k]
           /\ DOMAIN widths[b].outputs = DOMAIN SizesOf[Type(b)].outputs
           /\ \A k \in DOMAIN SizesOf[Type(b)].outputs :
                Width(SizesOf[Type(b)].outputs[k], dialog[b]) \in Int =>
                    /\ widths[b].outputs[k] \in Nat
                    /\ Width(SizesOf[Type(b)].outputs[k], dialog[b]) <= widths[b].outputs[k]
  <1>1. PICK connected \in Connected : widths[b] = PortWidths(b, connected)
        BY DEF PortsInv
  <1>2. connected \in Int /\ connected >= -1  BY BlockConstants DEF Dynamic
  <1> DEFINE ins == SizesOf[Type(b)].inputs
             outs == SizesOf[Type(b)].outputs
             width(port) == Width(port, dialog[b])
             resolved(port) == mdlSetPortDimensionInfo(port, dialog[b], connected)
  <1>3. \A port \in ToSet(ins) \cup ToSet(outs) : width(port) = Dynamic \/ width(port) >= 1
    <2>1. ToSet(ins \o outs) = ToSet(ins) \cup ToSet(outs)  BY PortLists, BothLists
    <2>2. QED  BY <2>1 DEF PortsInv, mdlInitializeSizes
  <1>4. /\ DOMAIN widths[b].outputs = DOMAIN outs
        /\ \A k \in DOMAIN outs : widths[b].outputs[k] = resolved(outs[k])
        /\ \A k \in DOMAIN ins :
            widths[b].inputs[k] = mdlSetDefaultPortDimensionInfo(resolved(ins[k]))
        BY <1>1 DEF PortWidths
  <1>5. \A port \in ToSet(ins) \cup ToSet(outs) : width(port) \in Int =>
            resolved(port) \in Int /\ resolved(port) >= -1 /\ width(port) <= resolved(port)
        BY <1>2, <1>3 DEF mdlSetPortDimensionInfo, Dynamic
  <1>6. \A w \in Int : w >= -1 =>
            /\ mdlSetDefaultPortDimensionInfo(w) \in Nat
            /\ w <= mdlSetDefaultPortDimensionInfo(w)
        BY DEF mdlSetDefaultPortDimensionInfo, Dynamic
  <1> HIDE DEF ins, outs, resolved, width
  <1>7. ASSUME NEW k \in DOMAIN ins, width(ins[k]) \in Int
        PROVE  widths[b].inputs[k] \in Nat /\ width(ins[k]) <= widths[b].inputs[k]
    <2> DEFINE w == width(ins[k])
               r == resolved(ins[k])
               q == mdlSetDefaultPortDimensionInfo(r)
    <2>1. w \in Int /\ r \in Int /\ r >= -1 /\ w <= r  BY <1>5, <1>7 DEF ToSet
    <2>2. q \in Nat /\ r <= q  BY <1>6, <2>1
    <2>3. widths[b].inputs[k] = q  BY <1>4
    <2> HIDE DEF w, r, q
    <2>4. w <= q  BY <2>1, <2>2
    <2>5. QED  BY <2>2, <2>3, <2>4 DEF w
  <1>8. ASSUME NEW k \in DOMAIN outs, width(outs[k]) \in Int
        PROVE  widths[b].outputs[k] \in Nat /\ width(outs[k]) <= widths[b].outputs[k]
    <2> DEFINE w == width(outs[k])
               r == resolved(outs[k])
    <2>1. w \in Int /\ r \in Int /\ r >= -1 /\ w <= r  BY <1>5, <1>8 DEF ToSet
    <2>2. widths[b].outputs[k] = r  BY <1>4
    <2>3. r # -1  BY <1>4, <2>2 DEF PortsInv, ToSet, Dynamic
    <2> HIDE DEF w, r
    <2>4. r \in Nat  BY <2>1, <2>3
    <2>5. QED  BY <2>1, <2>2, <2>4 DEF w
  <1>9. QED  BY <1>4, <1>7, <1>8 DEF ins, outs, width

\* Arguments of a driver step: their values and how far they reach.
LEMMA Extents ==
    ASSUME NEW b, NEW i
    PROVE  /\ Extent(b, P(i)) = Len(Parameter(b, i))
           /\ Extent(b, U(i)) = widths[b].inputs[i]
           /\ Extent(b, Y(i)) = widths[b].outputs[i]
  BY DEF Extent, P, U, Y

LEMMA ScalarArgument ==
    ASSUME Phases, CompiledInv, PortsInv, phase = "running", NEW b \in Block,
           NEW i \in 1..CallsOf[Type(b)].runtime,
           DialogOf[Type(b)][i] \in {"scalar", "number"},
           NEW k \in DOMAIN CallsOf[Type(b)].outputs, CallsOf[Type(b)].outputs[k] = P(i)
    PROVE  /\ ArgumentValues(b)[k] = dialog[b][i].elements[1]
           /\ Scalar(b, i) = dialog[b][i].elements[1]
           /\ dialog[b][i].elements[1] \in Int
           /\ DialogOf[Type(b)][i] = "number" /\ Type(b) \notin SocketTypes =>
                dialog[b][i].elements[1] \in Nat
  <1> DEFINE d == dialog[b]
  <1>1. /\ Parameter(b, i) = d[i].elements /\ Parameter(b, i) # <<>>
        /\ d[i].elements[1] \in Int
        /\ i \in DOMAIN d \cap DOMAIN DialogOf[Type(b)] /\ MaskPasses(Type(b), d)
        BY DialogOfBlock
  <1>2. Scalar(b, i) = dialog[b][i].elements[1]  BY <1>1 DEF Scalar, Parameter
  <1>3. P(i)[1] = "p" /\ P(i)[2] = i  BY DEF P
  <1>4. DialogOf[Type(b)][i] = "number" /\ Type(b) \notin SocketTypes =>
            d[i].elements[1] \in Nat
        BY <1>1 DEF MaskPasses
  <1>5. QED  BY <1>1, <1>2, <1>3, <1>4 DEF ArgumentValues

LEMMA WidthArgument ==
    ASSUME NEW b, Type(b) \in SocketTypes, NEW i \in {4, 6},
           NEW k \in DOMAIN CallsOf[Type(b)].outputs, CallsOf[Type(b)].outputs[k] = U(i)
    PROVE  ArgumentValues(b)[k] = widths[b].inputs[i - 1]
  <1>1. U(i)[1] = "u" /\ U(i)[2] = i  BY DEF U
  <1>2. QED  BY <1>1 DEF ArgumentValues, InputValue

\* What the steps of a block reach is there.
Covers(b, touched) ==
    touched[2] \in 0..Extent(b, CallsOf[Type(b)].outputs[touched[1]])

\* The device sends and receives with counts that the ports are made for.
LEMMA UDPSocketStays ==
    ASSUME Phases, CompiledInv, PortsInv, phase = "running",
           NEW b \in Block, Type(b) = "UDPSocket",
           NEW touched \in UDPSocketReach(ArgumentValues(b))
    PROVE  Covers(b, touched)
  <1> DEFINE args == CallsOf[Type(b)].outputs
             a == ArgumentValues(b)
             size == dialog[b][12].elements[1]
             ins == widths[b].inputs
             outs == widths[b].outputs
  <1>1. /\ DOMAIN args = 1..14 /\ args[3] = P(12) /\ args[4] = Y(1) /\ args[5] = Y(2)
        /\ args[6] = Y(3) /\ args[7] = Y(4) /\ args[8] = Y(5) /\ args[9] = U(1)
        /\ args[11] = U(3) /\ args[12] = U(4) /\ args[13] = U(5) /\ args[14] = U(6)
        /\ CallsOf[Type(b)].runtime = 12
        BY DEF CallsOf, UDPSocketCalls
  <1>2. DialogOf[Type(b)][12] = "number"  BY DEF DialogOf, UDPSocketDialog, Dialog
  <1>3. a[3] = size /\ size \in Int
    <2>1. 12 \in 1..CallsOf[Type(b)].runtime /\ 3 \in DOMAIN args  BY <1>1
    <2>2. QED  BY <1>1, <1>2, <2>1, ScalarArgument
  <1>4. a[12] = ins[3] /\ a[14] = ins[5]
    <2>1. /\ 12 \in DOMAIN args /\ 14 \in DOMAIN args
          /\ 4 \in {4, 6} /\ 6 \in {4, 6} /\ 4 - 1 = 3 /\ 6 - 1 = 5
          BY <1>1
    <2>2. a[12] = ins[4 - 1]  BY <1>1, <2>1, WidthArgument DEF SocketTypes
    <2>3. a[14] = ins[6 - 1]  BY <1>1, <2>1, WidthArgument DEF SocketTypes
    <2>4. QED  BY <2>1, <2>2, <2>3
  <1>5. SizesOf[Type(b)] = UDPSocketSizes  BY DEF SizesOf
  <1>6. 4 <= ins[1] /\ ins[1] \in Int /\ ins[3] \in Nat /\ ins[5] \in Nat
    <2>1. /\ 1 \in DOMAIN UDPSocketSizes.inputs /\ UDPSocketSizes.inputs[1] = Fixed(4)
          /\ 3 \in DOMAIN UDPSocketSizes.inputs /\ UDPSocketSizes.inputs[3] = Fixed(Dynamic)
          /\ 5 \in DOMAIN UDPSocketSizes.inputs /\ UDPSocketSizes.inputs[5] = Fixed(Dynamic)
          BY DEF UDPSocketSizes
    <2>2. Width(Fixed(4), dialog[b]) = 4 /\ Width(Fixed(Dynamic), dialog[b]) = -1
          BY WidthOfFixed DEF Dynamic
    <2>3. QED  BY <1>5, <2>1, <2>2, PortsAreWide DEF Dynamic, Types
  <1>7. /\ \A k \in 1..5 : outs[k] \in Int
        /\ Receivable(size) <= outs[1] /\ Receivable(size) \in Nat /\ 4 <= outs[2]
        /\ 1 <= outs[3] /\ 1 <= outs[4] /\ 1 <= outs[5]
    <2>1. /\ DOMAIN UDPSocketSizes.outputs = 1..5
          /\ UDPSocketSizes.outputs[1] = Given(<<12>>)
          /\ UDPSocketSizes.outputs[2] = Fixed(4) /\ UDPSocketSizes.outputs[3] = Fixed(1)
          /\ UDPSocketSizes.outputs[4] = Fixed(1) /\ UDPSocketSizes.outputs[5] = Fixed(1)
          BY DEF UDPSocketSizes
    <2>2. Width(Fixed(4), dialog[b]) = 4 /\ Width(Fixed(1), dialog[b]) = 1
          BY WidthOfFixed
    <2>3. Width(Given(<<12>>), dialog[b]) = size  BY <1>3, WidthOfGiven
    <2>4. QED
          BY <1>3, <1>5, <2>1, <2>2, <2>3, PortsAreWide DEF Receivable, Types
  <1>8. touched \in {<<5, 4>>, <<6, 1>>, <<7, 1>>, <<8, 1>>, <<9, 4>>, <<11, a[12]>>,
                     <<4, Receivable(a[3])>>, <<13, a[14]>>}
        BY DEF UDPSocketReach
  <1> HIDE DEF a, size, ins, outs
  <1>9. /\ Extent(b, args[4]) = outs[1] /\ Extent(b, args[5]) = outs[2]
        /\ Extent(b, args[6]) = outs[3] /\ Extent(b, args[7]) = outs[4]
        /\ Extent(b, args[8]) = outs[5] /\ Extent(b, args[9]) = ins[1]
        /\ Extent(b, args[11]) = ins[3] /\ Extent(b, args[13]) = ins[5]
        BY <1>1, Extents DEF ins, outs
  <1> HIDE DEF args
  <1>10. touched[2] \in 0..Extent(b, args[touched[1]])
         BY <1>3, <1>4, <1>6, <1>7, <1>8, <1>9
  <1>11. QED  BY <1>10 DEF Covers, args

LEMMA TCPClientSocketStays ==
    ASSUME Phases, CompiledInv, PortsInv, phase = "running",
           NEW b \in Block, Type(b) = "TCPClientSocket",
           NEW touched \in TCPClientSocketReach(ArgumentValues(b))
    PROVE  Covers(b, touched)
  <1> DEFINE args == CallsOf[Type(b)].outputs
             a == ArgumentValues(b)
             size == dialog[b][6].elements[1]
             ins == widths[b].inputs
             outs == widths[b].outputs
  <1>1. /\ DOMAIN args = 1..12 /\ args[3] = P(6) /\ args[4] = Y(1) /\ args[5] = Y(2)
        /\ args[6] = Y(3) /\ args[7] = Y(4) /\ args[8] = U(1)
        /\ args[11] = U(3) /\ args[12] = U(4)
        /\ CallsOf[Type(b)].runtime = 7
        BY DEF CallsOf, TCPClientSocketCalls
  <1>2. DialogOf[Type(b)][6] = "number"  BY DEF DialogOf, TCPClientSocketDialog, Dialog
  <1>3. a[3] = size /\ size \in Int
    <2>1. 6 \in 1..CallsOf[Type(b)].runtime /\ 3 \in DOMAIN args  BY <1>1
    <2>2. QED  BY <1>1, <1>2, <2>1, ScalarArgument
  <1>4. a[12] = ins[3]
    <2>1. 12 \in DOMAIN args /\ 4 \in {4, 6} /\ 4 - 1 = 3  BY <1>1
    <2>2. a[12] = ins[4 - 1]  BY <1>1, <2>1, WidthArgument DEF SocketTypes
    <2>3. QED  BY <2>1, <2>2
  <1>5. SizesOf[Type(b)] = TCPClientSocketSizes  BY DEF SizesOf
  <1>6. ins[1] \in Int /\ 4 <= ins[1] /\ ins[3] \in Nat
    <2>1. /\ DOMAIN TCPClientSocketSizes.inputs = 1..4
          /\ TCPClientSocketSizes.inputs[1] = Fixed(4)
          /\ TCPClientSocketSizes.inputs[3] = Fixed(Dynamic)
          BY DEF TCPClientSocketSizes
    <2>2. Width(Fixed(4), dialog[b]) = 4 /\ Width(Fixed(Dynamic), dialog[b]) = -1
          BY WidthOfFixed DEF Dynamic
    <2>3. QED  BY <1>5, <2>1, <2>2, PortsAreWide DEF Dynamic, Types
  <1>7. /\ \A k \in 1..4 : outs[k] \in Int
        /\ Receivable(size) <= outs[1] /\ Receivable(size) \in Nat
        /\ 1 <= outs[2] /\ 1 <= outs[3] /\ 1 <= outs[4]
    <2>1. /\ DOMAIN TCPClientSocketSizes.outputs = 1..4
          /\ TCPClientSocketSizes.outputs[1] = Given(<<6>>)
          /\ TCPClientSocketSizes.outputs[2] = Fixed(1)
          /\ TCPClientSocketSizes.outputs[3] = Fixed(1)
          /\ TCPClientSocketSizes.outputs[4] = Fixed(1)
          BY DEF TCPClientSocketSizes
    <2>2. Width(Fixed(1), dialog[b]) = 1  BY WidthOfFixed
    <2>3. Width(Given(<<6>>), dialog[b]) = size  BY <1>3, WidthOfGiven
    <2>4. QED
          BY <1>3, <1>5, <2>1, <2>2, <2>3, PortsAreWide DEF Receivable, Types
  <1>8. touched \in {<<5, 1>>, <<6, 1>>, <<7, 1>>, <<8, 4>>, <<11, a[12]>>,
                     <<4, Receivable(a[3])>>}
        BY DEF TCPClientSocketReach
  <1> HIDE DEF a, size, ins, outs
  <1>9. /\ Extent(b, args[4]) = outs[1] /\ Extent(b, args[5]) = outs[2]
        /\ Extent(b, args[6]) = outs[3] /\ Extent(b, args[7]) = outs[4]
        /\ Extent(b, args[8]) = ins[1] /\ Extent(b, args[11]) = ins[3]
        BY <1>1, Extents DEF ins, outs
  <1> HIDE DEF args
  <1>10. touched[2] \in 0..Extent(b, args[touched[1]])
         BY <1>3, <1>4, <1>6, <1>7, <1>8, <1>9
  <1>11. QED  BY <1>10 DEF Covers, args

\* A text is at least as long as the mask says.
LEMMA TextStays ==
    ASSUME Phases, CompiledInv, PortsInv, phase = "running", NEW b \in Block,
           NEW i, i \in 1..CallsOf[Type(b)].runtime, i + 1 \in 1..CallsOf[Type(b)].runtime,
           DialogOf[Type(b)][i] = "vector",
           DialogOf[Type(b)][i + 1] \in {"scalar", "number"},
           NEW k \in DOMAIN CallsOf[Type(b)].outputs,
           CallsOf[Type(b)].outputs[k] = P(i + 1)
    PROVE  ArgumentValues(b)[k] \in 0..Extent(b, P(i))
  <1> DEFINE d == dialog[b]
             length == d[i + 1].elements[1]
  <1>1. /\ MaskPasses(Type(b), d) /\ DOMAIN d = DOMAIN DialogOf[Type(b)]
        /\ i \in DOMAIN d /\ Parameter(b, i) = d[i].elements
        /\ d[i].elements \in Seq(Int)
        BY DialogOfBlock
  <1>2. length \in 0..Len(d[i].elements)  BY <1>1 DEF MaskPasses
  <1>3. ArgumentValues(b)[k] = length  BY ScalarArgument
  <1>4. Extent(b, P(i)) = Len(d[i].elements)  BY <1>1, Extents
  <1> HIDE DEF length, d
  <1>5. QED  BY <1>2, <1>3, <1>4

\* A recorder on the target that runs is of the type of its block, so that a
\* bus is recorded byte by byte.
LEMMA DataRecorderStays ==
    ASSUME Phases, CompiledInv, PortsInv, OwnersInv, phase = "running",
           NEW b \in Block, Type(b) = "DataRecorder",
           NEW touched \in DataRecorderReach(b, ArgumentValues(b))
    PROVE  \/ Covers(b, touched)
           \/ MixesRecorders(b) /\ touched[1] = 7 /\ (Simulated \/ terminationRequested)
  <1> DEFINE args == CallsOf[Type(b)].outputs
             a == ArgumentValues(b)
             d == dialog[b]
             ins == widths[b].inputs
             k == Find(RecorderId(b))
  <1>1. /\ DOMAIN args = 1..9 /\ args[1] = P(1) /\ args[2] = P(2) /\ args[3] = P(3)
        /\ args[5] = U(2) /\ args[6] = P(6) /\ args[7] = U(3) /\ args[8] = P(5)
        /\ CallsOf[Type(b)].runtime = 14
        BY DEF CallsOf, DataRecorderCalls
  <1>2. /\ DialogOf[Type(b)][1] = "scalar" /\ DialogOf[Type(b)][2] = "vector"
        /\ DialogOf[Type(b)][3] = "scalar" /\ DialogOf[Type(b)][5] = "number"
        /\ DialogOf[Type(b)][6] = "number"
        BY DEF DialogOf, DataRecorderDialog, Dialog
  <1>3. 1..9 \subseteq DOMAIN args /\ 1..6 \subseteq 1..CallsOf[Type(b)].runtime  BY <1>1
  <1>4. a[1] = Scalar(b, 1)
    <2>1. 1 \in 1..9 /\ 1 \in 1..6  OBVIOUS
    <2>2. QED  BY <1>1, <1>2, <1>3, <2>1, ScalarArgument
  <1>5. a[3] \in 0..Extent(b, args[2])
    <2>1. 2 + 1 = 3 /\ 2 \in 1..6 /\ 3 \in 1..6 /\ 3 \in 1..9  OBVIOUS
    <2>2. QED  BY <1>1, <1>2, <1>3, <2>1, TextStays
  <1>6. a[6] = d[6].elements[1] /\ d[6].elements[1] \in Nat
    <2>1. 6 \in 1..9 /\ 6 \in 1..6  OBVIOUS
    <2>2. QED  BY <1>1, <1>2, <1>3, <2>1, ScalarArgument DEF SocketTypes
  <1>7. a[8] = d[5].elements[1] /\ d[5].elements[1] \in Nat
    <2>1. 8 \in 1..9 /\ 5 \in 1..6  OBVIOUS
    <2>2. QED  BY <1>1, <1>2, <1>3, <2>1, ScalarArgument DEF SocketTypes
  <1>8. a[6] \in 0..ins[2] /\ a[8] \in 0..ins[3]
    <2>1. /\ SizesOf[Type(b)] = DataRecorderSizes /\ DOMAIN DataRecorderSizes.inputs = 1..3
          /\ DataRecorderSizes.inputs[2] = Given(<<6>>)
          /\ DataRecorderSizes.inputs[3] = Given(<<5>>)
          BY DEF SizesOf, DataRecorderSizes
    <2>2. /\ Width(Given(<<6>>), d) = d[6].elements[1]
          /\ Width(Given(<<5>>), d) = d[5].elements[1]
          BY <1>6, <1>7, WidthOfGiven
    <2>3. QED  BY <1>6, <1>7, <2>1, <2>2, PortsAreWide DEF Types
  <1>9. Extent(b, args[5]) = ins[2] /\ Extent(b, args[7]) = ins[3]
        BY <1>1, Extents
  <1>10. \/ touched \in {<<2, a[3]>>, <<5, a[6]>>, <<7, a[8]>>}
         \/ touched[1] = 7 /\ a[1] # 0 /\ k # 0 /\ m_dataRecorders[k].type = 0
         BY DEF DataRecorderReach
  <1>11. CASE touched \in {<<2, a[3]>>, <<5, a[6]>>, <<7, a[8]>>}
    <2> HIDE DEF a, ins
    <2>1. touched[2] \in 0..Extent(b, args[touched[1]])
      <3> HIDE DEF args
      <3>1. QED  BY <1>5, <1>8, <1>9, <1>11
    <2>2. QED  BY <2>1 DEF Covers
  <1>12. CASE touched[1] = 7 /\ a[1] # 0 /\ k # 0 /\ m_dataRecorders[k].type = 0
    <2>1. MixesRecorders(b)  BY <1>4, <1>12 DEF MixesRecorders
    <2>2. ASSUME ~Simulated, ~terminationRequested  PROVE FALSE
      <3>1. HasItsRecorder(b)  BY <2>2 DEF OwnersInv, Started
      <3>2. m_dataRecorders[k].type = Scalar(b, 1)  BY <3>1 DEF HasItsRecorder
      <3>3. QED  BY <1>4, <1>12, <3>2
    <2>3. QED  BY <1>12, <2>1, <2>2
  <1>13. QED  BY <1>10, <1>11, <1>12

LEMMA ApplicationArgumentsStays ==
    ASSUME Phases, CompiledInv, PortsInv, phase = "running",
           NEW b \in Block, Type(b) = "ApplicationArguments",
           NEW touched \in ApplicationArgumentsReach(ArgumentValues(b))
    PROVE  Covers(b, touched)
  <1> DEFINE args == CallsOf[Type(b)].outputs
             a == ArgumentValues(b)
             m == dialog[b][1].elements[1]
             n == dialog[b][2].elements[1]
             outs == widths[b].outputs
  <1>1. /\ DOMAIN args = 1..5 /\ args[1] = Y(1) /\ args[2] = Y(2) /\ args[3] = Y(3)
        /\ args[4] = P(1) /\ args[5] = P(2) /\ CallsOf[Type(b)].runtime = 2
        BY DEF CallsOf, ApplicationArgumentsCalls
  <1>2. DialogOf[Type(b)][1] = "number" /\ DialogOf[Type(b)][2] = "number"
        BY DEF DialogOf, ApplicationArgumentsDialog, Dialog
  <1>3. a[4] = m /\ a[5] = n /\ m \in Nat /\ n \in Nat
    <2>1. {1, 2} \subseteq 1..CallsOf[Type(b)].runtime /\ {4, 5} \subseteq DOMAIN args
          BY <1>1
    <2>2. QED  BY <1>1, <1>2, <2>1, ScalarArgument DEF SocketTypes
  <1>4. m * n \in 0..outs[1] /\ n \in 0..outs[2] /\ 1 \in 0..outs[3]
    <2>1. /\ SizesOf[Type(b)] = ApplicationArgumentsSizes
          /\ DOMAIN ApplicationArgumentsSizes.outputs = 1..3
          /\ ApplicationArgumentsSizes.outputs[1] = Given(<<1, 2>>)
          /\ ApplicationArgumentsSizes.outputs[2] = Given(<<2>>)
          /\ ApplicationArgumentsSizes.outputs[3] = Fixed(1)
          BY DEF SizesOf, ApplicationArgumentsSizes
    <2>2. /\ Width(Given(<<1, 2>>), dialog[b]) = m * n
          /\ Width(Given(<<2>>), dialog[b]) = n /\ Width(Fixed(1), dialog[b]) = 1
          BY <1>3, WidthOfFixed, WidthOfGiven, WidthOfProduct
    <2>3. m * n \in Nat  BY <1>3
    <2> HIDE DEF m, n
    <2>4. QED  BY <1>3, <2>1, <2>2, <2>3, PortsAreWide DEF Types
  <1>5. touched \in {<<2, a[5]>>, <<3, 1>>, <<1, a[4] * a[5]>>}
        BY DEF ApplicationArgumentsReach
  <1>6. a[4] * a[5] = m * n  BY <1>3
  <1> HIDE DEF a, m, n, outs
  <1>7. /\ Extent(b, args[1]) = outs[1] /\ Extent(b, args[2]) = outs[2]
        /\ Extent(b, args[3]) = outs[3]
        BY <1>1, Extents DEF outs
  <1> HIDE DEF args
  <1>8. touched[2] \in 0..Extent(b, args[touched[1]])  BY <1>3, <1>4, <1>5, <1>6, <1>7
  <1>9. QED  BY <1>8 DEF Covers, args

LEMMA ReadThermalZonesStays ==
    ASSUME Phases, CompiledInv, PortsInv, phase = "running",
           NEW b \in Block, Type(b) = "ReadThermalZones",
           NEW touched \in ReadThermalZonesReach(ArgumentValues(b))
    PROVE  Covers(b, touched)
  <1> DEFINE args == CallsOf[Type(b)].outputs
             n == dialog[b][1].elements[1]
  <1>1. /\ DOMAIN args = 1..2 /\ args[1] = P(1) /\ args[2] = Y(1)
        /\ CallsOf[Type(b)].runtime = 1
        BY DEF CallsOf, ReadThermalZonesCalls
  <1>2. DialogOf[Type(b)][1] = "number"
        BY DEF DialogOf, ReadThermalZonesDialog, Dialog
  <1>3. ArgumentValues(b)[1] = n /\ n \in Nat
    <2>1. 1 \in 1..CallsOf[Type(b)].runtime /\ 1 \in DOMAIN args  BY <1>1
    <2>2. QED  BY <1>1, <1>2, <2>1, ScalarArgument DEF SocketTypes
  <1>4. n \in 0..widths[b].outputs[1]
    <2>1. /\ SizesOf[Type(b)] = ReadThermalZonesSizes
          /\ DOMAIN ReadThermalZonesSizes.outputs = 1..1
          /\ ReadThermalZonesSizes.outputs[1] = Given(<<1>>)
          BY DEF SizesOf, ReadThermalZonesSizes
    <2>2. Width(Given(<<1>>), dialog[b]) = n  BY <1>3, WidthOfGiven
    <2>3. QED  BY <1>3, <2>1, <2>2, PortsAreWide DEF Types
  <1>5. touched = <<2, n>>  BY <1>3 DEF ReadThermalZonesReach
  <1>6. Extent(b, args[2]) = widths[b].outputs[1]  BY <1>1, Extents
  <1> HIDE DEF n
  <1>7. QED  BY <1>4, <1>5, <1>6 DEF Covers

LEMMA TaskStays ==
    ASSUME Phases, CompiledInv, PortsInv, phase = "running",
           NEW b \in Block, Type(b) \in {"NumTaskOverloads", "TaskExecutionTime"},
           NEW touched \in TaskReach(ArgumentValues(b))
    PROVE  Covers(b, touched)
  <1> DEFINE args == CallsOf[Type(b)].outputs
             a == ArgumentValues(b)
  <1>1. /\ DOMAIN args = 1..3 /\ args[1] = Y(1) /\ args[2] = P(1) /\ args[3] = P(2)
        /\ CallsOf[Type(b)].runtime = 2
        BY DEF CallsOf, NumTaskOverloadsCalls, TaskExecutionTimeCalls
  <1>2. DialogOf[Type(b)][1] = "vector" /\ DialogOf[Type(b)][2] = "scalar"
    <2>1. DialogOf[Type(b)] = Dialog(3, {1}, {}, {})
          BY DEF DialogOf, NumTaskOverloadsDialog, TaskExecutionTimeDialog
    <2>2. /\ Dialog(3, {1}, {}, {})[1] = "vector"
          /\ Dialog(3, {1}, {}, {})[2] = "scalar"
          BY DEF Dialog
    <2>3. QED  BY <2>1, <2>2
  <1>3. a[3] \in 0..Extent(b, P(1))
    <2>1. /\ 1 \in 1..CallsOf[Type(b)].runtime /\ 2 \in 1..CallsOf[Type(b)].runtime
          /\ 1 + 1 = 2 /\ 3 \in DOMAIN args
          BY <1>1
    <2>2. QED  BY <1>1, <1>2, <2>1, TextStays
  <1>4. 1 \in 0..widths[b].outputs[1]
    <2>1. /\ DOMAIN SizesOf[Type(b)].outputs = 1..1
          /\ SizesOf[Type(b)].outputs[1] = Fixed(1)
          BY DEF SizesOf, NumTaskOverloadsSizes, TaskExecutionTimeSizes, Ports
    <2>2. Width(Fixed(1), dialog[b]) = 1  BY WidthOfFixed
    <2>3. QED  BY <2>1, <2>2, PortsAreWide DEF Types
  <1>5. touched \in {<<1, 1>>, <<2, a[3]>>}  BY DEF TaskReach
  <1>6. Extent(b, args[1]) = widths[b].outputs[1]  BY <1>1, Extents
  <1> HIDE DEF a
  <1>7. QED  BY <1>1, <1>3, <1>4, <1>5, <1>6 DEF Covers

\* Time and overload drivers write one value to each of their outputs.
Counters ==
    {"NumCPUOverloads", "ModelExecutionTime", "UnixTime", "UTCTimestamp", "UTCTime",
     "LocalTime"}

LEMMA OutputsStay ==
    ASSUME PortsInv, phase = "running", NEW b \in Block, Type(b) \in Counters,
           NEW touched \in EachOutput(b)
    PROVE  Covers(b, touched)
  <1> DEFINE outs == SizesOf[Type(b)].outputs
             args == CallsOf[Type(b)].outputs
  <1>1. \E n \in {1, 2, 10} : outs = Ports(n) /\ args = Outputs(n)
        BY DEF Counters, SizesOf, CallsOf, NumCPUOverloadsSizes, ModelExecutionTimeSizes,
           UnixTimeSizes, UTCTimestampSizes, UTCTimeSizes, LocalTimeSizes,
           NumCPUOverloadsCalls, ModelExecutionTimeCalls, UnixTimeCalls,
           UTCTimestampCalls, UTCTimeCalls, LocalTimeCalls
  <1>2. PICK n \in {1, 2, 10} : outs = Ports(n) /\ args = Outputs(n)  BY <1>1
  <1>3. /\ DOMAIN outs = 1..n
        /\ \A k \in 1..n : outs[k] = Fixed(1) /\ args[k] = Y(k)
        BY <1>2 DEF Ports, Outputs
  <1>4. PICK k \in 1..n : touched = <<k, 1>>
        BY <1>3, PortsAreWide DEF EachOutput, Types, Counters
  <1>5. 1 \in 0..widths[b].outputs[k]
    <2>1. Width(Fixed(1), dialog[b]) = 1  BY WidthOfFixed
    <2>2. QED  BY <1>3, <2>1, PortsAreWide DEF Types, Counters
  <1>6. Extent(b, args[k]) = widths[b].outputs[k]  BY <1>3, Extents
  <1>7. QED  BY <1>4, <1>5, <1>6 DEF Covers

LEMMA EveryDriverStays ==
    ASSUME Phases, CompiledInv, PortsInv, OwnersInv, phase = "running",
           NEW b \in Block, NEW touched \in Reach(b)
    PROVE  \/ Covers(b, touched)
           \/ MixesRecorders(b) /\ touched[1] = 7 /\ (Simulated \/ terminationRequested)
  <1>1. Type(b) \in Types  BY BlockFacts, TypesOfTables DEF Phases
  <1>2. CASE Type(b) = "UDPSocket"  BY <1>2, UDPSocketStays DEF Reach
  <1>3. CASE Type(b) = "TCPClientSocket"  BY <1>3, TCPClientSocketStays DEF Reach
  <1>4. CASE Type(b) = "DataRecorder"
    <2>1. touched \in DataRecorderReach(b, ArgumentValues(b))  BY <1>4 DEF Reach
    <2>2. QED  BY <1>4, <2>1, DataRecorderStays
  <1>5. CASE Type(b) = "ApplicationArguments"
        BY <1>5, ApplicationArgumentsStays DEF Reach
  <1>6. CASE Type(b) = "ReadThermalZones"  BY <1>6, ReadThermalZonesStays DEF Reach
  <1>7. CASE Type(b) \in {"NumTaskOverloads", "TaskExecutionTime"}
        BY <1>7, TaskStays DEF Reach
  <1>8. CASE Type(b) = "StopExecution"  BY <1>8 DEF Reach
  <1>9. CASE Type(b) \in Counters
    <2>1. Reach(b) = EachOutput(b)  BY <1>9 DEF Reach, Counters
    <2>2. QED  BY <1>9, <2>1, OutputsStay
  <1>10. QED
         BY <1>1, <1>2, <1>3, <1>4, <1>5, <1>6, <1>7, <1>8, <1>9 DEF Types, Counters

-----------------------------------------------------------------------------
(* The invariant, and what follows                                         *)

LEMMA InitInv == Init => IInv
  BY PhasesInit, ServicesInit, ServiceListsInit, RecordersInit, FilesInit, IndexInit,
     TimeInit, OwnersInit, CompiledInit, PortsInit DEF IInv

LEMMA StepInv == IInv /\ [Next]_vars => IInv'
  BY PhasesStep, ServicesStep, ServiceListsStep, RecordersStep, FilesStep, IndexStep,
     TimeStep, OwnersStep, CompiledStep, PortsStep DEF IInv

LEMMA Invariant == Spec => []IInv
  BY InitInv, StepInv, PTL DEF Spec

\* Types; and whatever the dialogs hold, the ports of a model that is run have
\* a positive width, and its sample times are ones that Simulink can schedule
\* (mdlCheckParameters, mdlInitializeSizes, mdlInitializeSampleTimes).
THEOREM TypeCorrect == Spec => []TypeOK
  <1>1. IInv => TypeOK
    <2> SUFFICES ASSUME IInv  PROVE TypeOK  OBVIOUS
    <2>1. /\ phase \in {"design", "starting", "running", "terminating"}
          /\ run \in 0..MaxRuns /\ next \in Block /\ error \in BOOLEAN
          /\ faults \in 0..MaxFaults /\ now \in 0..MaxTime
          /\ terminationRequested \in BOOLEAN
          BY DEF IInv, Phases
    <2>2. /\ m_pathToDataDirectory \in 0..run
          /\ \A r \in ToSet(m_dataRecorders) : r.sources \subseteq Recorders
          BY DEF IInv, RecordersInv
    <2>3. time_point_set \in BOOLEAN /\ time_point_of_start \in 0..now
          BY DEF IInv, TimeInv
    <2>4. /\ DOMAIN services = SocketTypes
          /\ \A t \in SocketTypes : \A s \in ToSet(services[t]) : s.open \in BOOLEAN
      <3>1. services = [t \in SocketTypes |-> services[t]]  BY DEF IInv, ServicesInv
      <3>2. DOMAIN services = SocketTypes  BY <3>1
      <3>3. QED  BY <3>2 DEF IInv, ServiceLists
    <2>5. run > 0 => \A b \in Block :
            /\ \A w \in ToSet(widths[b].inputs \o widths[b].outputs) : w >= 1
            /\ Regular(sampleTime[b])
            /\ Len(runtime[b]) = CallsOf[Type(b)].runtime
          BY DEF IInv, CompiledInv
    <2>6. QED  BY <2>1, <2>2, <2>3, <2>4, <2>5 DEF TypeOK
  <1>2. QED  BY <1>1, Invariant, PTL

\* The Terminate() functions of the drivers and ClearAllDataRecorders: no
\* service outlives a run, and a recorder only if the user has switched off
\* the files of all recorder blocks during the simulation.
THEOREM NothingIsLeft == Spec => []NothingSurvives
  <1>1. IInv => NothingSurvives
    <2> SUFFICES ASSUME IInv, phase = "design"
                 PROVE  /\ \A t \in SocketTypes : services[t] = <<>>
                        /\ m_dataRecorders # <<>> =>
                            Simulated /\ \A b \in Recorders : ~RecordsFiles(b)
        BY DEF NothingSurvives
    <2>1. \A b : ~Pending(b)  BY DEF Pending
    <2>2. \A t \in SocketTypes : services[t] = <<>>
          BY <2>1 DEF IInv, ServicesInv
    <2>3. ASSUME m_dataRecorders # <<>>
          PROVE  Simulated /\ \A b \in Recorders : ~RecordsFiles(b)
      <3>1. Recorders # {} /\ \A b \in Recorders : ~RecordsFiles(b)
            BY <2>1, <2>3 DEF IInv, RecordersInv
      <3>2. QED  BY <3>1 DEF RecordsFiles
    <2>4. QED  BY <2>2, <2>3
  <1>2. QED  BY <1>1, Invariant, PTL

\* AddDataRecorder and WriteIndexFile: every recorder of every run has a file of
\* its own, and the index of the directory names the recorders of the run unless
\* a call failed.
THEOREM FilesAreIndexed == Spec => []FilesOfARun
  <1>1. IInv => FilesOfARun
        BY DEF IInv, FilesInv, IndexInv, FilesOfARun
  <1>2. QED  BY <1>1, Invariant, PTL

\* The Initialize() functions on the target: a block that is not told to end has
\* a recorder that no other block writes to, or an open service configured as it
\* asks.
THEOREM BlocksAreServed == Spec => []BlocksGetWhatTheyAskFor
  <1>1. IInv => BlocksGetWhatTheyAskFor
        BY DEF IInv, OwnersInv, Started, BlocksGetWhatTheyAskFor
  <1>2. QED  BY <1>1, Invariant, PTL

\* mdlInitializeSizes, mdlProcessParameters and the driver steps: for any dialogs
\* that the masks let pass, and however the parameters are tuned, no step reads
\* or writes beyond a port or a parameter, but for a bus that is recorded under
\* the ID of scalar doubles.
THEOREM DriversKeepToPorts == Spec => []DriversStayInPorts
  <1>1. IInv => DriversStayInPorts
    <2> SUFFICES ASSUME IInv, phase = "running", NEW b \in Block, NEW touched \in Reach(b)
                 PROVE  \/ touched[2] \in 0..Extent(b, CallsOf[Type(b)].outputs[touched[1]])
                        \/ /\ MixesRecorders(b) /\ touched[1] = 7
                           /\ Simulated \/ terminationRequested
        BY DEF DriversStayInPorts
    <2>1. QED  BY EveryDriverStays DEF IInv, Covers
  <1>2. QED  BY <1>1, Invariant, PTL

\* ModelExecutionTime: its blocks measure the time from the first step of this
\* simulation, whatever earlier ones have left in the static variables.
THEOREM TimeIsOfThisRun == Spec => []TimeStartsAtZero
  <1>1. IInv => TimeStartsAtZero
    <2> SUFFICES ASSUME IInv, NEW x \in times, NEW y \in times
                 PROVE  /\ x[1] - x[2] = y[1] - y[2]
                        /\ \E z \in times : z[2] = 0 /\ z[1] <= x[1]
        BY DEF TimeStartsAtZero
    <2> DEFINE s == time_point_of_start
    <2>1. now \in Nat  BY BlockConstants DEF IInv, Phases
    <2>2. /\ s \in 0..now /\ <<s, 0>> \in times
          /\ \A w \in times : \E t \in s..now : w = <<t, t - s>>
          BY DEF IInv, TimeInv
    <2>3. PICK t \in s..now : x = <<t, t - s>>  BY <2>2
    <2>4. PICK u \in s..now : y = <<u, u - s>>  BY <2>2
    <2> DEFINE z == <<s, 0>>
    <2>5. z[1] = s /\ z[2] = 0  OBVIOUS
    <2>6. x[1] = t /\ x[2] = t - s /\ y[1] = u /\ y[2] = u - s  BY <2>3, <2>4
    <2> HIDE DEF z
    <2>7. x[1] - x[2] = y[1] - y[2] /\ z[1] <= x[1]
          BY <2>1, <2>2, <2>3, <2>4, <2>5, <2>6
    <2>8. QED  BY <2>2, <2>5, <2>7 DEF z
  <1>2. QED  BY <1>1, Invariant, PTL

====
