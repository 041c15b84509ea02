------------------------ MODULE DataRecorderManager ------------------------
(***************************************************************************)
(* The manager of the data recorders: the list of recorders by ID, the     *)
(* directory of the running application or simulation, and the index file  *)
(* in it that names the recorders.  The recorders themselves are modelled  *)
(* in DataRecorder; here a recorder is the sample size it accepts and the  *)
(* blocks whose samples it has taken.                                      *)
(*                                                                         *)
(* Directories are numbered by the run that names them, and 0 is the empty *)
(* path; characters are numbers of the ASCII table.                        *)
(***************************************************************************)
EXTENDS Integers, Sequences, SequencesExt

CONSTANTS
    MaxRuns,        \* bound: simulations, or starts of the application
    MaxFaults       \* bound: failing calls of the operating system

ASSUME ManagerConstants == MaxRuns \in Nat /\ MaxFaults \in Nat

VARIABLES
    m_dataRecorders, m_pathToDataDirectory,
    index,          \* the disk: names in the index file of each directory
    claimed,        \* history: files <<directory, ID>> of started recorders
    faults          \* history: failed calls

managed == <<m_dataRecorders, m_pathToDataDirectory>>
managerVars == <<managed, index, claimed>>

ManagerInit ==
    /\ m_dataRecorders = <<>> /\ m_pathToDataDirectory = 0
    /\ index = [d \in 1..MaxRuns |-> <<>>]
    /\ claimed = <<>> /\ faults = 0

-----------------------------------------------------------------------------
(* IDs: characters that a file name should not have become underscores, so *)
(* that different texts may lead to the same ID.                           *)

ValidCharacters == (65..90) \cup (97..122) \cup (48..57) \cup {95, 45}

ConvertToValidID(idCharacters, numIDCharacters) ==
    [n \in 1..numIDCharacters |->
        IF idCharacters[n] \in ValidCharacters THEN idCharacters[n] ELSE 95]

AlreadyRegistered(id) == \E k \in DOMAIN m_dataRecorders : m_dataRecorders[k].id = id

\* Number of the recorder that Write calls with this ID find, or 0.
Find(id) == SelectInSeq(m_dataRecorders, LAMBDA r : r.id = id)

-----------------------------------------------------------------------------
(* AddDataRecorderScalarDoubles() and AddDataRecorderBus(), in run number  *)
(* "run", with the value they return.                                      *)

SetPathAndTimeIfNotSet(run) ==
    m_pathToDataDirectory' =
        IF m_pathToDataDirectory = 0 THEN run ELSE m_pathToDataDirectory

Ids(recorders) == [k \in DOMAIN recorders |-> recorders[k].id]

\* Mutant: the file is written before the new recorder is in the list.
WriteIndexFileEarly(written) ==
    index' = IF written THEN [index EXCEPT ![m_pathToDataDirectory'] = Ids(m_dataRecorders)]
                        ELSE index
WriteIndexFile(written) ==
    index' = IF written THEN [index EXCEPT ![m_pathToDataDirectory'] = Ids(m_dataRecorders')]
                        ELSE index

Faults(outcomes) ==
    /\ faults' = faults + Cardinality({k \in DOMAIN outcomes : ~outcomes[k]})
    /\ faults' <= MaxFaults

MakeDataDirectoryFails(run) ==
    /\ SetPathAndTimeIfNotSet(run)
    /\ Faults(<<FALSE>>)
    /\ UNCHANGED <<m_dataRecorders, index, claimed>>

\* A recorder that fails to start stays in the list.
Registers(id, type, size, started) ==
    /\ m_dataRecorders' = Append(m_dataRecorders,
           [id |-> id, type |-> type, size |-> size, started |-> started, sources |-> {}])
    /\ claimed' = IF started THEN Append(claimed, <<m_pathToDataDirectory', id>>) ELSE claimed

AddDataRecorder(run, id, type, size, mayFailToStart, success) ==
    \/ ~success /\ MakeDataDirectoryFails(run)
    \/ \E written \in BOOLEAN :
        /\ ~success /\ AlreadyRegistered(id)
        /\ SetPathAndTimeIfNotSet(run)
        /\ UNCHANGED <<m_dataRecorders, claimed>>
        /\ WriteIndexFile(written) /\ Faults(<<written>>)
    \/ \E started, written \in BOOLEAN :
        /\ ~AlreadyRegistered(id) /\ (started \/ mayFailToStart)
        /\ SetPathAndTimeIfNotSet(run)
        /\ Registers(id, type, size, started)
        /\ WriteIndexFile(written) /\ Faults(<<started, written>>)
        /\ success = (started /\ written)

-----------------------------------------------------------------------------
(* WriteScalarDoubles() and WriteBus(): the recorder takes samples of its  *)
(* own size only.  ClearAllDataRecorders() stops and deletes them all.     *)

Write(id, size, block) ==
    /\ m_dataRecorders' =
        [k \in DOMAIN m_dataRecorders |->
            IF k = Find(id) /\ m_dataRecorders[k].size = size
            THEN [m_dataRecorders[k] EXCEPT !.sources = @ \cup {block}]
            ELSE m_dataRecorders[k]]
    /\ UNCHANGED <<m_pathToDataDirectory, index, claimed, faults>>

ClearAllDataRecorders ==
    /\ m_dataRecorders' = <<>> /\ m_pathToDataDirectory' = 0
    /\ UNCHANGED <<index, claimed, faults>>
=============================================================================
