---------------------------- MODULE DataRecorder ----------------------------
(***************************************************************************)
(* One data recorder of GT_DriverImplementationDetails: a step of the      *)
(* model appends samples to m_buffer, the recorder's own thread moves them *)
(* to its local buffer and from there to numbered files, and Stop(), once  *)
(* the steps have ended, writes what is left.  The recorders for scalar    *)
(* doubles and for buses differ in the format of a sample only.            *)
(*                                                                         *)
(* Samples are numbered in the order of the Write calls.  A file is the    *)
(* sequence of its samples; files[k + 1] is the file with number k.        *)
(***************************************************************************)
EXTENDS Integers, Sequences, SequencesExt

CONSTANTS
    NumSamplesPerFile,  \* m_numSamplesPerFile; 0: all samples in one file
    MaxSamples,         \* bound: samples written by the model
    MaxFaults           \* bound: failing file operations

ASSUME RecorderConstants ==
    NumSamplesPerFile \in Nat /\ MaxSamples \in Nat /\ MaxFaults \in Nat

VARIABLES
    m_buffer, localBuffer,
    m_event,                \* the semaphore of Event is positive
    m_started, m_terminate,
    m_currentFileNumber, m_numSamplesWritten, m_currentFileStarted,
    files,                  \* the disk
    thread,                 \* none, test, wait, check, take, write, leave, exited
    caller,                 \* Start() and Stop(): where the main thread is
    writer,                 \* Write(): idle, notify (sample is in the buffer)
    produced,               \* history: samples accepted by Write
    faults,                 \* history: failed file operations
    torn,                   \* history: one of them hit in the middle of a write
    warned                  \* history: FlushBuffer has dropped samples

fileState == <<m_currentFileNumber, m_numSamplesWritten, m_currentFileStarted, files>>
disk == <<fileState, faults, torn>>
vars == <<m_buffer, localBuffer, m_event, m_started, m_terminate, disk, thread,
          caller, writer, produced, warned>>

Init ==
    /\ m_buffer = <<>> /\ localBuffer = <<>>
    /\ m_event = FALSE /\ m_started = FALSE /\ m_terminate = FALSE
    /\ m_currentFileNumber = 0 /\ m_numSamplesWritten = 0
    /\ m_currentFileStarted = FALSE /\ files = <<>>
    /\ thread = "none" /\ caller = "new" /\ writer = "idle"
    /\ produced = 0 /\ faults = 0 /\ torn = FALSE /\ warned = FALSE

-----------------------------------------------------------------------------
(* Write(), called by a step of the model.                                 *)

\* Also a recorder whose Start() has failed is written to.
Writable == caller \in {"idle", "failed"} /\ writer = "idle" /\ produced < MaxSamples

\* Mutant: the previous sample is appended.
WritePushesOld ==
    /\ Writable
    /\ produced' = produced + 1
    /\ m_buffer' = Append(m_buffer, produced)
    /\ writer' = "notify"
    /\ UNCHANGED <<localBuffer, m_event, m_started, m_terminate, disk, thread, caller,
                   warned>>

\* A sample of the right size is appended under the lock ...
WritePushes ==
    /\ Writable
    /\ produced' = produced + 1
    /\ m_buffer' = Append(m_buffer, produced + 1)
    /\ writer' = "notify"
    /\ UNCHANGED <<localBuffer, m_event, m_started, m_terminate, disk, thread, caller,
                   warned>>

\* ... one of another size is dropped; the thread is notified in any case.
WriteRejected ==
    /\ Writable
    /\ writer' = "notify"
    /\ UNCHANGED <<m_buffer, localBuffer, m_event, m_started, m_terminate, disk, thread,
                   caller, produced, warned>>

WriteNotifies ==
    /\ writer = "notify"
    /\ writer' = "idle" /\ m_event' = TRUE
    /\ UNCHANGED <<m_buffer, localBuffer, m_started, m_terminate, disk, thread, caller,
                   produced, warned>>

-----------------------------------------------------------------------------
(* WriteBufferToDataFiles(buf): one turn of its loop each, with the last   *)
(* argument saying whether the loop goes on.                               *)

\* Mutant: a file may take the whole buffer.
WholeBuffer(available) == available
SamplesToWrite(available) ==
    IF NumSamplesPerFile > 0 /\ available > NumSamplesPerFile
    THEN NumSamplesPerFile ELSE available

Current == IF m_currentFileStarted THEN Last(files) ELSE <<>>
WrittenToCurrent == IF m_currentFileStarted THEN m_numSamplesWritten ELSE 0

\* A header opens the file with the current number if none is open.
CurrentBecomes(content) ==
    files' = IF m_currentFileStarted THEN Front(files) \o <<content>>
                                     ELSE Append(files, content)

\* Mutant: the number of a finished file is used again.
FileKeepsNumber(written) ==
    /\ m_numSamplesWritten' = written
    /\ m_currentFileStarted' = ~(NumSamplesPerFile > 0 /\ written >= NumSamplesPerFile)
    /\ UNCHANGED m_currentFileNumber

\* n samples have been written; a file that is full is finished.
FileAdvances(written) ==
    LET full == NumSamplesPerFile > 0 /\ written >= NumSamplesPerFile IN
    /\ m_numSamplesWritten' = written
    /\ m_currentFileStarted' = ~full
    /\ m_currentFileNumber' = m_currentFileNumber + (IF full THEN 1 ELSE 0)

Fault == faults < MaxFaults /\ faults' = faults + 1

TurnSucceeds(buf) ==
    LET n == SamplesToWrite(Len(buf)) IN
    /\ CurrentBecomes(Current \o SubSeq(buf, 1, n))
    /\ FileAdvances(WrittenToCurrent + n)
    /\ UNCHANGED <<faults, torn>>

\* The stream buffers a small write and only close() finds that it fails:
\* nobody asks close(), and the samples count as written.
CloseFails(buf) ==
    LET n == SamplesToWrite(Len(buf)) IN
    /\ Fault /\ torn' = TRUE
    /\ \E k \in 0..(n - 1) : CurrentBecomes(Current \o SubSeq(buf, 1, k))
    /\ FileAdvances(WrittenToCurrent + n)

\* No file can be created.
HeaderFails ==
    /\ ~m_currentFileStarted /\ Fault
    /\ UNCHANGED <<fileState, torn>>

\* The file cannot be opened again, or nothing or only a part is written.
WriteFails(buf) ==
    LET n == SamplesToWrite(Len(buf)) IN
    /\ Fault
    /\ \E k \in 0..n :
         /\ CurrentBecomes(Current \o SubSeq(buf, 1, k))
         /\ torn' = (torn \/ k > 0)
    /\ m_numSamplesWritten' = WrittenToCurrent
    /\ m_currentFileStarted' = TRUE
    /\ UNCHANGED m_currentFileNumber

Rest(buf) == SubSeq(buf, SamplesToWrite(Len(buf)) + 1, Len(buf))

-----------------------------------------------------------------------------
(* ThreadDataRecorder()                                                    *)

ThreadGoes(there) ==
    /\ thread' = there
    /\ UNCHANGED <<m_started, m_terminate, caller, writer, produced, warned>>

ThreadTests ==
    /\ thread = "test"
    /\ ThreadGoes(IF m_terminate THEN "leave" ELSE "wait")
    /\ UNCHANGED <<m_buffer, localBuffer, m_event, disk>>

\* Event::Wait takes every notification there is.
ThreadWaits ==
    /\ thread = "wait" /\ m_event
    /\ m_event' = FALSE
    /\ ThreadGoes("check")
    /\ UNCHANGED <<m_buffer, localBuffer, disk>>

ThreadChecks ==
    /\ thread = "check"
    /\ ThreadGoes(IF m_terminate THEN "leave" ELSE "take")
    /\ UNCHANGED <<m_buffer, localBuffer, m_event, disk>>

\* Under the lock: move the buffer behind what could not be written before.
ThreadTakes ==
    /\ thread = "take"
    /\ localBuffer' = localBuffer \o m_buffer
    /\ m_buffer' = <<>>
    /\ ThreadGoes(IF localBuffer' = <<>> THEN "test" ELSE "write")
    /\ UNCHANGED <<m_event, disk>>

\* Mutant: the turn ends with the first file.
ThreadWritesOnce ==
    /\ thread = "write"
    /\ TurnSucceeds(localBuffer) \/ CloseFails(localBuffer)
    /\ localBuffer' = Rest(localBuffer)
    /\ ThreadGoes("test")
    /\ UNCHANGED <<m_buffer, m_event>>

ThreadWrites ==
    /\ thread = "write"
    /\ TurnSucceeds(localBuffer) \/ CloseFails(localBuffer)
    /\ localBuffer' = Rest(localBuffer)
    /\ ThreadGoes(IF localBuffer' = <<>> THEN "test" ELSE "write")
    /\ UNCHANGED <<m_buffer, m_event>>

ThreadWriteFails ==
    /\ thread = "write"
    /\ HeaderFails \/ WriteFails(localBuffer)
    /\ ThreadGoes("test")
    /\ UNCHANGED <<m_buffer, localBuffer, m_event>>

\* Mutant: what is left is appended, not put in front.
ThreadLeavesBehind ==
    /\ thread = "leave"
    /\ m_buffer' = m_buffer \o localBuffer
    /\ localBuffer' = <<>>
    /\ ThreadGoes("exited")
    /\ UNCHANGED <<m_event, disk>>

\* What is left goes back in front of the newer samples.
ThreadLeaves ==
    /\ thread = "leave"
    /\ m_buffer' = localBuffer \o m_buffer
    /\ localBuffer' = <<>>
    /\ ThreadGoes("exited")
    /\ UNCHANGED <<m_event, disk>>

-----------------------------------------------------------------------------
(* Start() and Stop(), called by the main thread.                          *)

CallerGoes(there) ==
    /\ caller' = there
    /\ UNCHANGED <<localBuffer, writer, produced>>

\* Start() begins with a Stop() that finds nothing to do.
Start ==
    /\ caller = "new" /\ CallerGoes("starting")
    /\ thread' = "test"
    /\ UNCHANGED <<m_buffer, m_event, m_started, m_terminate, disk, warned>>

StartReturns ==
    /\ caller = "starting" /\ CallerGoes("idle")
    /\ m_started' = TRUE
    /\ UNCHANGED <<m_buffer, m_event, m_terminate, disk, thread, warned>>

\* Stop(), called when no step of the model runs any more, or by Start() when
\* the thread cannot have its priority.
StopBegins ==
    /\ caller \in {"idle", "starting"} /\ writer = "idle"
    /\ CallerGoes("terminating")
    /\ m_terminate' = TRUE
    /\ UNCHANGED <<m_buffer, m_event, m_started, disk, thread, warned>>

\* Mutant: the thread is not woken up.
StopSilent ==
    /\ caller = "terminating" /\ CallerGoes("joining")
    /\ UNCHANGED <<m_buffer, m_event, m_started, m_terminate, disk, thread, warned>>

StopNotifies ==
    /\ caller = "terminating" /\ CallerGoes("joining")
    /\ m_event' = TRUE
    /\ UNCHANGED <<m_buffer, m_started, m_terminate, disk, thread, warned>>

\* A recorder that has not been started is not flushed.
StopJoins ==
    /\ caller = "joining" /\ thread = "exited"
    /\ CallerGoes(IF m_started THEN "flushing" ELSE "failed")
    /\ thread' = "none"
    /\ m_terminate' = FALSE /\ m_event' = FALSE
    /\ UNCHANGED <<m_buffer, m_started, disk, warned>>

\* FlushBuffer() under the lock.
Flushes ==
    /\ caller = "flushing" /\ m_buffer # <<>> /\ CallerGoes("flushing")
    /\ TurnSucceeds(m_buffer) \/ CloseFails(m_buffer)
    /\ m_buffer' = Rest(m_buffer)
    /\ UNCHANGED <<m_event, m_started, m_terminate, thread, warned>>

FlushFails ==
    /\ caller = "flushing" /\ m_buffer # <<>> /\ CallerGoes("flushing")
    /\ HeaderFails \/ WriteFails(m_buffer)
    /\ m_buffer' = <<>> /\ warned' = TRUE
    /\ UNCHANGED <<m_event, m_started, m_terminate, thread>>

StopReturns ==
    /\ caller = "flushing" /\ m_buffer = <<>> /\ CallerGoes("stopped")
    /\ m_started' = FALSE
    /\ m_currentFileNumber' = 0 /\ m_numSamplesWritten' = 0
    /\ m_currentFileStarted' = FALSE
    /\ UNCHANGED <<m_buffer, m_event, m_terminate, files, faults, torn, thread, warned>>

\* The recorder is deleted.
Done == caller \in {"stopped", "failed"} /\ UNCHANGED vars

-----------------------------------------------------------------------------
Thread ==
    \/ ThreadTests \/ ThreadWaits \/ ThreadChecks \/ ThreadTakes
    \/ ThreadWrites \/ ThreadWriteFails \/ ThreadLeaves
Stopping == StopNotifies \/ StopJoins \/ Flushes \/ FlushFails \/ StopReturns

Next ==
    \/ WritePushes \/ WriteRejected \/ WriteNotifies
    \/ Thread
    \/ Start \/ StartReturns \/ StopBegins \/ Stopping
    \/ Done

Spec == Init /\ [][Next]_vars

\* The threads run; the model need not write, nor the application stop.
FairSpec == Spec /\ WF_vars(Thread) /\ WF_vars(WriteNotifies) /\ WF_vars(Stopping)

-----------------------------------------------------------------------------
TypeOK ==
    /\ m_buffer \in Seq(1..MaxSamples) /\ localBuffer \in Seq(1..MaxSamples)
    /\ m_event \in BOOLEAN /\ m_started \in BOOLEAN /\ m_terminate \in BOOLEAN
    /\ m_currentFileNumber \in Nat /\ m_numSamplesWritten \in Nat
    /\ m_currentFileStarted \in BOOLEAN
    /\ files \in Seq(Seq(1..MaxSamples))
    /\ thread \in {"none", "test", "wait", "check", "take", "write", "leave", "exited"}
    /\ caller \in {"new", "starting", "idle", "terminating", "joining", "flushing",
                   "stopped", "failed"}
    /\ writer \in {"idle", "notify"}
    /\ produced \in 0..MaxSamples /\ faults \in 0..MaxFaults
    /\ torn \in BOOLEAN /\ warned \in BOOLEAN

Recorded == FlattenSeq(files)
Samples == [k \in 1..produced |-> k]

\* The files in the order of their numbers, followed by the two buffers, are
\* the samples in the order they were written: nothing is lost, repeated or
\* out of order on the way, files that cannot be created or opened included.
\* And "if a data recorder is terminated, values that are still unwritten by
\* the thread are written to the data files": when Stop() has returned, all
\* is in the files or the warning has been printed.  What a write or close()
\* that fails half way does is the exception.
NothingLostOnTheWay ==
    ~torn /\ ~warned =>
        /\ Recorded \o localBuffer \o m_buffer = Samples
        /\ caller = "stopped" => Recorded = Samples

\* A file that is not the last one is full, and no file has two files' worth
\* of samples.
FilesAreFull ==
    NumSamplesPerFile > 0 /\ ~torn =>
        \A k \in DOMAIN files :
            /\ k < Len(files) => Len(files[k]) >= NumSamplesPerFile
            /\ Len(files[k]) < 2 * NumSamplesPerFile

\* The counters describe the disk: the number in the name of the next file is
\* that of the open one or the next free one, so no data file is overwritten.
NoFileOverwritten ==
    caller # "stopped" =>
        m_currentFileNumber = Len(files) - (IF m_currentFileStarted THEN 1 ELSE 0)

\* Once files can be written again, the next sample empties the buffers: it
\* reaches a file, behind all that was held back, unless the recorder is
\* being stopped.  No notification is missed, and the backlog, for which the
\* code has no limit, does not outlive the failures.
BacklogIsWritten ==
    \A k \in 1..MaxSamples :
        (caller = "idle" /\ faults = MaxFaults /\ k \in Range(m_buffer)) ~>
            (caller # "idle" \/ k \in Range(Recorded))

\* Stop() returns, whatever the thread is doing and whichever file operations
\* fail.
StopEnds == caller = "terminating" ~> caller \in {"stopped", "failed"}

\* The block's documentation: numSamplesPerFile is "The maximum number of
\* samples per data recording file".
SamplesPerFileLimit ==
    NumSamplesPerFile > 0 /\ ~torn =>
        \A k \in DOMAIN files : Len(files[k]) <= NumSamplesPerFile

\* The comment on WriteBufferToDataFiles: "Data that have been written to
\* file(s) successfully is removed from the container", so that a sample not
\* yet in a file is in a buffer.
OnlyWrittenIsRemoved ==
    caller \notin {"stopped", "flushing"} =>
        \A k \in 1..produced :
            k \in Range(Recorded) \cup Range(localBuffer) \cup Range(m_buffer)
====
