---------------------------- MODULE CopyPipeline ----------------------------
(***************************************************************************)
(* The double-buffered copy of one file: the reader thread                 *)
(* (CopyReaderThreadFunc) fills buf[0] and buf[1] in turn, the worker      *)
(* thread (the loop of ExecuteCopyJob, "the writer" here) drains them to   *)
(* the temporary file, and the UI thread may call Cancel() at any moment.  *)
(*                                                                         *)
(* A section of code that holds pipe.mtx is one action: the mutex is never *)
(* held across a blocking call except pthread_cond_wait, which releases    *)
(* it.  read() and write() run unlocked and are actions of their own, so   *)
(* that both threads can be inside a buffer at the same time.              *)
(* A thread in "wait" is inside pthread_cond_wait; a signal, or a spurious *)
(* wakeup, sends it back to the test of its condition.                     *)
(*                                                                         *)
(* A byte of the source is named by its offset, 1 .. FileSize.             *)
(***************************************************************************)
EXTENDS Naturals, Sequences

CONSTANTS FileSize,  \* bytes in the source file
          BufSize    \* kCopyBufSize

ASSUME PipelineAssumption == /\ FileSize \in Nat
                             /\ BufSize \in Nat \ {0}

Idx == {0, 1}

VARIABLES
    \* CopyPipeline, shared by the two threads
    buf,             \* buf[i]: the bytes the last read left in buffer i
    len,             \* len[i]: bytes to drain from buffer i, 0 when it is free
    fillIdx,
    done,
    readerErr,       \* TRUE: an errno was stored
    \* the reader thread
    srcPos,          \* file offset of srcFd
    readerPc,        \* "test", "wait", "read", "publish", "exit"
    readResult,      \* what read() returned: a byte count, or -1 as ReadError
    \* the writer, that is the worker thread in ExecuteCopyJob
    writerPc,        \* "cancel", "test", "wait", "write", "account",
                     \* "release", "stop", "join", "finished"
    drainIdx,
    nbytes,
    written,
    hasError,
    target,          \* contents of the temporary file
    copiedBytes,     \* copiedBytes_, what this job added to it
    outcome,         \* how ExecuteCopyJob leaves the pipeline
    \* the UI thread
    cancelRequested

pipe   == <<buf, len, fillIdx, done, readerErr>>
reader == <<srcPos, readerPc, readResult>>
writer == <<writerPc, drainIdx, nbytes, written, hasError, target,
            copiedBytes, outcome>>
vars   == <<pipe, reader, writer, cancelRequested>>

ReadError == BufSize + 1     \* no byte count reaches it

Init ==
    /\ buf = [i \in Idx |-> <<>>]
    /\ len = [i \in Idx |-> 0]
    /\ fillIdx = 0
    /\ done = FALSE
    /\ readerErr = FALSE
    /\ srcPos = 0
    /\ readerPc = "test"
    /\ readResult = 0
    /\ writerPc = "cancel"
    /\ drainIdx = 0
    /\ nbytes = 0
    /\ written = 0
    /\ hasError = FALSE
    /\ target = <<>>
    /\ copiedBytes = 0
    /\ outcome = "running"
    /\ cancelRequested = FALSE

(***************************************************************************)
(* Signals: pthread_cond_signal on cvReady wakes the writer, on cvFree the *)
(* reader, and is lost when the thread is not waiting.                     *)
(***************************************************************************)
AfterSignalReady == IF writerPc = "wait" THEN "test" ELSE writerPc

\* Mutant: nobody signals cvFree.
MutAfterSignalFree == readerPc
AfterSignalFree == IF readerPc = "wait" THEN "test" ELSE readerPc

\* "Swap to the other buffer".
Other(i) == 1 - i

(***************************************************************************)
(* The reader thread.                                                      *)
(***************************************************************************)
\* Where the reader goes from the head of its loop, holding the mutex.
\* Mutant: it does not wait for its buffer to be drained.
MutReaderTurn(fi, lens, stop) == IF stop THEN "exit" ELSE "read"
ReaderTurn(fi, lens, stop) ==
    IF stop THEN "exit" ELSE IF lens[fi] # 0 THEN "wait" ELSE "read"

ReaderTest ==
    /\ readerPc = "test"
    /\ readerPc' = ReaderTurn(fillIdx, len, done)
    /\ UNCHANGED <<pipe, srcPos, readResult, writer, cancelRequested>>

\* read() returned n > 0 bytes; a short read is legal.
ReadBytes ==
    /\ readerPc = "read"
    /\ \E n \in 1..BufSize :
          /\ srcPos + n <= FileSize
          /\ buf' = [buf EXCEPT ![fillIdx] = [i \in 1..n |-> srcPos + i]]
          /\ srcPos' = srcPos + n
          /\ readResult' = n
    /\ readerPc' = "publish"
    /\ UNCHANGED <<len, fillIdx, done, readerErr, writer, cancelRequested>>

ReadEof ==
    /\ readerPc = "read"
    /\ srcPos = FileSize
    /\ readResult' = 0
    /\ readerPc' = "publish"
    /\ UNCHANGED <<pipe, srcPos, writer, cancelRequested>>

ReadFails ==
    /\ readerPc = "read"
    /\ readResult' = ReadError
    /\ readerPc' = "publish"
    /\ UNCHANGED <<pipe, srcPos, writer, cancelRequested>>

\* n > 0: hand the buffer over, and run on to the next test of the loop
\* without giving the mutex back.
PublishBytes ==
    /\ readerPc = "publish"
    /\ readResult \in 1..BufSize
    /\ len' = [len EXCEPT ![fillIdx] = readResult]
    /\ fillIdx' = Other(fillIdx)
    /\ writerPc' = AfterSignalReady
    /\ readerPc' = ReaderTurn(fillIdx', len', done)
    /\ readResult' = 0
    /\ UNCHANGED <<buf, done, readerErr, srcPos, drainIdx, nbytes, written,
                   hasError, target, copiedBytes, outcome, cancelRequested>>

\* n = 0 or n < 0: the reader leaves.
PublishEnd ==
    /\ readerPc = "publish"
    /\ readResult \in {0, ReadError}
    /\ readerErr' = (readerErr \/ readResult = ReadError)
    /\ done' = TRUE
    /\ writerPc' = AfterSignalReady
    /\ readerPc' = "exit"
    /\ UNCHANGED <<buf, len, fillIdx, srcPos, readResult, drainIdx, nbytes,
                   written, hasError, target, copiedBytes, outcome,
                   cancelRequested>>

ReaderSpurious ==
    /\ readerPc = "wait"
    /\ readerPc' = "test"
    /\ UNCHANGED <<pipe, srcPos, readResult, writer, cancelRequested>>

ReaderStep == \/ ReaderTest \/ ReadBytes \/ ReadEof \/ ReadFails
              \/ PublishBytes \/ PublishEnd

(***************************************************************************)
(* The writer.                                                             *)
(***************************************************************************)
WriterCancelCheck ==
    /\ writerPc = "cancel"
    /\ IF cancelRequested
       THEN /\ done' = TRUE
            /\ readerPc' = AfterSignalFree
            /\ writerPc' = "join"
       ELSE /\ writerPc' = "test"
            /\ UNCHANGED <<done, readerPc>>
    /\ UNCHANGED <<buf, len, fillIdx, readerErr, srcPos, readResult, drainIdx,
                   nbytes, written, hasError, target, copiedBytes, outcome,
                   cancelRequested>>

\* Full buffers are drained before done is obeyed.  Mutant: they are not.
MutWriterTurn == IF done THEN "join"
                 ELSE IF len[drainIdx] # 0 THEN "write" ELSE "wait"
WriterTurn == IF len[drainIdx] # 0 THEN "write"
              ELSE IF done THEN "join" ELSE "wait"

WriterTest ==
    /\ writerPc = "test"
    /\ writerPc' = WriterTurn
    /\ nbytes' = len[drainIdx]
    /\ UNCHANGED <<pipe, reader, drainIdx, written, hasError, target,
                   copiedBytes, outcome, cancelRequested>>

\* The next k bytes of the buffer.  Mutant: after a short write the buffer is
\* written again from its start.
MutChunk(k) == SubSeq(buf[drainIdx], 1, k)
Chunk(k) == SubSeq(buf[drainIdx], written + 1, written + k)

\* write() took k bytes; a short write is legal.
WriteBytes ==
    /\ writerPc = "write"
    /\ \E k \in 1..(nbytes - written) :
          /\ target' = target \o Chunk(k)
          /\ written' = written + k
          /\ writerPc' = IF written + k = nbytes THEN "account" ELSE "write"
    /\ UNCHANGED <<pipe, reader, drainIdx, nbytes, hasError, copiedBytes,
                   outcome, cancelRequested>>

\* write() returned 0 (taken for ENOSPC) or an errno.
WriteFails ==
    /\ writerPc = "write"
    /\ hasError' = TRUE
    /\ writerPc' = "stop"
    /\ UNCHANGED <<pipe, reader, drainIdx, nbytes, written, target,
                   copiedBytes, outcome, cancelRequested>>

WriterStop ==
    /\ writerPc = "stop"
    /\ done' = TRUE
    /\ readerPc' = AfterSignalFree
    /\ writerPc' = "join"
    /\ UNCHANGED <<buf, len, fillIdx, readerErr, srcPos, readResult, drainIdx,
                   nbytes, written, hasError, target, copiedBytes, outcome,
                   cancelRequested>>

\* The progress counters, under the worker's own mutex.  Mutant: a buffer
\* counts for its capacity.
MutWriterAccount ==
    /\ writerPc = "account"
    /\ copiedBytes' = copiedBytes + BufSize
    /\ writerPc' = "release"
    /\ UNCHANGED <<pipe, reader, drainIdx, nbytes, written, hasError, target,
                   outcome, cancelRequested>>

WriterAccount ==
    /\ writerPc = "account"
    /\ copiedBytes' = copiedBytes + written
    /\ writerPc' = "release"
    /\ UNCHANGED <<pipe, reader, drainIdx, nbytes, written, hasError, target,
                   outcome, cancelRequested>>

NextDrain == Other(drainIdx)

WriterRelease ==
    /\ writerPc = "release"
    /\ len' = [len EXCEPT ![drainIdx] = 0]
    /\ drainIdx' = NextDrain
    /\ written' = 0
    /\ readerPc' = AfterSignalFree
    /\ writerPc' = "cancel"
    /\ UNCHANGED <<buf, fillIdx, done, readerErr, srcPos, readResult, nbytes,
                   hasError, target, copiedBytes, outcome, cancelRequested>>

WriterSpurious ==
    /\ writerPc = "wait"
    /\ writerPc' = "test"
    /\ UNCHANGED <<pipe, reader, drainIdx, nbytes, written, hasError, target,
                   copiedBytes, outcome, cancelRequested>>

\* The three exits of ExecuteCopyJob in their order: a cancellation wins over
\* an error, an error over success.
Exit(failed) == IF cancelRequested THEN "canceled"
                ELSE IF failed THEN "failed" ELSE "copied"

\* pthread_join, then one of the exits.
WriterJoin ==
    /\ writerPc = "join"
    /\ readerPc = "exit"
    /\ hasError' = (hasError \/ readerErr)
    /\ outcome' = Exit(hasError \/ readerErr)
    /\ writerPc' = "finished"
    /\ UNCHANGED <<pipe, reader, drainIdx, nbytes, written, target,
                   copiedBytes, cancelRequested>>

WriterStep == \/ WriterCancelCheck \/ WriterTest \/ WriteBytes \/ WriteFails
              \/ WriterStop \/ WriterAccount \/ WriterRelease \/ WriterJoin

(***************************************************************************)
(* The UI thread, and the state in which both threads are done.            *)
(***************************************************************************)
Cancel ==
    /\ ~cancelRequested
    /\ cancelRequested' = TRUE
    /\ UNCHANGED <<pipe, reader, writer>>

Finished ==
    /\ writerPc = "finished"
    /\ UNCHANGED vars

Next == \/ ReaderStep \/ WriterStep
        \/ ReaderSpurious \/ WriterSpurious
        \/ Cancel \/ Finished

\* Both threads are scheduled and every read() and write() returns; nobody
\* has to cancel, and no spurious wakeup is owed.
Fairness == WF_vars(ReaderStep) /\ WF_vars(WriterStep)

Spec     == Init /\ [][Next]_vars
FairSpec == Spec /\ Fairness

-----------------------------------------------------------------------------
(***************************************************************************)
(* Properties.                                                             *)
(***************************************************************************)
ByteSeq == Seq(1..FileSize)

\* Every variable of the two threads and of the structure they share keeps its
\* type; a buffer index in particular never leaves {0, 1}.
TypeOK ==
    /\ buf \in [Idx -> ByteSeq]
    /\ len \in [Idx -> 0..BufSize]
    /\ fillIdx \in Idx
    /\ done \in BOOLEAN
    /\ readerErr \in BOOLEAN
    /\ srcPos \in 0..FileSize
    /\ readerPc \in {"test", "wait", "read", "publish", "exit"}
    /\ readResult \in 0..ReadError
    /\ writerPc \in {"cancel", "test", "wait", "write", "account", "release",
                     "stop", "join", "finished"}
    /\ drainIdx \in Idx
    /\ nbytes \in 0..BufSize
    /\ written \in 0..BufSize
    /\ hasError \in BOOLEAN
    /\ target \in ByteSeq
    /\ copiedBytes \in Nat
    /\ outcome \in {"running", "copied", "failed", "canceled"}
    /\ cancelRequested \in BOOLEAN

FirstBytes(n) == [i \in 1..n |-> i]

\* The unlocked read() and the unlocked write() never work on the same buffer,
\* whatever the interleaving of the two threads.
BufferOwnership ==
    ~ (readerPc = "read" /\ writerPc = "write" /\ fillIdx = drainIdx)

\* The temporary file holds the first bytes of the source, in order and without
\* a gap or a repetition, also after short reads, short writes and errors.
TargetIsPrefix == target = FirstBytes(Len(target))

\* ExecuteCopyJob goes on to the rename only when the whole source has been
\* written: end of file seen by the reader never overtakes a buffer it filled.
CopiedIsComplete == outcome = "copied" => target = FirstBytes(FileSize)

\* The progress shown never runs ahead of the bytes written, and at a
\* successful end it is the size of the file.
ProgressIsHonest ==
    /\ copiedBytes <= Len(target)
    /\ outcome = "copied" => copiedBytes = FileSize

-----------------------------------------------------------------------------
(***************************************************************************)
(* The inductive invariant.  Base is the number of source bytes already    *)
(* written when the writer took its current buffer; the buffers are drained *)
(* in the order drainIdx, Other(drainIdx).                               *)
(***************************************************************************)
Base == Len(target) - written

Holds(b, from) == /\ Len(buf[b]) = len[b]
                  /\ \A i \in 1..len[b] : buf[b][i] = from + i

Pending == IF readerPc = "publish" /\ readResult \in 1..BufSize
           THEN readResult ELSE 0

\* Which buffers are full determines where the reader fills next.
FillOrder ==
    /\ len[drainIdx] = 0 => len[Other(drainIdx)] = 0 /\ fillIdx = drainIdx
    /\ len[drainIdx] # 0 /\ len[Other(drainIdx)] = 0 => fillIdx = Other(drainIdx)
    /\ len[Other(drainIdx)] # 0 => fillIdx = drainIdx
    /\ readerPc \in {"read", "publish"} => len[fillIdx] = 0

\* The source bytes are in the target, the buffers or the reader's hand.
Contents ==
    /\ TargetIsPrefix
    /\ len[drainIdx] # 0 => Holds(drainIdx, Base)
    /\ len[Other(drainIdx)] # 0 => Holds(Other(drainIdx), Base + len[drainIdx])
    /\ Pending # 0 => /\ Len(buf[fillIdx]) = Pending
                      /\ \A i \in 1..Pending :
                            buf[fillIdx][i] = srcPos - Pending + i
    /\ srcPos = Base + len[drainIdx] + len[Other(drainIdx)] + Pending

\* How far the writer is inside its buffer.
WriterPosition ==
    /\ writerPc \in {"write", "account", "release", "stop"} =>
          nbytes = len[drainIdx] /\ nbytes # 0
    /\ writerPc \in {"account", "release"} => written = nbytes
    /\ writerPc \in {"write", "stop"} => written < nbytes
    /\ writerPc \in {"cancel", "test", "wait"} => written = 0
    /\ written <= Len(target)
    /\ written <= len[drainIdx]
    /\ IF writerPc = "release" THEN copiedBytes = Len(target)
       ELSE IF writerPc \in {"join", "finished"} THEN copiedBytes <= Len(target)
       ELSE copiedBytes = Base

\* Why the copy is over.
EndReasons ==
    /\ readerPc = "publish" /\ readResult = 0 => srcPos = FileSize
    /\ readerPc = "exit" => done
    /\ writerPc = "stop" => hasError
    /\ done /\ writerPc \notin {"join", "finished"} =>
          readerPc = "exit" /\ (readerErr \/ srcPos = FileSize)
    /\ writerPc \in {"join", "finished"} =>
          \/ cancelRequested \/ hasError
          \/ readerErr /\ readerPc = "exit"
          \/ /\ readerPc = "exit" /\ srcPos = FileSize /\ written = 0
             /\ \A b \in Idx : len[b] = 0
             /\ copiedBytes = Len(target)
    /\ writerPc = "finished" <=> outcome # "running"
    /\ outcome = "copied" => target = FirstBytes(FileSize) /\ copiedBytes = FileSize

PipelineInv == TypeOK /\ FillOrder /\ Contents /\ WriterPosition /\ EndReasons

-----------------------------------------------------------------------------
(***************************************************************************)
(* Refinement and liveness.                                                *)
(***************************************************************************)
FC == INSTANCE FileCopy
        WITH out <- target, asked <- cancelRequested, result <- outcome

\* Seen from the rest of the operation, the two threads and their buffers are
\* the single growing prefix of FileCopy, with its three ways to end.
ImplementsFileCopy == FC!Spec

\* The worker thread leaves ExecuteCopyJob's pipeline and the reader thread is
\* gone: no lost wakeup keeps one of them waiting for the other.
Terminates == <>(writerPc = "finished" /\ readerPc = "exit")
=============================================================================
