------------------------- MODULE CopyPipelineProofs -------------------------
(***************************************************************************)
(* Proofs about CopyPipeline for every file size and buffer size.          *)
(***************************************************************************)
EXTENDS CopyPipeline, SequenceTheorems, TLAPS

USE DEF Idx, ReadError, ByteSeq

(***************************************************************************)
(* The k bytes write() takes after the first `written' of a full buffer.   *)
(***************************************************************************)
\* What write() takes of a buffer: k bytes of the source, following the ones
\* that have been written.
LEMMA ChunkProperties ==
    ASSUME buf[drainIdx] \in ByteSeq, written \in Nat, NEW k \in Nat,
           written + k <= Len(buf[drainIdx])
    PROVE  /\ Chunk(k) \in ByteSeq
           /\ Len(Chunk(k)) = k
           /\ \A i \in 1..k : Chunk(k)[i] = buf[drainIdx][written + i]
<1>1. \A i \in (written + 1)..(written + k) : buf[drainIdx][i] \in 1..FileSize
  <2>1. \A i \in (written + 1)..(written + k) : i \in 1..Len(buf[drainIdx])
    OBVIOUS
  <2>. QED BY <2>1, ElementOfSeq
<1>. QED BY <1>1, SubSeqProperties DEF Chunk

USE PipelineAssumption DEF pipe, reader, writer, vars

\* "Swap to the other buffer" changes the index, and twice changes nothing.
LEMMA Swap == \A i \in Idx : Other(i) \in Idx /\ Other(i) # i /\ Other(Other(i)) = i
BY DEF Other

\* There is no third buffer.
LEMMA IdxSplit == \A i, j \in Idx : j = i \/ j = Other(i)
BY DEF Other

\* Publishing or releasing a buffer leaves the count of the other one alone.
LEMMA LenUpdate ==
    ASSUME NEW f \in [Idx -> 0..BufSize], NEW b \in Idx, NEW v \in 0..BufSize
    PROVE  LET g == [f EXCEPT ![b] = v]
           IN  /\ g \in [Idx -> 0..BufSize]
               /\ g[b] = v
               /\ g[Other(b)] = f[Other(b)]
BY DEF Other

\* What a read of n bytes leaves in the buffer.
LEMMA ReadBuffer ==
    ASSUME NEW n \in 1..BufSize, srcPos \in 0..FileSize, srcPos + n <= FileSize
    PROVE  LET r == [i \in 1..n |-> srcPos + i]
           IN  r \in ByteSeq /\ Len(r) = n /\ \A i \in 1..n : r[i] = srcPos + i
<1>1. \A i \in 1..n : srcPos + i \in 1..FileSize
  OBVIOUS
<1>. QED BY <1>1

\* The bounds of the byte counts that the arithmetic below needs.
LEMMA Numbers ==
    TypeOK => /\ Len(target) \in Nat
              /\ Base \in Int
              /\ srcPos \in Nat
              /\ Pending \in 0..BufSize
              /\ \A b \in Idx : len[b] \in 0..BufSize
BY DEF TypeOK, Base, Pending

\* Handing a full buffer to the writer: the bytes in the reader's hand join
\* those that wait in the buffers.
LEMMA PublishBytesInv == PipelineInv /\ PublishBytes => PipelineInv'
<1>. SUFFICES ASSUME PipelineInv, PublishBytes PROVE PipelineInv'
  OBVIOUS
<1>. USE DEF PublishBytes
<1>0. /\ fillIdx \in Idx /\ drainIdx \in Idx /\ len \in [Idx -> 0..BufSize]
      /\ readResult \in 1..BufSize
  BY DEF PipelineInv, TypeOK
<1>a. /\ len' \in [Idx -> 0..BufSize]
      /\ len'[fillIdx] = readResult
      /\ len'[Other(fillIdx)] = len[Other(fillIdx)]
      /\ fillIdx' = Other(fillIdx)
      /\ fillIdx' \in Idx
  BY <1>0, LenUpdate, Swap
<1>b. len[fillIdx] = 0
  BY DEF PipelineInv, FillOrder
<1>1. TypeOK'
  BY <1>a DEF PipelineInv, TypeOK, AfterSignalReady, ReaderTurn
<1>2. FillOrder'
  BY <1>0, <1>a, <1>b, Swap, IdxSplit DEF PipelineInv, FillOrder, ReaderTurn
<1>3. Contents'
  <2>1. TargetIsPrefix'
    BY DEF PipelineInv, Contents, TargetIsPrefix
  <2>2. Pending = readResult /\ Pending' = 0
    BY <1>0 DEF Pending, ReaderTurn
  <2>3. Base' = Base
    BY DEF Base
  <2>7. /\ Len(buf[fillIdx]) = readResult
        /\ \A i \in 1..readResult : buf[fillIdx][i] = srcPos - readResult + i
    BY <2>2, <1>0 DEF PipelineInv, Contents
  <2>6. /\ Base \in Int
        /\ \A b \in Idx : len[b] \in 0..BufSize
    BY Numbers DEF PipelineInv
  <2>4. CASE fillIdx = drainIdx
    <3>. USE <2>4, <2>1, <2>2, <2>3, <2>6, <1>0, <1>a, <1>b, Swap
    <3>1. srcPos = Base + len[Other(fillIdx)] + readResult
      BY DEF PipelineInv, Contents, FillOrder
    <3>2. (len[drainIdx] # 0 => Holds(drainIdx, Base))'
      BY <3>1, <2>7 DEF PipelineInv, Contents, Holds, FillOrder
    <3>3. (len[Other(drainIdx)] # 0 => Holds(Other(drainIdx), Base + len[drainIdx]))'
      BY <3>1, <2>7 DEF PipelineInv, Contents, Holds, FillOrder
    <3>4. (srcPos = Base + len[drainIdx] + len[Other(drainIdx)] + Pending)'
      BY <3>1 DEF PipelineInv, TypeOK
    <3>. QED BY <3>2, <3>3, <3>4 DEF Contents
  <2>5. CASE fillIdx = Other(drainIdx)
    <3>. USE <2>5, <2>1, <2>2, <2>3, <2>6, <1>0, <1>a, <1>b, Swap
    <3>1. srcPos = Base + len[Other(fillIdx)] + readResult
      BY DEF PipelineInv, Contents, FillOrder
    <3>2. (len[drainIdx] # 0 => Holds(drainIdx, Base))'
      BY <3>1, <2>7, SMTT(30) DEF PipelineInv, Contents, Holds, FillOrder
    <3>3. (len[Other(drainIdx)] # 0 => Holds(Other(drainIdx), Base + len[drainIdx]))'
      BY <3>1, <2>7, SMTT(30) DEF PipelineInv, Contents, Holds, FillOrder
    <3>4. (srcPos = Base + len[drainIdx] + len[Other(drainIdx)] + Pending)'
      BY <3>1, SMTT(30) DEF PipelineInv, TypeOK
    <3>. QED BY <3>2, <3>3, <3>4 DEF Contents
  <2>. QED BY <2>4, <2>5, <1>0, IdxSplit
<1>4. WriterPosition'
  BY <1>0, <1>a, <1>b, IdxSplit, SMTT(30) DEF PipelineInv, TypeOK, WriterPosition, Base, AfterSignalReady
<1>5. EndReasons'
  BY <1>0, <1>a DEF PipelineInv, EndReasons, AfterSignalReady, ReaderTurn, FirstBytes
<1>. QED BY <1>1, <1>2, <1>3, <1>4, <1>5 DEF PipelineInv

\* The reader takes a buffer only when its length is 0.
LEMMA ReaderTestInv == PipelineInv /\ ReaderTest => PipelineInv'
<1>. SUFFICES ASSUME PipelineInv, ReaderTest PROVE PipelineInv'
  OBVIOUS
<1>. USE DEF ReaderTest, ReaderTurn
<1>1. TypeOK'
  BY DEF PipelineInv, TypeOK
<1>2. FillOrder'
  BY DEF PipelineInv, FillOrder
<1>3. Contents'
  BY DEF PipelineInv, Contents, TargetIsPrefix, Holds, Base, Pending
<1>4. WriterPosition'
  BY DEF PipelineInv, TypeOK, WriterPosition, Base
<1>5. EndReasons'
  BY DEF PipelineInv, EndReasons
<1>. QED BY <1>1, <1>2, <1>3, <1>4, <1>5 DEF PipelineInv

\* read() finds the end of the file.
LEMMA ReadEofInv == PipelineInv /\ ReadEof => PipelineInv'
<1>. SUFFICES ASSUME PipelineInv, ReadEof PROVE PipelineInv'
  OBVIOUS
<1>. USE DEF ReadEof
<1>1. TypeOK'
  BY DEF PipelineInv, TypeOK
<1>2. FillOrder'
  BY DEF PipelineInv, FillOrder
<1>3. Contents'
  BY DEF PipelineInv, Contents, TargetIsPrefix, Holds, Base, Pending
<1>4. WriterPosition'
  BY DEF PipelineInv, TypeOK, WriterPosition, Base
<1>5. EndReasons'
  BY DEF PipelineInv, EndReasons
<1>. QED BY <1>1, <1>2, <1>3, <1>4, <1>5 DEF PipelineInv

\* read() fails.
LEMMA ReadFailsInv == PipelineInv /\ ReadFails => PipelineInv'
<1>. SUFFICES ASSUME PipelineInv, ReadFails PROVE PipelineInv'
  OBVIOUS
<1>. USE DEF ReadFails
<1>1. TypeOK'
  BY DEF PipelineInv, TypeOK
<1>2. FillOrder'
  BY DEF PipelineInv, FillOrder
<1>3. Contents'
  BY DEF PipelineInv, Contents, TargetIsPrefix, Holds, Base, Pending
<1>4. WriterPosition'
  BY DEF PipelineInv, TypeOK, WriterPosition, Base
<1>5. EndReasons'
  BY DEF PipelineInv, EndReasons
<1>. QED BY <1>1, <1>2, <1>3, <1>4, <1>5 DEF PipelineInv

\* The reader leaves after the last byte or an error.
LEMMA PublishEndInv == PipelineInv /\ PublishEnd => PipelineInv'
<1>. SUFFICES ASSUME PipelineInv, PublishEnd PROVE PipelineInv'
  OBVIOUS
<1>. USE DEF PublishEnd, AfterSignalReady
<1>1. TypeOK'
  BY DEF PipelineInv, TypeOK
<1>2. FillOrder'
  BY DEF PipelineInv, FillOrder
<1>3. Contents'
  BY DEF PipelineInv, Contents, TargetIsPrefix, Holds, Base, Pending
<1>4. WriterPosition'
  BY DEF PipelineInv, TypeOK, WriterPosition, Base
<1>5. EndReasons'
  BY DEF PipelineInv, EndReasons
<1>. QED BY <1>1, <1>2, <1>3, <1>4, <1>5 DEF PipelineInv

\* The writer looks for a cancellation between two buffers.
LEMMA WriterCancelCheckInv == PipelineInv /\ WriterCancelCheck => PipelineInv'
<1>. SUFFICES ASSUME PipelineInv, WriterCancelCheck PROVE PipelineInv'
  OBVIOUS
<1>. USE DEF WriterCancelCheck, AfterSignalFree
<1>1. TypeOK'
  <2>1. CASE cancelRequested
    BY <2>1 DEF PipelineInv, TypeOK
  <2>2. CASE ~cancelRequested
    BY <2>2 DEF PipelineInv, TypeOK
  <2>. QED BY <2>1, <2>2
<1>2. FillOrder'
  BY DEF PipelineInv, FillOrder
<1>3. Contents'
  BY DEF PipelineInv, Contents, TargetIsPrefix, Holds, Base, Pending
<1>4. WriterPosition'
  BY DEF PipelineInv, TypeOK, WriterPosition, Base
<1>5. EndReasons'
  BY DEF PipelineInv, EndReasons
<1>. QED BY <1>1, <1>2, <1>3, <1>4, <1>5 DEF PipelineInv

\* The writer takes a full buffer before it obeys done.
LEMMA WriterTestInv == PipelineInv /\ WriterTest => PipelineInv'
<1>. SUFFICES ASSUME PipelineInv, WriterTest PROVE PipelineInv'
  OBVIOUS
<1>. USE DEF WriterTest, WriterTurn
<1>1. TypeOK'
  BY DEF PipelineInv, TypeOK
<1>2. FillOrder'
  BY DEF PipelineInv, FillOrder
<1>3. Contents'
  BY DEF PipelineInv, Contents, TargetIsPrefix, Holds, Base, Pending
<1>4. WriterPosition'
  BY DEF PipelineInv, TypeOK, WriterPosition, Base
<1>5. EndReasons'
  <2>1. CASE writerPc' = "join"
    <3>1. len[drainIdx] = 0 /\ done
      BY <2>1
    <3>2. \A b \in Idx : len[b] = 0
      BY <3>1, IdxSplit DEF PipelineInv, TypeOK, FillOrder
    <3>3. written = 0 /\ copiedBytes = Len(target)
      BY Numbers DEF PipelineInv, WriterPosition, Base
    <3>4. readerPc = "exit" /\ (readerErr \/ srcPos = FileSize)
      BY <3>1 DEF PipelineInv, EndReasons
    <3>. QED BY <2>1, <3>2, <3>3, <3>4 DEF PipelineInv, EndReasons
  <2>2. CASE writerPc' # "join"
    BY <2>2 DEF PipelineInv, EndReasons
  <2>. QED BY <2>1, <2>2
<1>. QED BY <1>1, <1>2, <1>3, <1>4, <1>5 DEF PipelineInv

\* write() fails.
LEMMA WriteFailsInv == PipelineInv /\ WriteFails => PipelineInv'
<1>. SUFFICES ASSUME PipelineInv, WriteFails PROVE PipelineInv'
  OBVIOUS
<1>. USE DEF WriteFails
<1>1. TypeOK'
  BY DEF PipelineInv, TypeOK
<1>2. FillOrder'
  BY DEF PipelineInv, FillOrder
<1>3. Contents'
  BY DEF PipelineInv, Contents, TargetIsPrefix, Holds, Base, Pending
<1>4. WriterPosition'
  BY DEF PipelineInv, TypeOK, WriterPosition, Base
<1>5. EndReasons'
  BY DEF PipelineInv, EndReasons
<1>. QED BY <1>1, <1>2, <1>3, <1>4, <1>5 DEF PipelineInv

\* The writer stops the reader after an error.
LEMMA WriterStopInv == PipelineInv /\ WriterStop => PipelineInv'
<1>. SUFFICES ASSUME PipelineInv, WriterStop PROVE PipelineInv'
  OBVIOUS
<1>. USE DEF WriterStop, AfterSignalFree
<1>1. TypeOK'
  BY DEF PipelineInv, TypeOK
<1>2. FillOrder'
  BY DEF PipelineInv, FillOrder
<1>3. Contents'
  BY DEF PipelineInv, Contents, TargetIsPrefix, Holds, Base, Pending
<1>4. WriterPosition'
  BY DEF PipelineInv, TypeOK, WriterPosition, Base
<1>5. EndReasons'
  BY DEF PipelineInv, EndReasons
<1>. QED BY <1>1, <1>2, <1>3, <1>4, <1>5 DEF PipelineInv

\* The bytes of a buffer that has been written are counted.
LEMMA WriterAccountInv == PipelineInv /\ WriterAccount => PipelineInv'
<1>. SUFFICES ASSUME PipelineInv, WriterAccount PROVE PipelineInv'
  OBVIOUS
<1>. USE DEF WriterAccount
<1>1. TypeOK'
  BY DEF PipelineInv, TypeOK
<1>2. FillOrder'
  BY DEF PipelineInv, FillOrder
<1>3. Contents'
  BY DEF PipelineInv, Contents, TargetIsPrefix, Holds, Base, Pending
<1>4. WriterPosition'
  BY DEF PipelineInv, TypeOK, WriterPosition, Base
<1>5. EndReasons'
  BY DEF PipelineInv, EndReasons
<1>. QED BY <1>1, <1>2, <1>3, <1>4, <1>5 DEF PipelineInv

\* The reader is gone; the writer chooses its exit.
LEMMA WriterJoinInv == PipelineInv /\ WriterJoin => PipelineInv'
<1>. SUFFICES ASSUME PipelineInv, WriterJoin PROVE PipelineInv'
  OBVIOUS
<1>. USE DEF WriterJoin, Exit
<1>1. TypeOK'
  BY DEF PipelineInv, TypeOK
<1>2. FillOrder'
  BY DEF PipelineInv, FillOrder
<1>3. Contents'
  BY DEF PipelineInv, Contents, TargetIsPrefix, Holds, Base, Pending
<1>4. WriterPosition'
  BY DEF PipelineInv, TypeOK, WriterPosition, Base
<1>5. EndReasons'
  <2>1. CASE outcome' = "copied"
    <3>1. srcPos = FileSize /\ written = 0 /\ copiedBytes = Len(target)
          /\ \A b \in Idx : len[b] = 0
      BY <2>1 DEF PipelineInv, EndReasons
    <3>2. Len(target) = FileSize
      BY <3>1, Numbers, Swap DEF PipelineInv, TypeOK, Contents, Base, Pending
    <3>3. target = FirstBytes(FileSize)
      BY <3>2 DEF PipelineInv, Contents, TargetIsPrefix
    <3>. QED BY <2>1, <3>1, <3>2, <3>3 DEF PipelineInv, EndReasons
  <2>2. CASE outcome' # "copied"
    BY <2>2 DEF PipelineInv, EndReasons
  <2>. QED BY <2>1, <2>2
<1>. QED BY <1>1, <1>2, <1>3, <1>4, <1>5 DEF PipelineInv

\* A spurious wakeup of the reader.
LEMMA ReaderSpuriousInv == PipelineInv /\ ReaderSpurious => PipelineInv'
<1>. SUFFICES ASSUME PipelineInv, ReaderSpurious PROVE PipelineInv'
  OBVIOUS
<1>. USE DEF ReaderSpurious
<1>1. TypeOK'
  BY DEF PipelineInv, TypeOK
<1>2. FillOrder'
  BY DEF PipelineInv, FillOrder
<1>3. Contents'
  BY DEF PipelineInv, Contents, TargetIsPrefix, Holds, Base, Pending
<1>4. WriterPosition'
  BY DEF PipelineInv, TypeOK, WriterPosition, Base
<1>5. EndReasons'
  BY DEF PipelineInv, EndReasons
<1>. QED BY <1>1, <1>2, <1>3, <1>4, <1>5 DEF PipelineInv

\* A spurious wakeup of the writer.
LEMMA WriterSpuriousInv == PipelineInv /\ WriterSpurious => PipelineInv'
<1>. SUFFICES ASSUME PipelineInv, WriterSpurious PROVE PipelineInv'
  OBVIOUS
<1>. USE DEF WriterSpurious
<1>1. TypeOK'
  BY DEF PipelineInv, TypeOK
<1>2. FillOrder'
  BY DEF PipelineInv, FillOrder
<1>3. Contents'
  BY DEF PipelineInv, Contents, TargetIsPrefix, Holds, Base, Pending
<1>4. WriterPosition'
  BY DEF PipelineInv, TypeOK, WriterPosition, Base
<1>5. EndReasons'
  BY DEF PipelineInv, EndReasons
<1>. QED BY <1>1, <1>2, <1>3, <1>4, <1>5 DEF PipelineInv

\* A cancellation touches neither thread.
LEMMA CancelInv == PipelineInv /\ Cancel => PipelineInv'
<1>. SUFFICES ASSUME PipelineInv, Cancel PROVE PipelineInv'
  OBVIOUS
<1>. USE DEF Cancel
<1>1. TypeOK'
  BY DEF PipelineInv, TypeOK
<1>2. FillOrder'
  BY DEF PipelineInv, FillOrder
<1>3. Contents'
  BY DEF PipelineInv, Contents, TargetIsPrefix, Holds, Base, Pending
<1>4. WriterPosition'
  BY DEF PipelineInv, TypeOK, WriterPosition, Base
<1>5. EndReasons'
  BY DEF PipelineInv, EndReasons
<1>. QED BY <1>1, <1>2, <1>3, <1>4, <1>5 DEF PipelineInv

\* The pipeline has come to its end.
LEMMA FinishedInv == PipelineInv /\ Finished => PipelineInv'
<1>. SUFFICES ASSUME PipelineInv, Finished PROVE PipelineInv'
  OBVIOUS
<1>. USE DEF Finished
<1>1. TypeOK'
  BY DEF PipelineInv, TypeOK
<1>2. FillOrder'
  BY DEF PipelineInv, FillOrder
<1>3. Contents'
  BY DEF PipelineInv, Contents, TargetIsPrefix, Holds, Base, Pending
<1>4. WriterPosition'
  BY DEF PipelineInv, TypeOK, WriterPosition, Base
<1>5. EndReasons'
  BY DEF PipelineInv, EndReasons
<1>. QED BY <1>1, <1>2, <1>3, <1>4, <1>5 DEF PipelineInv

\* read() fills the buffer at fillIdx, which the writer does not own.
LEMMA ReadBytesInv == PipelineInv /\ ReadBytes => PipelineInv'
<1>. SUFFICES ASSUME PipelineInv, ReadBytes PROVE PipelineInv'
  OBVIOUS
<1>0. PICK n \in 1..BufSize :
          /\ srcPos + n <= FileSize
          /\ buf' = [buf EXCEPT ![fillIdx] = [i \in 1..n |-> srcPos + i]]
          /\ srcPos' = srcPos + n
          /\ readResult' = n
  BY DEF ReadBytes
<1>a. /\ srcPos \in 0..FileSize /\ fillIdx \in Idx /\ drainIdx \in Idx
      /\ buf \in [Idx -> ByteSeq] /\ len[fillIdx] = 0 /\ readerPc = "read"
  BY DEF ReadBytes, PipelineInv, TypeOK, FillOrder
<1>b. /\ buf' \in [Idx -> ByteSeq]
      /\ Len(buf'[fillIdx]) = n
      /\ \A i \in 1..n : buf'[fillIdx][i] = srcPos + i
      /\ \A b \in Idx : len[b] # 0 => buf'[b] = buf[b]
  BY <1>0, <1>a, ReadBuffer
<1>c. UNCHANGED <<len, fillIdx, done, readerErr, writer, cancelRequested>> /\ readerPc' = "publish"
  BY DEF ReadBytes
<1>1. TypeOK'
  BY <1>0, <1>a, <1>b, <1>c DEF PipelineInv, TypeOK
<1>2. FillOrder'
  BY <1>a, <1>c DEF PipelineInv, FillOrder
<1>3. Contents'
  <2>. USE <1>0, <1>a, <1>b, <1>c
  <2>1. Pending = 0 /\ Pending' = n /\ Base' = Base
    BY DEF Pending, Base
  <2>2. TargetIsPrefix'
    BY DEF PipelineInv, Contents, TargetIsPrefix
  <2>3. (len[drainIdx] # 0 => Holds(drainIdx, Base))'
    BY <2>1 DEF PipelineInv, Contents, Holds
  <2>4. (len[Other(drainIdx)] # 0 => Holds(Other(drainIdx), Base + len[drainIdx]))'
    BY <2>1, Swap DEF PipelineInv, Contents, Holds
  <2>5. /\ Len(buf'[fillIdx']) = Pending'
        /\ \A i \in 1..Pending' : buf'[fillIdx'][i] = srcPos' - Pending' + i
    BY <2>1
  <2>6. (srcPos = Base + len[drainIdx] + len[Other(drainIdx)] + Pending)'
    <3>0. /\ Base \in Int /\ srcPos \in Nat
          /\ len[drainIdx] \in Nat /\ len[Other(drainIdx)] \in Nat
      BY Swap, Numbers, SMTT(30) DEF PipelineInv
    <3>1. srcPos = Base + len[drainIdx] + len[Other(drainIdx)]
      BY <3>0, <2>1, SMTT(30) DEF PipelineInv, Contents
    <3>. QED BY <2>1, <3>0, <3>1
  <2>. QED BY <2>2, <2>3, <2>4, <2>5, <2>6 DEF Contents
<1>4. WriterPosition'
  BY <1>a, <1>c DEF PipelineInv, WriterPosition, Base
<1>5. EndReasons'
  BY <1>0, <1>a, <1>c DEF PipelineInv, EndReasons
<1>. QED BY <1>1, <1>2, <1>3, <1>4, <1>5 DEF PipelineInv

\* A write, short or not, extends the target by the next bytes of the source.
LEMMA WriteExtends ==
    ASSUME PipelineInv, writerPc = "write", NEW k \in 1..(nbytes - written),
           target' = target \o Chunk(k)
    PROVE  /\ target' \in ByteSeq
           /\ Len(target') = Len(target) + k
           /\ target' = FirstBytes(Len(target'))
<1>a. /\ nbytes \in 1..BufSize /\ written \in 0..BufSize /\ k \in Nat /\ written + k <= nbytes
      /\ drainIdx \in Idx /\ target \in ByteSeq /\ buf[drainIdx] \in ByteSeq
      /\ nbytes = len[drainIdx] /\ Len(target) \in Nat /\ written <= Len(target)
  <2>1. /\ nbytes \in 0..BufSize /\ written \in 0..BufSize
        /\ drainIdx \in Idx /\ target \in ByteSeq /\ buf[drainIdx] \in ByteSeq
    BY DEF PipelineInv, TypeOK
  <2>2. nbytes = len[drainIdx] /\ nbytes # 0 /\ written <= Len(target)
    BY DEF PipelineInv, WriterPosition
  <2>3. Len(target) \in Nat
    BY <2>1, LenProperties
  <2>4. k \in Nat /\ written + k <= nbytes /\ nbytes \in 1..BufSize
    BY <2>1, <2>2
  <2>. QED BY <2>1, <2>2, <2>3, <2>4
<1>1. Holds(drainIdx, Base) /\ target = FirstBytes(Len(target))
  BY <1>a DEF PipelineInv, Contents, TargetIsPrefix
<1>2. /\ Chunk(k) \in ByteSeq
      /\ Len(Chunk(k)) = k
      /\ \A i \in 1..k : Chunk(k)[i] = Len(target) + i
  <2>1. Len(buf[drainIdx]) = nbytes /\ \A i \in 1..nbytes : buf[drainIdx][i] = (Len(target) - written) + i
    BY <1>a, <1>1 DEF Holds, Base
  <2>2. /\ Chunk(k) \in ByteSeq
        /\ Len(Chunk(k)) = k
        /\ \A i \in 1..k : Chunk(k)[i] = buf[drainIdx][written + i]
    BY <1>a, <2>1, ChunkProperties
  <2>3. \A i \in 1..k : written + i \in 1..nbytes /\ (Len(target) - written) + (written + i) = Len(target) + i
    BY <1>a
  <2>. QED BY <2>1, <2>2, <2>3
<1>3. /\ target' \in ByteSeq
      /\ Len(target') = Len(target) + k
      /\ \A i \in 1..Len(target) + k :
            target'[i] = IF i <= Len(target) THEN target[i]
                         ELSE Chunk(k)[i - Len(target)]
  <2>. DEFINE S == 1..FileSize
  <2>1. target \in Seq(S) /\ Chunk(k) \in Seq(S)
    BY <1>a, <1>2
  <2>. HIDE DEF S
  <2>2. /\ target \o Chunk(k) \in Seq(S)
        /\ Len(target \o Chunk(k)) = Len(target) + Len(Chunk(k))
        /\ \A i \in 1..Len(target) + Len(Chunk(k)) :
              (target \o Chunk(k))[i] = IF i <= Len(target) THEN target[i]
                                        ELSE Chunk(k)[i - Len(target)]
    BY <2>1, ConcatProperties
  <2>. QED BY <1>2, <2>2 DEF S
<1>4. \A i \in 1..Len(target) + k : target'[i] = i
  <2>1. \A i \in 1..Len(target) : target[i] = i
    BY <1>1 DEF FirstBytes
  <2>2. \A i \in 1..Len(target) + k : ~(i <= Len(target)) => i - Len(target) \in 1..k
    BY <1>a
  <2>3. \A i \in 1..Len(target) + k : ~(i <= Len(target)) => Chunk(k)[i - Len(target)] = i
    BY <1>a, <1>2, <2>2
  <2>4. TAKE i \in 1..Len(target) + k
  <2>5. i \in Nat /\ Len(target) \in Nat /\ (i <= Len(target) => i \in 1..Len(target))
    BY <1>a
  <2>6. CASE i <= Len(target)
    BY <1>3, <2>1, <2>5, <2>6
  <2>7. CASE ~(i <= Len(target))
    BY <1>3, <2>3, <2>5, <2>7
  <2>. QED BY <2>6, <2>7
<1>. QED
  BY <1>a, <1>3, <1>4, LenProperties DEF FirstBytes

\* write() moves bytes from the buffer at drainIdx to the target.
LEMMA WriteBytesInv == PipelineInv /\ WriteBytes => PipelineInv'
<1>. SUFFICES ASSUME PipelineInv, WriteBytes PROVE PipelineInv'
  OBVIOUS
<1>0. PICK k \in 1..(nbytes - written) :
          /\ target' = target \o Chunk(k)
          /\ written' = written + k
          /\ writerPc' = IF written + k = nbytes THEN "account" ELSE "write"
  BY DEF WriteBytes
<1>a. /\ nbytes \in 1..BufSize /\ written \in 0..BufSize /\ k \in Nat /\ written + k <= nbytes
      /\ drainIdx \in Idx /\ target \in ByteSeq /\ buf[drainIdx] \in ByteSeq
      /\ nbytes = len[drainIdx] /\ Len(target) \in Nat /\ written <= Len(target)
      /\ writerPc = "write"
  <2>1. /\ nbytes \in 0..BufSize /\ written \in 0..BufSize
        /\ drainIdx \in Idx /\ target \in ByteSeq /\ buf[drainIdx] \in ByteSeq
    BY DEF PipelineInv, TypeOK
  <2>2. writerPc = "write"
    BY DEF WriteBytes
  <2>3. nbytes = len[drainIdx] /\ nbytes # 0 /\ written <= Len(target)
    BY <2>2 DEF PipelineInv, WriterPosition
  <2>4. Len(target) \in Nat
    BY <2>1, LenProperties
  <2>5. k \in Nat /\ written + k <= nbytes /\ nbytes \in 1..BufSize
    BY <1>0, <2>1, <2>3
  <2>. QED BY <2>1, <2>2, <2>3, <2>4, <2>5
<1>b. UNCHANGED <<pipe, reader, drainIdx, nbytes, hasError, copiedBytes, outcome, cancelRequested>>
  BY DEF WriteBytes
<1>c. /\ target' \in ByteSeq
      /\ Len(target') = Len(target) + k
      /\ target' = FirstBytes(Len(target'))
  BY <1>0, <1>a, WriteExtends
<1>d. Base' = Base
  BY <1>0, <1>a, <1>c DEF Base
<1>1. TypeOK'
  BY <1>0, <1>a, <1>b, <1>c DEF PipelineInv, TypeOK
<1>2. FillOrder'
  BY <1>b DEF PipelineInv, FillOrder
<1>3. Contents'
  BY <1>b, <1>c, <1>d DEF PipelineInv, Contents, TargetIsPrefix, Holds, Pending
<1>4. WriterPosition'
  <2>1. /\ nbytes' = len'[drainIdx'] /\ nbytes' # 0
        /\ written' <= Len(target') /\ written' <= len'[drainIdx']
        /\ written' \in Nat
    BY <1>0, <1>a, <1>b, <1>c
  <2>2. copiedBytes' = Base'
    BY <1>a, <1>b, <1>d DEF PipelineInv, WriterPosition
  <2>3. CASE written + k = nbytes
    <3>1. writerPc' = "account" /\ written' = nbytes'
      BY <1>0, <1>b, <2>3
    <3>. QED BY <2>1, <2>2, <3>1 DEF WriterPosition
  <2>4. CASE written + k # nbytes
    <3>1. writerPc' = "write" /\ written' < nbytes'
      BY <1>0, <1>a, <1>b, <2>4
    <3>. QED BY <2>1, <2>2, <3>1 DEF WriterPosition
  <2>. QED BY <2>3, <2>4
<1>5. EndReasons'
  BY <1>0, <1>a, <1>b DEF PipelineInv, EndReasons
<1>. QED BY <1>1, <1>2, <1>3, <1>4, <1>5 DEF PipelineInv

\* A drained buffer is given back and the writer turns to the other one.
LEMMA WriterReleaseInv == PipelineInv /\ WriterRelease => PipelineInv'
<1>. SUFFICES ASSUME PipelineInv, WriterRelease PROVE PipelineInv'
  OBVIOUS
<1>0. /\ drainIdx \in Idx /\ len \in [Idx -> 0..BufSize] /\ written = len[drainIdx]
      /\ written # 0 /\ writerPc = "release"
  BY DEF WriterRelease, PipelineInv, TypeOK, WriterPosition
<1>a. /\ len' \in [Idx -> 0..BufSize]
      /\ len'[drainIdx] = 0
      /\ len'[Other(drainIdx)] = len[Other(drainIdx)]
      /\ drainIdx' = Other(drainIdx)
      /\ Other(drainIdx') = drainIdx
      /\ drainIdx' \in Idx
  BY <1>0, LenUpdate, Swap DEF WriterRelease, NextDrain
<1>b. /\ UNCHANGED <<buf, fillIdx, done, readerErr, srcPos, readResult, nbytes,
                    hasError, target, copiedBytes, outcome, cancelRequested>>
      /\ written' = 0 /\ writerPc' = "cancel" /\ readerPc' = AfterSignalFree
  BY DEF WriterRelease
<1>c. Base' = Base + len[drainIdx]
  BY <1>0, <1>b, Numbers DEF PipelineInv, Base
<1>1. TypeOK'
  BY <1>a, <1>b DEF PipelineInv, TypeOK, AfterSignalFree
<1>2. FillOrder'
  BY <1>0, <1>a, <1>b, Swap DEF PipelineInv, FillOrder, AfterSignalFree
<1>3. Contents'
  <2>. USE <1>0, <1>a, <1>b, <1>c
  <2>1. TargetIsPrefix'
    BY DEF PipelineInv, Contents, TargetIsPrefix
  <2>2. (len[drainIdx] # 0 => Holds(drainIdx, Base))'
    BY DEF PipelineInv, Contents, Holds
  <2>3. Pending' = Pending
    BY DEF Pending, AfterSignalFree
  <2>4. (Pending # 0 => /\ Len(buf[fillIdx]) = Pending
                        /\ \A i \in 1..Pending : buf[fillIdx][i] = srcPos - Pending + i)'
    BY <2>3 DEF PipelineInv, Contents
  <2>5. (srcPos = Base + len[drainIdx] + len[Other(drainIdx)] + Pending)'
    <3>1. srcPos = Base + len[drainIdx] + len[Other(drainIdx)] + Pending
      BY DEF PipelineInv, Contents
    <3>2. /\ Base \in Int /\ Pending \in Int
          /\ len[drainIdx] \in Int /\ len[Other(drainIdx)] \in Int
      BY Numbers, Swap DEF PipelineInv
    <3>3. len'[drainIdx'] = len[Other(drainIdx)] /\ len'[Other(drainIdx')] = 0
      OBVIOUS
    <3>. QED BY <2>3, <3>1, <3>2, <3>3
  <2>. QED BY <2>1, <2>2, <2>4, <2>5 DEF Contents
<1>4. WriterPosition'
  BY <1>0, <1>a, <1>b, <1>c, Numbers, SMTT(30) DEF PipelineInv, WriterPosition, Base
<1>5. EndReasons'
  BY <1>0, <1>b DEF PipelineInv, EndReasons, AfterSignalFree
<1>. QED BY <1>1, <1>2, <1>3, <1>4, <1>5 DEF PipelineInv

-----------------------------------------------------------------------------
(***************************************************************************)
(* The invariant holds, for every file size and every buffer size.         *)
(***************************************************************************)
\* The invariant holds when the reader thread has just been created.
LEMMA InitInv == Init => PipelineInv
<1>1. <<>> \in Seq(1..FileSize) /\ Len(<<>>) = 0 /\ FirstBytes(0) = <<>>
  BY DEF FirstBytes
<1>. QED
  BY <1>1 DEF Init, PipelineInv, TypeOK, FillOrder, Contents, TargetIsPrefix, Holds, Base,
              Pending, WriterPosition, EndReasons, Other

\* Steps of the rest of the program keep the invariant.
LEMMA StutterInv == PipelineInv /\ UNCHANGED vars => PipelineInv'
BY DEF PipelineInv, TypeOK, FillOrder, Contents, TargetIsPrefix, Holds, Base, Pending,
       WriterPosition, EndReasons

\* Every step keeps the invariant.
LEMMA NextInv == PipelineInv /\ [Next]_vars => PipelineInv'
BY ReaderTestInv, ReadBytesInv, ReadEofInv,
   ReadFailsInv, PublishBytesInv, PublishEndInv,
   WriterCancelCheckInv, WriterTestInv, WriteBytesInv,
   WriteFailsInv, WriterStopInv, WriterAccountInv,
   WriterReleaseInv, WriterJoinInv, ReaderSpuriousInv,
   WriterSpuriousInv, CancelInv, FinishedInv,
   StutterInv
   DEF Next, ReaderStep, WriterStep

\* Every reachable state of the pipeline satisfies the inductive invariant:
\* full buffers follow each other from drainIdx on, and the bytes read are
\* those in the target, the buffers and the reader's hand, in source order.
THEOREM PipelineInvariance == Spec => []PipelineInv
<1>1. Init => PipelineInv
  BY InitInv
<1>2. PipelineInv /\ [Next]_vars => PipelineInv'
  BY NextInv
<1>. QED BY <1>1, <1>2, PTL DEF Spec

\* The variables of both threads keep their types, the indices among them.
THEOREM TypeCorrectness == Spec => []TypeOK
<1>1. PipelineInv => TypeOK
  BY DEF PipelineInv
<1>. QED BY <1>1, PipelineInvariance, PTL

\* The unlocked read() and the unlocked write() never share a buffer.
THEOREM NoSharedBuffer == Spec => []BufferOwnership
<1>1. PipelineInv => BufferOwnership
  BY DEF PipelineInv, FillOrder, WriterPosition, BufferOwnership
<1>. QED BY <1>1, PipelineInvariance, PTL

\* The temporary file is a prefix of the source in every state.
THEOREM Integrity == Spec => []TargetIsPrefix
<1>1. PipelineInv => TargetIsPrefix
  BY DEF PipelineInv, Contents
<1>. QED BY <1>1, PipelineInvariance, PTL

\* ExecuteCopyJob renames only a complete copy.
THEOREM Completeness == Spec => []CopiedIsComplete
<1>1. PipelineInv => CopiedIsComplete
  BY DEF PipelineInv, EndReasons, CopiedIsComplete
<1>. QED BY <1>1, PipelineInvariance, PTL

\* The progress counter counts bytes that have been written.
THEOREM HonestProgress == Spec => []ProgressIsHonest
<1>1. PipelineInv => ProgressIsHonest
  BY Numbers DEF PipelineInv, TypeOK, WriterPosition, EndReasons, ProgressIsHonest, Base
<1>. QED BY <1>1, PipelineInvariance, PTL

-----------------------------------------------------------------------------
(***************************************************************************)
(* Refinement: the two threads implement FileCopy.                         *)
(***************************************************************************)
\* The target never grows beyond the source.
LEMMA TargetFits == PipelineInv => Len(target) <= FileSize
<1>. SUFFICES ASSUME PipelineInv PROVE Len(target) <= FileSize
  OBVIOUS
<1>1. /\ Len(target) \in Nat /\ written \in Nat /\ srcPos \in Nat /\ srcPos <= FileSize
      /\ Pending \in Nat /\ len[drainIdx] \in Nat /\ len[Other(drainIdx)] \in Nat
      /\ Len(target) = Base + written
  BY Numbers, Swap DEF PipelineInv, TypeOK, Base
<1>2. written <= len[drainIdx] /\ srcPos = Base + len[drainIdx] + len[Other(drainIdx)] + Pending
  BY DEF PipelineInv, WriterPosition, Contents
<1>3. Base \in Int
  BY Numbers DEF PipelineInv
<1>. QED BY <1>1, <1>2, <1>3

\* The refinement: the pipeline starts with an empty copy.
LEMMA InitRefines == Init => FC!Init
<1>1. <<>> = FirstBytes(0)
  BY DEF FirstBytes
<1>. QED BY DEF Init, FC!Init

\* A write() extends the copy.
LEMMA WriteBytesRefines == PipelineInv /\ PipelineInv' /\ WriteBytes => FC!Extend
<1>. SUFFICES ASSUME PipelineInv, PipelineInv', WriteBytes PROVE FC!Extend
  OBVIOUS
<1>0. PICK k \in 1..(nbytes - written) : target' = target \o Chunk(k)
  BY DEF WriteBytes
<1>1. target' = FirstBytes(Len(target')) /\ Len(target') = Len(target) + k
  BY <1>0, WriteExtends DEF WriteBytes
<1>2. Len(target) \in Nat /\ k \in Nat \ {0} /\ Len(target') <= FileSize
  <2>1. (Len(target) <= FileSize)'
    BY TargetFits, PTL
  <2>. QED BY <2>1, Numbers DEF PipelineInv, TypeOK
<1>3. outcome = "running"
  BY DEF WriteBytes, PipelineInv, EndReasons
<1>4. UNCHANGED <<cancelRequested, outcome>>
  BY DEF WriteBytes
<1>. QED BY <1>1, <1>2, <1>3, <1>4 DEF FC!Extend, FC!FirstBytes, FirstBytes

\* The exit after pthread_join is one of the three ends of FileCopy.
LEMMA JoinRefines ==
    PipelineInv /\ PipelineInv' /\ WriterJoin => FC!Succeed \/ FC!Abort \/ FC!Break
BY DEF WriterJoin, Exit, PipelineInv, EndReasons, FC!Succeed, FC!Abort, FC!Break,
       FC!FirstBytes, FirstBytes

\* Cancel() asks for the end.
LEMMA CancelRefines == Cancel => FC!Ask
BY DEF Cancel, FC!Ask

\* All that the two threads do between themselves is invisible.
LEMMA OthersStutter ==
    [Next]_vars /\ ~WriteBytes /\ ~WriterJoin /\ ~Cancel => UNCHANGED FC!vars
BY DEF Next, ReaderStep, WriterStep, FC!vars, ReaderTest, ReadBytes, ReadEof, ReadFails,
       PublishBytes, PublishEnd, ReaderSpurious, WriterCancelCheck, WriterTest, WriteFails,
       WriterStop, WriterAccount, WriterRelease, WriterSpurious, Finished

\* Double buffering, condition variables and short transfers are invisible
\* outside: the copy of one file behaves as FileCopy says.
THEOREM Refinement == Spec => ImplementsFileCopy
<1>1. Init => FC!Init
  BY InitRefines
<1>2. PipelineInv /\ PipelineInv' /\ [Next]_vars => [FC!Next]_(FC!vars)
  BY WriteBytesRefines, JoinRefines, CancelRefines, OthersStutter DEF FC!Next
<1>. QED BY <1>1, <1>2, PipelineInvariance, PTL DEF Spec, ImplementsFileCopy, FC!Spec
=============================================================================
