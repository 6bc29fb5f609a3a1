---------------------------- MODULE PipelineProofs ----------------------------
(***************************************************************************)
(* Proofs about Pipeline, for every number of records, every capacity of   *)
(* the channel, every part size and every number of faults.                *)
(*                                                                         *)
(* StreamInv follows the rows through the channel, the pipe and the hash   *)
(* reader into the upload.  It is only about a live context: a cancelled   *)
(* reader may drop the record it was sending, and what the writer makes of *)
(* that never becomes an object.                                           *)
(***************************************************************************)
EXTENDS Pipeline, SequenceTheorems, TLAPS

\* The rows put into the channel, and those the writer has taken from it.
Sent  == IF rd.pc = "send" THEN rd.got - 1 ELSE rd.got
Taken == Sent - Len(channel)

\* A file of k records before its footer.
Prefix(k) == [i \in 1..(k + 1) |-> i - 1]
Written   == hashed \o pipe.data

\* What the reader has sent is what the writer has taken and what is queued.
QueueInv ==
    /\ rd.got <= rows
    /\ rd.pc = "send" => rd.got > 0
    /\ Taken >= 0
    /\ \A i \in 1..Len(channel) : channel[i] = Taken + i
    /\ rd.pc = "done" => cut \/ rd.got = rows

\* What the writer has written is a file of the rows it has taken.
FileInv ==
    /\ wr.pc = "create" => Taken = 0 /\ hashed = <<>>
    /\ ~wr.err /\ wr.pc \in {"take", "footer"} => Written = Prefix(Taken)
    /\ ~wr.err /\ wr.pc \in {"report", "close", "done"} => Written = Atomic!FileOf(Taken)
    /\ ~wr.err /\ wr.pc \in {"footer", "report", "close", "done"} =>
          channel = <<>> /\ rd.pc = "done"

StreamInv == live => QueueInv /\ FileInv

\* Where the writer is, against the pipe's end and the outcome it has sent.
WriterInv ==
    /\ wr.pc \in {"create", "footer", "close", "done"} => pipe.data = <<>>
    /\ wr.pc \in {"create", "take", "close"} => ~wr.err
    /\ pipe.end = "eof" => wr.pc = "done" /\ ~wr.err
    /\ outcome = "err" => wr.err /\ wr.pc = "done"
    /\ wr.pc \in {"close", "done"} /\ ~wr.err => outcome = "ok"

\* The bytes hashed are the bytes uploaded and the bytes still in the buffer.
UploaderInv ==
    /\ up.pc \in {"wait", "create", "read"} => hashed = upload.data \o up.buf
    /\ up.pc \in {"wait", "create", "read", "abort", "failed"} => object = None
    /\ up.pc \in {"outcome", "committed"} =>
          object = hashed /\ object # None /\ pipe.end = "eof"

IInv == TypeOK /\ WriterInv /\ UploaderInv /\ StreamInv

-----------------------------------------------------------------------------
(* Sequences. *)

\* Nothing follows.
LEMMA ConcatNothing == ASSUME NEW S, NEW s \in Seq(S) PROVE s \o <<>> = s
BY ConcatEmptySeq

\* A buffer grows at the end of what it follows.
LEMMA ConcatAppend ==
    ASSUME NEW S, NEW s \in Seq(S), NEW t \in Seq(S), NEW c \in S
    PROVE  s \o Append(t, c) = Append(s \o t, c)
OBVIOUS

\* A pipe that holds anything holds one chunk.
LEMMA OneChunk ==
    ASSUME NEW S, NEW s \in Seq(S), NEW d \in Seq(S), Len(d) <= 1, d # <<>>
    PROVE  /\ d = <<Head(d)>> /\ Head(d) \in S
           /\ s \o d = Append(s, Head(d))
<1>1. Len(d) \in Nat /\ Len(d) # 0
  BY EmptySeq, LenProperties
<1>2. Len(d) = 1
  <2>1. \A n \in Nat : n # 0 /\ n <= 1 => n = 1
    OBVIOUS
  <2> QED BY <1>1, <2>1
<1>3. d = <<Head(d)>> /\ Head(d) \in S
  BY <1>2
<1>4. s \o <<Head(d)>> = Append(s, Head(d))
  BY <1>3
<1> QED BY <1>3, <1>4

\* A sequence is its elements.
LEMMA SameElements ==
    ASSUME NEW S, NEW s \in Seq(S), NEW t \in Seq(S), Len(s) = Len(t),
           \A i \in 1..Len(s) : s[i] = t[i]
    PROVE  s = t
OBVIOUS

\* The next row, and the footer, after the first k rows.
LEMMA PrefixGrows ==
    ASSUME NEW k \in Nat
    PROVE  /\ Append(Prefix(k), k + 1) = Prefix(k + 1)
           /\ Append(Prefix(k), Footer) = Atomic!FileOf(k)
<1>1. Prefix(k) \in Seq(Nat) /\ Len(Prefix(k)) = k + 1
  BY DEF Prefix
<1>2. Prefix(k + 1) \in Seq(Nat) /\ Len(Prefix(k + 1)) = k + 2
  BY DEF Prefix
<1>3. Atomic!FileOf(k) \in Seq(Nat) /\ Len(Atomic!FileOf(k)) = k + 2
  BY PipelineAssumption DEF Atomic!FileOf, Footer
<1>4. /\ Append(Prefix(k), k + 1) \in Seq(Nat) /\ Len(Append(Prefix(k), k + 1)) = k + 2
      /\ Append(Prefix(k), Footer) \in Seq(Nat) /\ Len(Append(Prefix(k), Footer)) = k + 2
  BY <1>1, PipelineAssumption DEF Footer
<1>5. \A i \in 1..(k + 2) : Append(Prefix(k), k + 1)[i] = Prefix(k + 1)[i]
  BY <1>1 DEF Prefix
<1>6. \A i \in 1..(k + 2) : Append(Prefix(k), Footer)[i] = Atomic!FileOf(k)[i]
  BY <1>1, PipelineAssumption DEF Prefix, Atomic!FileOf, Footer
<1>7. Append(Prefix(k), k + 1) = Prefix(k + 1)
  BY <1>2, <1>4, <1>5, SameElements
<1>8. Append(Prefix(k), Footer) = Atomic!FileOf(k)
  BY <1>3, <1>4, <1>6, SameElements
<1> QED BY <1>7, <1>8

-----------------------------------------------------------------------------
(* The records after an assignment to some of their fields. *)
LEMMA RecordEdits ==
    /\ \A r \in RdState : [r EXCEPT !.pc = "recv"] \in RdState /\ [r EXCEPT !.pc = "done"] \in RdState
    /\ \A w \in WrState : \A s \in {"create", "take", "footer", "report", "close", "done"} :
          [w EXCEPT !.pc = s] \in WrState
    /\ \A p \in PipeState, d \in Seq(Chunks) : [p EXCEPT !.data = d] \in PipeState
    /\ \A p \in PipeState : \A e \in {"open", "eof", "error"} : [p EXCEPT !.end = e] \in PipeState
    /\ \A u \in UpState : \A s \in {"create", "read", "abort", "outcome", "committed", "failed"} :
          [u EXCEPT !.pc = s] \in UpState
    /\ \A u \in UploadState : \A s \in {"open", "aborted", "completed"} :
          [u EXCEPT !.state = s] \in UploadState
BY DEF RdState, WrState, PipeState, UpState, UploadState

\* ... by UploadPart.
LEMMA PartEdits ==
    ASSUME NEW u \in UploadState, NEW d \in Seq(Chunks), NEW n \in Nat
    PROVE  [u EXCEPT !.count = n, !.data = d] \in UploadState
BY DEF UploadState

\* The fault budget.
LEMMA FaultType == TypeOK /\ (Fault \/ CallFails \/ UNCHANGED faults) => faults' \in 0..MaxFaults
BY PipelineAssumption DEF TypeOK, Fault, CallFails

(* The reader keeps the types. *)
LEMMA ReaderType == TypeOK /\ Reader => TypeOK'
<1> SUFFICES ASSUME TypeOK, Reader PROVE TypeOK'
  OBVIOUS
<1>1. faults' \in 0..MaxFaults
  BY FaultType DEF Reader, RdOpen, RdRecv, RdSend
<1>2. cut' \in BOOLEAN
  BY DEF Reader, RdOpen, RdRecv, RdSend, CloseOut, TypeOK
<1>3. rd' \in RdState
  <2>1. CASE RdRecv /\ rd' = [pc |-> "send", got |-> rd.got + 1] /\ rd.got < rows
    BY <2>1, PipelineAssumption DEF TypeOK, RdState
  <2>2. CASE rd' = [rd EXCEPT !.pc = "recv"] \/ rd' = [rd EXCEPT !.pc = "done"]
    BY <2>2, RecordEdits DEF TypeOK
  <2> QED BY <2>1, <2>2 DEF Reader, RdOpen, RdRecv, RdSend, CloseOut
<1>4. channel' \in Seq(Chunks) /\ Len(channel') <= ChanCap
  <2>1. CASE UNCHANGED channel
    BY <2>1 DEF TypeOK
  <2>2. CASE Len(channel) < ChanCap /\ channel' = Append(channel, rd.got)
    <3>1. rd.got \in Chunks /\ channel \in Seq(Chunks) /\ Len(channel) \in Nat
      BY PipelineAssumption DEF TypeOK, RdState, Chunks
    <3>2. channel' \in Seq(Chunks) /\ Len(channel') = Len(channel) + 1
      BY <2>2, <3>1
    <3> QED BY <2>2, <3>1, <3>2, PipelineAssumption
  <2> QED BY <2>1, <2>2 DEF Reader, RdOpen, RdRecv, RdSend, CloseOut
<1> QED BY <1>1, <1>2, <1>3, <1>4 DEF TypeOK, Reader

(* The writer keeps the types. *)
LEMMA WriterType == TypeOK /\ Writer => TypeOK'
<1> SUFFICES ASSUME TypeOK, Writer PROVE TypeOK'
  OBVIOUS
<1>1. faults' \in 0..MaxFaults
  BY FaultType DEF Writer, WrCreate, WrBatch, WrDrained, WrFooter, WrReport, WrClose
<1>2. wr' \in WrState
  <2>1. CASE \E s \in {"footer", "report"} : wr' = [pc |-> s, err |-> TRUE]
    <3>1. \A s \in {"footer", "report"} : [pc |-> s, err |-> TRUE] \in WrState
      BY DEF WrState
    <3> QED BY <2>1, <3>1
  <2>2. CASE \E s \in {"take", "footer", "report", "close", "done"} : wr' = [wr EXCEPT !.pc = s]
    <3>1. PICK s \in {"take", "footer", "report", "close", "done"} : wr' = [wr EXCEPT !.pc = s]
      BY <2>2
    <3>2. wr \in WrState
      BY DEF TypeOK
    <3> QED BY <3>1, <3>2 DEF WrState
  <2>3. CASE UNCHANGED wr
    BY <2>3 DEF TypeOK
  <2> QED BY <2>1, <2>2, <2>3
          DEF Writer, WrCreate, WrBatch, WrDrained, WrFooter, WrReport, WrClose
<1>3. outcome' \in {"none", "ok", "err"}
  BY DEF TypeOK, Writer, WrCreate, WrBatch, WrDrained, WrFooter, WrReport, WrClose
<1>4. channel' \in Seq(Chunks) /\ Len(channel') <= ChanCap
  <2>1. CASE UNCHANGED channel
    BY <2>1 DEF TypeOK
  <2>2. CASE channel # <<>> /\ channel' = Tail(channel)
    <3>1. channel \in Seq(Chunks) /\ Len(channel) \in Nat
      BY DEF TypeOK
    <3>2. channel' \in Seq(Chunks) /\ Len(channel') = Len(channel) - 1
      BY <2>2, <3>1
    <3> QED BY <3>1, <3>2, PipelineAssumption DEF TypeOK
  <2> QED BY <2>1, <2>2 DEF Writer, WrCreate, WrBatch, WrDrained, WrFooter, WrReport, WrClose
<1>5. pipe' \in PipeState /\ Len(pipe'.data) <= 1
  <2>1. ASSUME NEW c \in Chunks, pipe' = [pipe EXCEPT !.data = <<c>>]
        PROVE  pipe' \in PipeState /\ Len(pipe'.data) <= 1
    <3>1. <<c>> \in Seq(Chunks) /\ Len(<<c>>) = 1
      OBVIOUS
    <3>2. pipe' \in PipeState /\ pipe'.data = <<c>>
      BY <2>1, <3>1, RecordEdits DEF TypeOK, PipeState
    <3> QED BY <3>1, <3>2
  <2>2. CASE pipe' = [pipe EXCEPT !.end = "error"] \/ pipe' = [pipe EXCEPT !.end = "eof"]
    <3>1. pipe' \in PipeState
      BY <2>2, RecordEdits DEF TypeOK
    <3>2. pipe'.data = pipe.data
      BY <2>2 DEF TypeOK, PipeState
    <3> QED BY <3>1, <3>2 DEF TypeOK
  <2>3. CASE UNCHANGED pipe
    BY <2>3 DEF TypeOK
  <2>4. Header \in Chunks /\ Footer \in Chunks
    BY PipelineAssumption DEF Header, Footer, Chunks
  <2>5. channel # <<>> => Head(channel) \in Chunks
    BY DEF TypeOK
  <2> QED BY <2>1, <2>2, <2>3, <2>4, <2>5
          DEF Writer, WrCreate, WrBatch, WrDrained, WrFooter, WrReport, WrClose, Write
<1> QED BY <1>1, <1>2, <1>3, <1>4, <1>5 DEF TypeOK, Writer

(* The uploader keeps the types. *)
LEMMA UploaderType == TypeOK /\ Uploader => TypeOK'
<1> SUFFICES ASSUME TypeOK, Uploader PROVE TypeOK'
  OBVIOUS
<1>1. faults' \in 0..MaxFaults
  BY FaultType DEF Uploader, UpWait, UpCreate, UpRead, UpReadFails, UpPart, UpComplete,
                   UpAbort, UpOutcome
<1>2. up.buf \in Seq(Chunks) /\ Len(up.buf) \in Nat /\ Len(up.buf) <= PartSize
  BY DEF TypeOK, UpState
<1>3. upload.data \in Seq(Chunks)
  BY DEF TypeOK, UploadState
<1>4. CASE UpRead
  <2>1. Head(pipe.data) \in Chunks /\ pipe.data \in Seq(Chunks)
    BY <1>4 DEF TypeOK, PipeState, UpRead, PipeIdle
  <2> DEFINE b == Append(up.buf, Head(pipe.data))
  <2>2. b \in Seq(Chunks) /\ Len(b) = Len(up.buf) + 1
    BY <1>2, <2>1
  <2>3. up' = [up EXCEPT !.buf = b]
    BY <1>4 DEF UpRead
  <2> HIDE DEF b
  <2>4. up' \in UpState /\ up'.buf = b
    BY <2>2, <2>3 DEF TypeOK, UpState
  <2>5. Len(up.buf) < PartSize
    BY <1>2, <1>4, PipelineAssumption DEF UpRead, Full
  <2>6. Len(up'.buf) <= PartSize
    BY <1>2, <2>2, <2>4, <2>5, PipelineAssumption
  <2>7. hashed' \in Seq(Chunks)
    BY <1>4, <2>1 DEF TypeOK, UpRead, Hash
  <2>8. pipe' \in PipeState /\ pipe'.data = <<>>
    <3>1. pipe \in PipeState /\ <<>> \in Seq(Chunks) /\ pipe' = [pipe EXCEPT !.data = <<>>]
      BY <1>4 DEF TypeOK, UpRead
    <3>2. pipe' \in PipeState
      BY <3>1, RecordEdits
    <3> QED BY <3>1, <3>2 DEF PipeState
  <2>9. Len(pipe'.data) <= 1
    BY <2>8
  <2> QED BY <1>1, <1>4, <2>4, <2>6, <2>7, <2>8, <2>9 DEF TypeOK, Uploader, UpRead
<1>5. CASE UpPart
  <2>0. upload \in UploadState /\ up \in UpState /\ upload.count + 1 \in Nat /\ up.part + 1 \in Nat
    BY DEF TypeOK, UploadState, UpState
  <2>1. upload.data \o up.buf \in Seq(Chunks) /\ <<>> \in Seq(Chunks) /\ Len(<<>>) = 0
    BY <1>2, <1>3
  <2>2. upload' \in UploadState
    <3>1. CASE UNCHANGED upload
      BY <3>1 DEF TypeOK
    <3>2. CASE upload' = [upload EXCEPT !.count = @ + 1, !.data = @ \o up.buf]
      BY <2>0, <2>1, <3>2, PartEdits
    <3> QED BY <1>5, <3>1, <3>2 DEF UpPart
  <2>3. up' \in UpState /\ (up'.buf = up.buf \/ up'.buf = <<>>)
    <3>1. \/ up' = [up EXCEPT !.part = up.part + 1, !.buf = <<>>]
          \/ up' = [up EXCEPT !.part = up.part + 1, !.pc = "abort"]
      BY <1>5 DEF UpPart
    <3>2. \A e \in Seq(Chunks), n \in Nat :
             /\ [up EXCEPT !.part = n, !.buf = e] \in UpState
             /\ [up EXCEPT !.part = n, !.buf = e].buf = e
             /\ [up EXCEPT !.part = n, !.pc = "abort"] \in UpState
             /\ [up EXCEPT !.part = n, !.pc = "abort"].buf = up.buf
      BY <2>0 DEF UpState
    <3> DEFINE e == <<>>
               n == up.part + 1
    <3>3. e \in Seq(Chunks) /\ n \in Nat
      BY <2>0, <2>1
    <3>4. up' = [up EXCEPT !.part = n, !.buf = e] \/ up' = [up EXCEPT !.part = n, !.pc = "abort"]
      BY <3>1
    <3>5. up' \in UpState /\ (up'.buf = up.buf \/ up'.buf = e)
      <4> HIDE DEF e, n
      <4>1. CASE up' = [up EXCEPT !.part = n, !.buf = e]
        BY <3>2, <3>3, <4>1, Zenon
      <4>2. CASE up' = [up EXCEPT !.part = n, !.pc = "abort"]
        BY <3>2, <3>3, <4>2, Zenon
      <4> QED BY <3>4, <4>1, <4>2
    <3> QED BY <3>5
  <2>4. Len(up'.buf) <= PartSize
    BY <1>2, <2>1, <2>3, PipelineAssumption
  <2> QED BY <1>1, <1>5, <2>2, <2>3, <2>4 DEF TypeOK, Uploader, UpPart
<1>6. CASE UpWait \/ UpCreate \/ UpReadFails \/ UpComplete \/ UpAbort \/ UpOutcome
  <2>1. up' \in UpState /\ up'.buf = up.buf
    <3>1. PICK s \in {"create", "read", "abort", "outcome", "committed", "failed"} :
             up' = [up EXCEPT !.pc = s]
      BY <1>6 DEF UpGoTo, UpWait, UpCreate, UpReadFails, UpComplete, UpAbort, UpOutcome
    <3>2. up' \in UpState
      BY <3>1, RecordEdits DEF TypeOK
    <3>3. up'.buf = up.buf
      BY <3>1 DEF TypeOK, UpState
    <3> QED BY <3>2, <3>3
  <2>2. upload' \in UploadState
    BY <1>6, RecordEdits
       DEF TypeOK, UpWait, UpCreate, UpReadFails, UpComplete, UpAbort, UpOutcome
  <2>3. object' \in Seq(Chunks) \cup {None}
    BY <1>3, <1>6 DEF TypeOK, UpWait, UpCreate, UpReadFails, UpComplete, UpAbort, UpOutcome
  <2>4. UNCHANGED <<hashed, pipe>>
    BY <1>6 DEF UpWait, UpCreate, UpReadFails, UpComplete, UpAbort, UpOutcome
  <2> QED BY <1>1, <1>2, <2>1, <2>2, <2>3, <2>4 DEF TypeOK, Uploader
<1> QED BY <1>4, <1>5, <1>6 DEF Uploader

(* Every step preserves the types, capacities included. *)
LEMMA TypeStep == TypeOK /\ [Next]_vars => TypeOK'
<1> SUFFICES ASSUME TypeOK, [Next]_vars PROVE TypeOK'
  OBVIOUS
<1>1. CASE Cancel
  <2>1. faults' \in 0..MaxFaults
    BY <1>1, FaultType DEF Cancel
  <2>2. live' \in BOOLEAN
    BY <1>1 DEF Cancel
  <2> QED BY <1>1, <2>1, <2>2 DEF TypeOK, Cancel
<1>2. CASE RunOnceReturns
  <2>1. live' \in BOOLEAN
    BY <1>2 DEF RunOnceReturns
  <2> QED BY <1>2, <2>1 DEF TypeOK, RunOnceReturns
<1>3. CASE AbortStaleUploads
  <2>1. faults' \in 0..MaxFaults
    BY <1>3, FaultType DEF AbortStaleUploads
  <2>2. upload' \in UploadState
    BY <1>3, RecordEdits DEF TypeOK, AbortStaleUploads
  <2> QED BY <1>3, <2>1, <2>2 DEF TypeOK, AbortStaleUploads
<1>4. CASE UNCHANGED vars
  BY <1>4 DEF TypeOK, vars
<1> QED BY <1>1, <1>2, <1>3, <1>4, ReaderType, WriterType, UploaderType DEF Next

-----------------------------------------------------------------------------
(* The writer's place, its error and the pipe's end stay in step. *)
LEMMA WriterStep == TypeOK /\ WriterInv /\ [Next]_vars => WriterInv'
<1> SUFFICES ASSUME TypeOK, WriterInv, [Next]_vars PROVE WriterInv'
  OBVIOUS
<1>1. wr \in WrState /\ pipe \in PipeState
  BY DEF TypeOK
<1>2. CASE Writer
  <2>1. CASE WrCreate
    BY <1>1, <1>2, <2>1 DEF WriterInv, Writer, WrCreate, Write, WrState, PipeState
  <2>2. CASE WrBatch
    BY <1>1, <1>2, <2>2 DEF WriterInv, Writer, WrBatch, Write, PipeIdle, WrState, PipeState
  <2>3. CASE WrDrained
    BY <1>1, <1>2, <2>3 DEF WriterInv, Writer, WrDrained, PipeIdle, WrState
  <2>4. CASE WrFooter
    BY <1>1, <1>2, <2>4 DEF WriterInv, Writer, WrFooter, Write, WrState, PipeState
  <2>5. CASE WrReport
    BY <1>1, <1>2, <2>5 DEF WriterInv, Writer, WrReport, PipeIdle, WrState, PipeState
  <2>6. CASE WrClose
    BY <1>1, <1>2, <2>6 DEF WriterInv, Writer, WrClose, WrState, PipeState
  <2> QED BY <1>2, <2>1, <2>2, <2>3, <2>4, <2>5, <2>6 DEF Writer
<1>3. CASE Uploader
  <2>1. UNCHANGED <<wr, outcome>>
    BY <1>3 DEF Uploader
  <2>2. CASE UpRead
    BY <1>1, <2>1, <2>2 DEF WriterInv, UpRead, PipeState
  <2>3. CASE UNCHANGED pipe
    BY <2>1, <2>3 DEF WriterInv
  <2> QED BY <1>3, <2>2, <2>3 DEF Uploader, UpWait, UpCreate, UpReadFails, UpPart, UpComplete,
                                  UpAbort, UpOutcome
<1>4. CASE UNCHANGED <<wr, pipe, outcome>>
  BY <1>4 DEF WriterInv
<1> QED BY <1>2, <1>3, <1>4 DEF Next, Reader, Cancel, RunOnceReturns, AbortStaleUploads, vars

(* What was hashed is what was uploaded, and only an ended pipe makes an object. *)
LEMMA UploaderStep == TypeOK /\ WriterInv /\ UploaderInv /\ [Next]_vars => UploaderInv'
<1> SUFFICES ASSUME TypeOK, WriterInv, UploaderInv, [Next]_vars PROVE UploaderInv'
  OBVIOUS
<1>1. /\ up \in UpState /\ up.buf \in Seq(Chunks) /\ upload \in UploadState
      /\ upload.data \in Seq(Chunks) /\ hashed \in Seq(Chunks) /\ pipe \in PipeState
      /\ pipe.data \in Seq(Chunks)
  BY DEF TypeOK, UpState, UploadState, PipeState
<1>2. CASE Uploader
  <2>1. CASE UpWait \/ UpCreate
    <3>1. /\ up'.buf = up.buf /\ upload'.data = upload.data /\ UNCHANGED <<hashed, object, pipe>>
          /\ up.pc \in {"wait", "create"} /\ up'.pc \in {"create", "read", "failed"}
      BY <1>1, <2>1 DEF UpWait, UpCreate, UpGoTo, UpState, UploadState
    <3> QED BY <3>1 DEF UploaderInv
  <2>2. CASE UpRead
    <3>1. pipe.data # <<>> /\ Len(pipe.data) <= 1
      BY <2>2 DEF UpRead, PipeIdle, TypeOK
    <3>2. Head(pipe.data) \in Chunks
      BY <1>1, <3>1
    <3>3. \A c \in Chunks : upload.data \o Append(up.buf, c) = Append(upload.data \o up.buf, c)
      <4> SUFFICES ASSUME NEW s \in Seq(Chunks), NEW t \in Seq(Chunks), NEW c \in Chunks
                   PROVE  s \o Append(t, c) = Append(s \o t, c)
        BY <1>1
      <4> QED BY ConcatAppend
    <3>4. /\ up'.pc = "read" /\ up.pc = "read" /\ UNCHANGED <<upload, object>>
          /\ up'.buf = Append(up.buf, Head(pipe.data))
          /\ hashed' = Append(hashed, Head(pipe.data))
      BY <1>1, <2>2 DEF UpRead, UpState, Hash
    <3>5. hashed = upload.data \o up.buf
      BY <3>4 DEF UploaderInv
    <3>6. hashed' = upload'.data \o up'.buf
      BY <3>2, <3>3, <3>4, <3>5
    <3> QED BY <3>4, <3>6 DEF UploaderInv
  <2>3. CASE UpReadFails \/ UpAbort
    <3>1. /\ UNCHANGED <<hashed, object>> /\ up.pc \in {"read", "abort"}
          /\ up'.pc \in {"abort", "failed"}
      BY <1>1, <2>3 DEF UpReadFails, UpAbort, UpGoTo, Ended, UpState
    <3> QED BY <3>1 DEF UploaderInv
  <2>4. CASE UpPart
    <3>1. up.pc = "read" /\ UNCHANGED <<hashed, object>>
      BY <2>4 DEF UpPart, Ended
    <3>2. hashed = upload.data \o up.buf
      BY <3>1 DEF UploaderInv
    <3>3. (upload.data \o up.buf) \o <<>> = upload.data \o up.buf
      BY <1>1, ConcatNothing
    <3>4. \/ up'.pc = "read" /\ up'.buf = <<>> /\ upload'.data = upload.data \o up.buf
          \/ up'.pc = "abort"
      BY <1>1, <2>4, <3>1 DEF UpPart, UpState, UploadState
    <3> QED BY <3>1, <3>2, <3>3, <3>4 DEF UploaderInv
  <2>5. CASE UpComplete
    <3>1. up.pc = "read" /\ up.buf = <<>> /\ pipe.end = "eof" /\ UNCHANGED <<hashed, pipe>>
      BY <2>5 DEF UpComplete, Ended
    <3>2. hashed = upload.data
      BY <1>1, <3>1, ConcatNothing DEF UploaderInv
    <3>3. \/ up'.pc = "outcome" /\ object' = upload.data
          \/ up'.pc = "abort" /\ object' = object
      BY <1>1, <2>5 DEF UpComplete, UpGoTo, UpState
    <3>4. upload.data # None
      BY <1>1, NoneAssumption
    <3> QED BY <3>1, <3>2, <3>3, <3>4 DEF UploaderInv
  <2>6. CASE UpOutcome
    <3>1. /\ up.pc = "outcome" /\ UNCHANGED <<hashed, object, pipe>>
          /\ up'.pc = IF outcome = "ok" THEN "committed" ELSE "failed"
      BY <1>1, <2>6 DEF UpOutcome, UpGoTo, UpState
    <3>2. outcome = "ok"
      BY <2>6, <3>1 DEF UploaderInv, WriterInv
    <3> QED BY <3>1, <3>2 DEF UploaderInv
  <2> QED BY <1>2, <2>1, <2>2, <2>3, <2>4, <2>5, <2>6 DEF Uploader
<1>3. CASE Writer
  <2>1. UNCHANGED <<up, upload, object, hashed>>
    BY <1>3 DEF Writer
  <2>2. pipe.end # "eof"
    BY <1>3 DEF WriterInv, Writer, WrCreate, WrBatch, WrDrained, WrFooter, WrReport, WrClose
  <2> QED BY <2>1, <2>2 DEF UploaderInv
<1>4. CASE AbortStaleUploads
  <2>1. upload'.data = upload.data /\ UNCHANGED <<up, object, hashed, pipe>>
    BY <1>1, <1>4 DEF AbortStaleUploads, UploadState
  <2> QED BY <2>1 DEF UploaderInv
<1>5. CASE UNCHANGED <<up, upload, object, hashed, pipe>>
  BY <1>5 DEF UploaderInv
<1> QED BY <1>2, <1>3, <1>4, <1>5 DEF Next, Reader, Cancel, RunOnceReturns, vars

-----------------------------------------------------------------------------
(* Under a live context the writer's next batch is the only step that moves    *)
(* Taken, and the queue stays the rows that follow.                            *)
LEMMA QueueStep ==
    TypeOK /\ live /\ live' /\ QueueInv /\ [Next]_vars =>
        /\ QueueInv'
        /\ Taken \in Nat
        /\ Taken' = IF Writer /\ wr.pc = "take" /\ channel # <<>> THEN Taken + 1 ELSE Taken
        /\ channel # <<>> => Head(channel) = Taken + 1
<1> SUFFICES ASSUME TypeOK, live, live', QueueInv, [Next]_vars
             PROVE  /\ QueueInv'
                    /\ Taken \in Nat
                    /\ Taken' = IF Writer /\ wr.pc = "take" /\ channel # <<>> THEN Taken + 1 ELSE Taken
                    /\ channel # <<>> => Head(channel) = Taken + 1
  OBVIOUS
<1>1. /\ rd \in RdState /\ rd.got \in Nat /\ rows \in Nat
      /\ channel \in Seq(Chunks) /\ Len(channel) \in Nat
  BY PipelineAssumption DEF TypeOK, RdState
<1>2. Sent \in Int /\ Taken \in Nat
  BY <1>1 DEF QueueInv, Sent, Taken
<1>3. channel # <<>> => Head(channel) = Taken + 1
  <2> SUFFICES ASSUME channel # <<>> PROVE Head(channel) = Taken + 1
    OBVIOUS
  <2>1. 1 \in 1..Len(channel) /\ Head(channel) = channel[1]
    BY <1>1
  <2> QED BY <1>2, <2>1 DEF QueueInv
<1>4. CASE Reader
  <2>1. ~Writer
    BY <1>4, <1>1 DEF Reader, RdOpen, RdRecv, RdSend, CloseOut, Writer, RdState
  <2>2. CASE RdOpen \/ RdRecv
    <3>1. UNCHANGED <<channel, rows>>
      BY <1>4, <2>2 DEF Reader, RdOpen, RdRecv, CloseOut
    <3>2. \/ rd.pc # "send" /\ rd'.pc = "recv" /\ rd'.got = rd.got
          \/ rd.pc # "send" /\ rd'.pc = "send" /\ rd'.got = rd.got + 1 /\ rd.got < rows
          \/ rd.pc # "send" /\ rd'.pc = "done" /\ rd'.got = rd.got /\ (cut' \/ rd.got = rows)
      <4>1. CASE CloseOut(live)
        <5>1. cut'
          BY <4>1 DEF CloseOut
        <5>2. rd'.pc = "done" /\ rd'.got = rd.got /\ rd.pc # "send"
          BY <1>1, <2>2, <4>1 DEF CloseOut, RdState, RdOpen, RdRecv
        <5> QED BY <5>1, <5>2
      <4>2. CASE rd.got = rows /\ rd.pc = "recv" /\ rd' = [rd EXCEPT !.pc = "done"]
        BY <1>1, <4>2 DEF RdState
      <4>3. CASE rd.pc = "recv" /\ rd.got < rows /\ rd' = [pc |-> "send", got |-> rd.got + 1]
        BY <4>3
      <4>4. CASE rd.pc = "open" /\ rd' = [rd EXCEPT !.pc = "recv"]
        BY <1>1, <4>4 DEF RdState
      <4> QED BY <2>2, <4>1, <4>2, <4>3, <4>4 DEF RdOpen, RdRecv, CloseOut
    <3>3. /\ Sent' = Sent /\ rd'.got <= rows'
          /\ rd'.pc = "send" => rd'.got > 0
          /\ rd'.pc = "done" => cut' \/ rd'.got = rows'
      BY <1>1, <3>1, <3>2 DEF Sent, QueueInv
    <3>4. Taken' = Taken
      BY <3>1, <3>3 DEF Taken
    <3> QED BY <1>2, <1>3, <2>1, <3>1, <3>3, <3>4 DEF QueueInv
  <2>3. CASE rd.pc = "send" /\ rd' = [rd EXCEPT !.pc = "recv"] /\ channel' = Append(channel, rd.got)
    <3>1. rd.got \in Chunks
      BY PipelineAssumption DEF TypeOK, RdState, Chunks
    <3>2. Len(channel') = Len(channel) + 1
      BY <1>1, <2>3, <3>1
    <3>3. Sent = rd.got - 1 /\ Sent' = rd.got /\ rd'.pc = "recv" /\ rd'.got = rd.got /\ rows' = rows
      BY <1>1, <1>4, <2>3 DEF Reader, Sent, RdState
    <3>4. Taken' = Taken /\ rd.got = Taken + Len(channel')
      BY <1>1, <3>2, <3>3 DEF Taken
    <3>5. \A i \in 1..Len(channel') : channel'[i] = IF i <= Len(channel) THEN channel[i] ELSE rd.got
      BY <1>1, <2>3, <3>1, <3>2
    <3>6. \A i \in 1..Len(channel') : channel'[i] = Taken' + i
      BY <1>1, <1>2, <3>2, <3>4, <3>5 DEF QueueInv
    <3> QED BY <1>2, <1>3, <2>1, <3>3, <3>4, <3>6 DEF QueueInv
  <2> QED BY <1>4, <2>2, <2>3 DEF Reader, RdSend
<1>5. CASE Writer
  <2>1. UNCHANGED <<rd, rows, cut>>
    BY <1>5 DEF Writer
  <2>2. Sent' = Sent
    BY <2>1 DEF Sent
  <2>3. CASE WrBatch
    <3>1. channel # <<>> /\ channel' = Tail(channel) /\ wr.pc = "take"
      BY <2>3 DEF WrBatch
    <3>2. /\ Len(channel') = Len(channel) - 1
          /\ \A i \in 1..Len(channel') : channel'[i] = channel[i + 1]
      BY <1>1, <3>1
    <3>3. Taken' = Taken + 1
      BY <1>1, <1>2, <2>2, <3>2 DEF Taken
    <3>4. \A i \in 1..Len(channel') : channel'[i] = Taken' + i
      BY <1>1, <1>2, <3>2, <3>3 DEF QueueInv
    <3> QED BY <1>2, <1>3, <1>5, <2>1, <3>1, <3>3, <3>4 DEF QueueInv
  <2>4. CASE ~WrBatch
    <3>1. UNCHANGED channel /\ ~(wr.pc = "take" /\ channel # <<>>)
      BY <1>5, <2>4 DEF Writer, WrCreate, WrDrained, WrFooter, WrReport, WrClose
    <3>2. Taken' = Taken
      BY <2>2, <3>1 DEF Taken
    <3> QED BY <1>2, <1>3, <2>1, <3>1, <3>2 DEF QueueInv
  <2> QED BY <2>3, <2>4
<1>6. CASE ~Reader /\ ~Writer
  <2>1. UNCHANGED <<rd, rows, cut, channel>>
    BY <1>6 DEF Next, Uploader, Cancel, RunOnceReturns, AbortStaleUploads, vars
  <2>2. Taken' = Taken
    BY <2>1 DEF Taken, Sent
  <2> QED BY <1>2, <1>3, <1>6, <2>1, <2>2 DEF QueueInv
<1> QED BY <1>4, <1>5, <1>6

(* Under a live context the writer turns the rows it takes into a file. *)
LEMMA FileStep ==
    TypeOK /\ WriterInv /\ live /\ live' /\ QueueInv /\ FileInv /\ [Next]_vars => FileInv'
<1> SUFFICES ASSUME TypeOK, WriterInv, live, live', QueueInv, FileInv, [Next]_vars
             PROVE  FileInv'
  OBVIOUS
<1>1. /\ wr \in WrState /\ pipe \in PipeState /\ pipe.data \in Seq(Chunks) /\ Len(pipe.data) <= 1
      /\ hashed \in Seq(Chunks) /\ channel \in Seq(Chunks)
  BY DEF TypeOK, PipeState
<1>2. /\ Taken \in Nat
      /\ channel # <<>> => Head(channel) = Taken + 1
      /\ Taken' = IF Writer /\ wr.pc = "take" /\ channel # <<>> THEN Taken + 1 ELSE Taken
  BY QueueStep
<1>3. pipe.data = <<>> => Written = hashed
  BY <1>1, ConcatNothing DEF Written
<1>4. ASSUME NEW c \in Chunks, hashed' = hashed, pipe'.data = <<c>>
      PROVE  Written' = Append(hashed, c)
  BY <1>1, <1>4 DEF Written
<1>5. CASE Reader
  <2>1. UNCHANGED <<wr, pipe, hashed>> /\ rd.pc # "done"
    BY <1>5 DEF Reader, RdOpen, RdRecv, RdSend
  <2>2. ~Writer
    BY <1>5 DEF TypeOK, Reader, RdOpen, RdRecv, RdSend, CloseOut, Writer, RdState
  <2>3. Taken' = Taken /\ Written' = Written
    BY <1>2, <2>1, <2>2 DEF Written
  <2> QED BY <2>1, <2>3 DEF FileInv
<1>6. CASE Writer
  <2>1. UNCHANGED <<rd, hashed>>
    BY <1>6 DEF Writer
  <2>2. CASE WrCreate
    <3>1. Taken' = Taken /\ Taken = 0 /\ hashed = <<>>
      BY <1>2, <2>2 DEF WrCreate, FileInv
    <3>2. CASE wr'.err
      BY <1>1, <2>2, <3>2 DEF FileInv, WrCreate, WrState
    <3>3. CASE ~wr'.err
      <4>1. wr'.pc = "take" /\ pipe'.data = <<0>>
        BY <1>1, <2>2, <3>3 DEF WrCreate, Write, WrState, PipeState, Header
      <4>2. 0 \in Chunks
        BY PipelineAssumption DEF Chunks
      <4>3. Written' = Append(hashed, 0)
        BY <1>4, <2>1, <4>1, <4>2
      <4>4. Append(<<>>, 0) = Prefix(0)
        BY DEF Prefix
      <4> QED BY <3>1, <4>1, <4>3, <4>4 DEF FileInv
    <3> QED BY <3>2, <3>3
  <2>3. CASE WrBatch
    <3>1. /\ wr.pc = "take" /\ channel # <<>> /\ pipe.data = <<>> /\ ~wr.err
      BY <2>3 DEF WrBatch, PipeIdle, WriterInv
    <3>2. Taken' = Taken + 1 /\ Head(channel) = Taken + 1 /\ Head(channel) \in Chunks
      BY <1>1, <1>2, <1>6, <3>1
    <3>3. CASE wr'.err
      <4>1. CASE wr' = wr
        BY <3>1, <3>3, <4>1
      <4>2. ASSUME NEW step \in {"footer", "report"}, wr' = [pc |-> step, err |-> TRUE]
            PROVE  FileInv'
        <5>1. wr'.pc # "create" /\ wr'.err = TRUE
          BY <4>2
        <5> QED BY <5>1 DEF FileInv
      <4> QED BY <2>3, <4>1, <4>2 DEF WrBatch
    <3>4. CASE ~wr'.err
      <4>1. wr' = wr /\ pipe'.data = <<Head(channel)>>
        BY <1>1, <2>3, <3>4 DEF WrBatch, Write, PipeState
      <4>2. Written' = Append(hashed, Taken + 1)
        BY <1>4, <2>1, <3>2, <4>1
      <4>3. hashed = Prefix(Taken)
        BY <1>3, <3>1 DEF FileInv
      <4>4. Written' = Prefix(Taken')
        <5>1. \A k \in Nat : hashed = Prefix(k) => Append(hashed, k + 1) = Prefix(k + 1)
          BY PrefixGrows
        <5>2. Append(hashed, Taken + 1) = Prefix(Taken + 1)
          BY <1>2, <4>3, <5>1
        <5> QED BY <3>2, <4>2, <5>2, Zenon
      <4> QED BY <3>1, <4>1, <4>4 DEF FileInv
    <3> QED BY <3>3, <3>4
  <2>4. CASE WrDrained
    <3>1. /\ wr.pc = "take" /\ wr'.pc = "footer" /\ wr'.err = wr.err /\ channel = <<>> /\ rd.pc = "done"
          /\ UNCHANGED <<pipe, channel>>
      BY <1>1, <2>4 DEF WrDrained, WrState
    <3>2. Taken' = Taken /\ Written' = Written
      BY <1>2, <2>1, <3>1 DEF Written
    <3> QED BY <2>1, <3>1, <3>2 DEF FileInv
  <2>5. CASE WrFooter
    <3>1. /\ wr.pc = "footer" /\ wr'.pc = "report" /\ wr'.err = wr.err /\ UNCHANGED channel
          /\ pipe'.data = <<Footer>> /\ pipe.data = <<>>
      BY <1>1, <2>5 DEF WrFooter, Write, WrState, PipeState, WriterInv
    <3>2. Footer \in Chunks
      BY PipelineAssumption DEF Footer, Chunks
    <3>3. Taken' = Taken /\ Written' = Append(hashed, Footer)
      BY <1>2, <1>4, <2>1, <3>1, <3>2
    <3>4. ~wr.err => Written' = Atomic!FileOf(Taken)
      <4>1. \A k \in Nat : hashed = Prefix(k) => Append(hashed, Footer) = Atomic!FileOf(k)
        BY PrefixGrows
      <4>2. ~wr.err => hashed = Prefix(Taken)
        BY <1>3, <3>1 DEF FileInv
      <4>3. ~wr.err => Append(hashed, Footer) = Atomic!FileOf(Taken)
        BY <1>2, <4>1, <4>2
      <4> QED BY <3>3, <4>3, Zenon
    <3> QED BY <2>1, <3>1, <3>3, <3>4 DEF FileInv
  <2>6. CASE WrReport \/ WrClose
    <3>1. /\ wr.pc \in {"report", "close"} /\ wr'.pc \in {"close", "done"} /\ wr'.err = wr.err
          /\ UNCHANGED channel /\ pipe'.data = pipe.data
      BY <1>1, <2>6 DEF WrReport, WrClose, WrState, PipeState
    <3>2. Taken' = Taken /\ Written' = Written
      BY <1>2, <2>1, <3>1 DEF Written
    <3> QED BY <2>1, <3>1, <3>2 DEF FileInv
  <2> QED BY <1>6, <2>2, <2>3, <2>4, <2>5, <2>6 DEF Writer
<1>7. CASE ~Reader /\ ~Writer
  <2>1. UNCHANGED <<rd, channel, wr>> /\ Taken' = Taken
    BY <1>2, <1>7 DEF Next, Uploader, Cancel, RunOnceReturns, AbortStaleUploads, vars
  <2>2. CASE Uploader /\ UpRead
    <3>1. pipe.data # <<>> /\ hashed' = Append(hashed, Head(pipe.data)) /\ pipe'.data = <<>>
      BY <1>1, <2>2 DEF UpRead, PipeIdle, Hash, PipeState
    <3>2. hashed' = Written /\ hashed' \in Seq(Chunks)
      BY <1>1, <3>1, OneChunk DEF Written
    <3>3. Written' = Written
      BY <3>1, <3>2, ConcatNothing DEF Written
    <3>4. wr.pc # "create"
      BY <3>1 DEF WriterInv
    <3> QED BY <2>1, <3>3, <3>4 DEF FileInv
  <2>3. CASE ~(Uploader /\ UpRead)
    <3>1. UNCHANGED <<hashed, pipe>>
      BY <1>7, <2>3 DEF Next, Uploader, UpWait, UpCreate, UpReadFails, UpPart, UpComplete, UpAbort,
                        UpOutcome, Cancel, RunOnceReturns, AbortStaleUploads, vars
    <3>2. Written' = Written
      BY <3>1 DEF Written
    <3> QED BY <2>1, <3>1, <3>2 DEF FileInv
  <2> QED BY <2>2, <2>3
<1> QED BY <1>5, <1>6, <1>7

-----------------------------------------------------------------------------
\* The rows and the file, while the context is live; nothing revives it.
LEMMA StreamStep == TypeOK /\ WriterInv /\ StreamInv /\ [Next]_vars => StreamInv'
<1> SUFFICES ASSUME TypeOK, WriterInv, StreamInv, [Next]_vars, live' PROVE QueueInv' /\ FileInv'
  BY DEF StreamInv
<1>1. live
  BY DEF Next, Reader, Writer, Uploader, Cancel, RunOnceReturns, AbortStaleUploads, vars
<1>2. QueueInv /\ FileInv
  BY <1>1 DEF StreamInv
<1>3. QueueInv'
  BY <1>1, <1>2, QueueStep
<1>4. FileInv'
  BY <1>1, <1>2, FileStep
<1> QED BY <1>3, <1>4

\* Nothing has happened yet.
LEMMA InitIInv == Init => IInv
<1> SUFFICES ASSUME Init PROVE IInv
  OBVIOUS
<1>1. <<>> \in Seq(Chunks) /\ Len(<<>>) = 0 /\ <<>> \o <<>> = <<>>
  OBVIOUS
<1>2. TypeOK
  <2>1. rd \in RdState /\ wr \in WrState /\ up.buf = <<>> /\ pipe.data = <<>>
    BY PipelineAssumption DEF Init, RdState, WrState
  <2>2. pipe \in PipeState /\ up \in UpState /\ upload \in UploadState
    BY <1>1 DEF Init, PipeState, UpState, UploadState
  <2>3. /\ rows \in 0..MaxRecords /\ faults \in 0..MaxFaults /\ outcome \in {"none", "ok", "err"}
        /\ channel \in Seq(Chunks) /\ hashed \in Seq(Chunks)
        /\ object \in Seq(Chunks) \cup {None}
        /\ live \in BOOLEAN /\ cut \in BOOLEAN
    <3>1. rows \in 0..MaxRecords /\ faults \in 0..MaxFaults /\ outcome \in {"none", "ok", "err"}
      BY PipelineAssumption DEF Init
    <3>2. channel \in Seq(Chunks) /\ hashed \in Seq(Chunks)
      BY <1>1 DEF Init
    <3>3. object \in Seq(Chunks) \cup {None}
      BY DEF Init
    <3>4. live \in BOOLEAN /\ cut \in BOOLEAN
      BY DEF Init
    <3> QED BY <3>1, <3>2, <3>3, <3>4
  <2>4. Len(channel) = 0 /\ Len(pipe.data) = 0 /\ Len(up.buf) = 0
    BY <1>1, <2>1 DEF Init
  <2>5. Len(channel) <= ChanCap /\ Len(pipe.data) <= 1 /\ Len(up.buf) <= PartSize
    BY <2>4, PipelineAssumption
  <2> QED BY <2>1, <2>2, <2>3, <2>5 DEF TypeOK
<1>3. WriterInv
  BY DEF Init, WriterInv
<1>4. UploaderInv
  BY <1>1 DEF Init, UploaderInv
<1>5. StreamInv
  <2>1. rd.pc = "open" /\ rd.got = 0 /\ channel = <<>> /\ wr.pc = "create" /\ hashed = <<>>
    BY DEF Init
  <2>2. Taken = 0
    <3>1. Sent = 0 /\ Len(channel) = 0
      BY <1>1, <2>1 DEF Sent
    <3> QED BY <3>1 DEF Taken
  <2>3. \A i \in 1..Len(channel) : channel[i] = Taken + i
    BY <1>1, <2>1
  <2>4. rd.got <= rows
    BY <2>1, PipelineAssumption DEF Init
  <2> QED BY <2>1, <2>2, <2>3, <2>4 DEF StreamInv, QueueInv, FileInv
<1> QED BY <1>2, <1>3, <1>4, <1>5 DEF IInv

(* The stream invariant holds throughout an export: under a live context the   *)
(* rows sent, queued and written follow one another, and the bytes hashed are  *)
(* the bytes uploaded and buffered.                                            *)
THEOREM Streaming == Spec => []IInv
<1>1. IInv /\ [Next]_vars => IInv'
  BY TypeStep, WriterStep, UploaderStep, StreamStep DEF IInv
<1> QED BY <1>1, InitIInv, PTL DEF Spec

(* Types and capacities: the channel of 32 records, the unbuffered pipe and    *)
(* the part buffer are never exceeded.                                         *)
THEOREM TypeCorrect == Spec => []TypeOK
<1>1. IInv => TypeOK
  BY DEF IInv
<1> QED BY <1>1, Streaming, PTL

(* The SHA-256 ExecuteTask and exportBatch put into the manifest is of the     *)
(* bytes CompleteMultipartUpload made an object of, and of a file the writer   *)
(* finished without an error.                                                  *)
THEOREM HashMatches == Spec => []HashIsOfObject
<1>1. IInv => HashIsOfObject
  <2> SUFFICES ASSUME IInv, object # None PROVE hashed = object /\ ~wr.err
    BY DEF HashIsOfObject
  <2>1. up \in UpState
    BY DEF IInv, TypeOK
  <2>2. up.pc \in {"outcome", "committed"}
    BY <2>1 DEF IInv, UploaderInv, UpState
  <2> QED BY <2>2 DEF IInv, UploaderInv, WriterInv
<1> QED BY <1>1, Streaming, PTL

-----------------------------------------------------------------------------
\* An upload is completed only once the writer has written the whole file.
LEMMA Complete ==
    ASSUME IInv, live, Ended("eof"), up.buf = <<>>
    PROVE  /\ Taken \in 0..rows /\ (Taken = rows \/ cut)
           /\ upload.data = Atomic!FileOf(Taken)
<1>1. /\ rd \in RdState /\ rd.got \in Nat /\ rows \in Nat /\ upload.data \in Seq(Chunks)
      /\ hashed \in Seq(Chunks)
  BY PipelineAssumption DEF IInv, TypeOK, RdState, UploadState
<1>2. up.pc = "read" /\ pipe.data = <<>> /\ wr.pc = "done" /\ ~wr.err
  BY DEF Ended, PipeIdle, IInv, WriterInv
<1>3. hashed = upload.data
  BY <1>1, <1>2, ConcatNothing DEF IInv, UploaderInv
<1>4. Written = hashed
  BY <1>1, <1>2, ConcatNothing DEF Written
<1>5. Written = Atomic!FileOf(Taken) /\ channel = <<>> /\ rd.pc = "done"
  BY <1>2 DEF IInv, StreamInv, FileInv
<1>6. Taken = rd.got
  <2>1. Sent = rd.got /\ Len(channel) = 0
    BY <1>5 DEF Sent
  <2> QED BY <1>1, <2>1 DEF Taken
<1>7. rd.got <= rows /\ (cut \/ rd.got = rows)
  BY <1>5 DEF IInv, StreamInv, QueueInv
<1>8. Taken \in 0..rows /\ (Taken = rows \/ cut)
  BY <1>1, <1>6, <1>7
<1> QED BY <1>3, <1>4, <1>5, <1>8

(* The pipeline implements AtomicUpload: whatever is interleaved, cancelled,   *)
(* aborted or failing, the staging object appears in one step, complete unless *)
(* the stream broke off, or the call fails and there is none.                  *)
THEOREM Refinement == Spec => ImplementsAtomicUpload
<1>1. Init => Atomic!Init
  BY PipelineAssumption DEF Init, Atomic!Init, UploadStatus
<1>2. IInv /\ [Next]_vars => [Atomic!Next]_(Atomic!vars)
  <2> SUFFICES ASSUME IInv, [Next]_vars PROVE [Atomic!Next]_(Atomic!vars)
    OBVIOUS
  <2>1. up \in UpState /\ cut \in BOOLEAN
    BY DEF IInv, TypeOK
  <2>2. /\ up.pc \in {"wait", "create", "read", "abort", "failed"} => object = None
        /\ up.pc \in {"outcome", "committed"} => object # None
    BY DEF IInv, UploaderInv
  <2>3. CASE Reader
    <3>1. UNCHANGED <<rows, up, object>>
      BY <2>3 DEF Reader
    <3>2. UNCHANGED UploadStatus
      BY <3>1 DEF UploadStatus
    <3>3. cut' = cut \/ (~cut /\ cut' = TRUE)
      BY <2>1, <2>3 DEF Reader, RdOpen, RdRecv, RdSend, CloseOut
    <3> QED BY <3>1, <3>2, <3>3 DEF Atomic!Next, Atomic!BreakOff, Atomic!vars
  <2>4. CASE Uploader
    <3>1. UNCHANGED <<rows, cut>>
      BY <2>4 DEF Uploader
    <3>2. CASE UNCHANGED object /\ up.pc \notin {"outcome", "committed", "failed"}
                /\ up'.pc \notin {"outcome", "committed"}
      <4>1. UploadStatus = "running" /\ UploadStatus' \in {"running", "failed"}
        BY <2>1, <2>2, <3>2 DEF UploadStatus, UpState
      <4> QED BY <3>1, <3>2, <4>1 DEF Atomic!Next, Atomic!Fail, Atomic!vars
    <3>3. CASE UpComplete /\ up'.pc = "outcome"
      <4>1. live /\ Ended("eof") /\ up.buf = <<>> /\ object' = upload.data
        BY <2>1, <3>3 DEF UpComplete, UpGoTo, UpState
      <4>2. Taken \in 0..rows /\ (Taken = rows \/ cut) /\ object' = Atomic!FileOf(Taken)
        BY <4>1, Complete
      <4>3. upload.data \in Seq(Chunks)
        BY DEF IInv, TypeOK, UploadState
      <4>4. object' # None /\ up.pc = "read"
        BY <4>1, <4>3, NoneAssumption DEF Ended
      <4>5. UploadStatus = "running" /\ UploadStatus' = "stored"
        BY <2>2, <3>3, <4>4 DEF UploadStatus
      <4> QED BY <3>1, <4>2, <4>5 DEF Atomic!Next, Atomic!Store
    <3>4. CASE UpOutcome
      <4>1. up.pc = "outcome" /\ UNCHANGED object /\ outcome = "ok"
        BY <3>4 DEF UpOutcome, IInv, UploaderInv, WriterInv
      <4>2. up'.pc = "committed"
        BY <2>1, <3>4, <4>1 DEF UpOutcome, UpGoTo, UpState
      <4>3. UNCHANGED UploadStatus
        BY <2>2, <4>1, <4>2 DEF UploadStatus
      <4> QED BY <3>1, <4>1, <4>3 DEF Atomic!vars
    <3>5. UpComplete /\ up'.pc # "outcome" =>
             /\ UNCHANGED object /\ up.pc = "read" /\ up'.pc = "abort"
      BY <2>1 DEF UpComplete, UpGoTo, UpState, Ended
    <3>6. UpWait \/ UpCreate \/ UpRead \/ UpReadFails \/ UpAbort =>
             /\ UNCHANGED object /\ up.pc \in {"wait", "create", "read", "abort"}
             /\ up'.pc \in {"create", "read", "abort", "failed"}
      BY <2>1 DEF UpWait, UpCreate, UpRead, UpReadFails, UpAbort, UpGoTo, UpState, Ended
    <3>7. UpPart => UNCHANGED object /\ up.pc = "read" /\ up'.pc \in {"read", "abort"}
      BY <2>1 DEF UpPart, UpState, Ended
    <3> QED BY <2>4, <3>2, <3>3, <3>4, <3>5, <3>6, <3>7 DEF Uploader
  <2>5. CASE ~Reader /\ ~Uploader
    <3>1. UNCHANGED <<rows, up, object, cut>>
      BY <2>5 DEF Next, Writer, Cancel, RunOnceReturns, AbortStaleUploads, vars
    <3>2. UNCHANGED UploadStatus
      BY <3>1 DEF UploadStatus
    <3> QED BY <3>1, <3>2 DEF Atomic!vars
  <2> QED BY <2>3, <2>4, <2>5
<1> QED BY <1>1, <1>2, Streaming, PTL DEF Spec, ImplementsAtomicUpload, Atomic!Spec
-----------------------------------------------------------------------------
(***************************************************************************)
(* The parts.  Every CompletedPart points at the loop's one partNumber, so *)
(* that the store accepts a list of one part and no other.                 *)
(***************************************************************************)
\* What up to one part holds.
PartsInv ==
    /\ up.pc \in {"wait", "create", "read"} =>
          /\ upload.count = 0 => upload.data = <<>>
          /\ upload.count = 1 => Len(upload.data) <= PartSize
    /\ object # None => Len(object) <= PartSize

\* The store has no part, or the only one: a full one, or the last of its file.
OnePart ==
    \/ upload.count = 0
    \/ /\ upload.count = 1 /\ up.buf = <<>>
       /\ Len(upload.data) = PartSize \/ (upload.data # <<>> /\ pipe.end = "eof")

\* Nothing has failed before the first fault.
SmallInv ==
    FitsOnePart /\ faults = 0 =>
        /\ live \/ up.pc = "committed"
        /\ ~wr.err /\ pipe.end # "error"
        /\ up.pc \notin {"abort", "failed"}
        /\ up.pc \in {"wait", "create", "read"} => OnePart
        /\ up.pc = "read" => upload.state = "open"

\* The store takes a list of equal numbers only if it is of length one.
LEMMA AcceptedIsOne ==
    ASSUME TypeOK
    PROVE  Accepted(CompletedParts) <=> upload.count = 1
<1>1. upload.count \in Nat /\ up.part \in Nat
  BY DEF TypeOK, UploadState, UpState
<1>2. /\ DOMAIN CompletedParts = 1..upload.count /\ Len(CompletedParts) = upload.count
      /\ \A i \in 1..upload.count : CompletedParts[i] = up.part
  BY <1>1 DEF CompletedParts
<1>3. ASSUME Accepted(CompletedParts) PROVE upload.count = 1
  <2>1. upload.count > 0
    BY <1>2, <1>3 DEF Accepted
  <2>2. CASE upload.count > 1
    <3>1. 1 \in 1..upload.count /\ 2 \in 1..upload.count
      BY <1>1, <2>2
    <3>2. CompletedParts[1] < CompletedParts[2]
      BY <1>2, <1>3, <3>1 DEF Accepted
    <3> QED BY <1>1, <1>2, <3>1, <3>2
  <2> QED BY <1>1, <2>1, <2>2
<1>4. ASSUME upload.count = 1 PROVE Accepted(CompletedParts)
  BY <1>2, <1>4 DEF Accepted
<1> QED BY <1>3, <1>4

(* The first part is one buffer, and an object is the first part. *)
LEMMA PartsStep == IInv /\ PartsInv /\ [Next]_vars => PartsInv'
<1> SUFFICES ASSUME IInv, PartsInv, [Next]_vars PROVE PartsInv'
  OBVIOUS
<1>1. /\ up \in UpState /\ up.buf \in Seq(Chunks) /\ Len(up.buf) <= PartSize
      /\ upload \in UploadState /\ upload.data \in Seq(Chunks) /\ upload.count \in Nat
      /\ PartSize \in Nat
  BY PipelineAssumption DEF IInv, TypeOK, UpState, UploadState
<1>2. CASE Uploader /\ UpPart
  <2>1. up.pc = "read" /\ UNCHANGED object
    BY <1>2 DEF UpPart, Ended
  <2>2. CASE up'.pc = "read"
    <3>1. upload'.count = upload.count + 1 /\ upload'.data = upload.data \o up.buf
      BY <1>1, <1>2, <2>2 DEF UpPart, UpState, UploadState
    <3>2. CASE upload.count = 0
      <4>1. upload.data = <<>>
        BY <2>1, <3>2 DEF PartsInv
      <4>2. upload'.data = up.buf
        BY <1>1, <3>1, <4>1
      <4> QED BY <1>1, <2>1, <3>1, <3>2, <4>2 DEF PartsInv
    <3>3. CASE upload.count # 0
      <4>1. upload'.count # 0 /\ upload'.count # 1
        BY <1>1, <3>1, <3>3
      <4> QED BY <2>1, <4>1 DEF PartsInv
    <3> QED BY <3>2, <3>3
  <2>3. CASE up'.pc # "read"
    <3>1. up'.pc = "abort"
      BY <1>1, <1>2, <2>1, <2>3 DEF UpPart, UpState
    <3> QED BY <2>1, <3>1 DEF PartsInv
  <2> QED BY <2>2, <2>3
<1>3. CASE Uploader /\ UpComplete
  <2>1. up.pc = "read" /\ up'.pc \in {"outcome", "abort"}
    BY <1>1, <1>3 DEF UpComplete, Ended, UpGoTo, UpState
  <2>2. object' = object \/ (object' = upload.data /\ Accepted(CompletedParts))
    BY <1>3 DEF UpComplete
  <2>3. Accepted(CompletedParts) => Len(upload.data) <= PartSize
    BY <2>1, AcceptedIsOne DEF PartsInv, IInv
  <2>4. object' # None => Len(object') <= PartSize
    BY <2>2, <2>3 DEF PartsInv
  <2> QED BY <2>1, <2>4 DEF PartsInv
<1>4. CASE ~(Uploader /\ (UpPart \/ UpComplete))
  <2>1. UNCHANGED object
    BY <1>4 DEF Next, Reader, Writer, Uploader, UpWait, UpCreate, UpRead, UpReadFails, UpAbort, UpOutcome,
                Cancel, RunOnceReturns, AbortStaleUploads, vars
  <2>2. upload'.count = upload.count /\ upload'.data = upload.data
    BY <1>1, <1>4 DEF Next, Reader, Writer, Uploader, UpWait, UpCreate, UpRead, UpReadFails, UpAbort, UpOutcome,
                Cancel, RunOnceReturns, AbortStaleUploads, vars, UploadState
  <2>3. up'.pc \in {"wait", "create", "read"} => up.pc \in {"wait", "create", "read"}
    BY <1>1, <1>4 DEF Next, Reader, Writer, Uploader, UpWait, UpCreate, UpRead, UpReadFails, UpAbort, UpOutcome,
                Cancel, RunOnceReturns, AbortStaleUploads, vars, UpGoTo, UpState
  <2> QED BY <2>1, <2>2, <2>3 DEF PartsInv
<1> QED BY <1>2, <1>3, <1>4

\* PartsInv is an invariant.
LEMMA PartsInvariant == Spec => []PartsInv
<1>1. Init => PartsInv
  BY DEF Init, PartsInv
<1> QED BY <1>1, PartsStep, Streaming, PTL DEF Spec

(* No file of more than one part ever becomes an object, whatever the rows,    *)
(* the part size and the faults: completedParts appends &partNumber, so that   *)
(* the list of two parts or more is refused.                                   *)
THEOREM StoredInOnePart == Spec => [](object # None => Len(object) <= PartSize)
<1>1. PartsInv => (object # None => Len(object) <= PartSize)
  BY DEF PartsInv
<1> QED BY <1>1, PartsInvariant, PTL

\* The file is never longer than the table's.
LEMMA FileLength ==
    ASSUME IInv, live, ~wr.err
    PROVE  Len(Written) <= rows + 2
<1>1. /\ rd.got \in Nat /\ rows \in Nat /\ channel \in Seq(Chunks)
      /\ hashed \in Seq(Chunks) /\ pipe.data \in Seq(Chunks) /\ wr \in WrState
  BY PipelineAssumption DEF IInv, TypeOK, RdState, PipeState
<1>2. QueueInv /\ FileInv
  BY DEF IInv, StreamInv
<1>3. Taken \in Nat /\ Taken <= rows
  <2>1. Sent <= rd.got /\ Sent \in Int /\ Len(channel) \in Nat
    BY <1>1 DEF Sent
  <2>2. Taken >= 0 /\ rd.got <= rows
    BY <1>2 DEF QueueInv
  <2> QED BY <1>1, <2>1, <2>2 DEF Taken
<1>4. ASSUME NEW k \in Nat PROVE Len(Prefix(k)) = k + 1 /\ Len(Atomic!FileOf(k)) = k + 2
  BY DEF Prefix, Atomic!FileOf
<1>5. CASE wr.pc = "create"
  <2>1. Written = <<>>
    BY <1>1, <1>2, <1>5, ConcatNothing DEF FileInv, IInv, WriterInv, Written
  <2> QED BY <1>1, <2>1
<1>6. CASE wr.pc # "create"
  <2>1. Written = Prefix(Taken) \/ Written = Atomic!FileOf(Taken)
    BY <1>1, <1>2, <1>6 DEF FileInv, WrState
  <2>2. Len(Prefix(Taken)) = Taken + 1 /\ Len(Atomic!FileOf(Taken)) = Taken + 2
    BY <1>3, <1>4
  <2>3. Len(Written) = Taken + 1 \/ Len(Written) = Taken + 2
    BY <2>1, <2>2, Zenon
  <2> HIDE DEF Taken, Written
  <2> QED BY <1>1, <1>3, <2>3
<1> QED BY <1>5, <1>6

(* Before the first fault a failing step is one that is not enabled. *)
LEMMA NoFault == TypeOK /\ faults' = 0 => ~Fault /\ (CallFails => ~live)
BY PipelineAssumption DEF TypeOK, Fault, CallFails

(* The uploader's own steps: with one part there is nothing to refuse. *)
LEMMA SmallUploaderStep ==
    ASSUME IInv, PartsInv, FitsOnePart, faults = 0, faults' = 0, Uploader, up' \in UpState,
           live \/ up.pc = "committed", ~wr.err, pipe.end # "error",
           up.pc \notin {"abort", "failed"},
           up.pc \in {"wait", "create", "read"} => OnePart,
           up.pc = "read" => upload.state = "open"
    PROVE  /\ up'.pc \notin {"abort", "failed"}
           /\ up'.pc \in {"wait", "create", "read"} => OnePart'
           /\ up'.pc = "read" => upload'.state = "open"
           /\ up'.pc = "committed" \/ live
<1>1. /\ up \in UpState /\ up.buf \in Seq(Chunks) /\ Len(up.buf) <= PartSize
      /\ upload \in UploadState /\ upload.data \in Seq(Chunks) /\ upload.count \in Nat
      /\ pipe \in PipeState /\ pipe.data \in Seq(Chunks) /\ hashed \in Seq(Chunks)
      /\ PartSize \in Nat \ {0} /\ rows \in Nat
  BY PipelineAssumption DEF IInv, TypeOK, UpState, UploadState, PipeState
<1>2. live
  BY DEF Uploader, UpWait, UpCreate, UpRead, UpReadFails, UpPart, UpComplete, UpAbort, UpOutcome, Ended
<1>3. ~Fault /\ ~CallFails
  BY <1>2, NoFault DEF IInv
<1>4. CASE UpWait \/ UpCreate
  <2>1. /\ up.pc \in {"wait", "create"} /\ up'.pc \in {"create", "read"}
        /\ up'.buf = up.buf /\ upload'.data = upload.data /\ upload'.count = upload.count
        /\ up'.pc = "read" => upload'.state = "open"
        /\ UNCHANGED pipe
    BY <1>1, <1>3, <1>4 DEF UpWait, UpCreate, UpGoTo, UpState, UploadState
  <2> QED BY <1>2, <2>1 DEF OnePart
<1>5. CASE UpRead
  <2>1. /\ up.pc = "read" /\ up'.pc = "read" /\ UNCHANGED upload /\ pipe.data # <<>>
    BY <1>1, <1>5 DEF UpRead, UpState, PipeIdle
  <2>2. upload.count = 0
    <3>1. pipe.end # "eof"
      BY <2>1 DEF IInv, WriterInv
    <3>2. ASSUME up.buf = <<>>, Len(upload.data) = PartSize PROVE FALSE
      <4>1. hashed = upload.data
        BY <1>1, <2>1, <3>2, ConcatNothing DEF IInv, UploaderInv
      <4>2. Len(Written) = PartSize + Len(pipe.data)
        <5>1. \A s, t \in Seq(Chunks) : Len(s \o t) = Len(s) + Len(t)
          OBVIOUS
        <5>2. Len(hashed \o pipe.data) = Len(hashed) + Len(pipe.data)
          BY <1>1, <5>1
        <5> QED BY <3>2, <4>1, <5>2 DEF Written
      <4>3. Len(pipe.data) > 0
        BY <1>1, <2>1
      <4>4. Len(Written) <= rows + 2
        BY <1>2, FileLength
      <4> QED BY <1>1, <4>2, <4>3, <4>4 DEF FitsOnePart
    <3> QED BY <2>1, <3>1, <3>2 DEF OnePart
  <2> QED BY <1>2, <2>1, <2>2 DEF OnePart
<1>6. CASE UpReadFails
  BY <1>6 DEF UpReadFails, Ended
<1>7. CASE UpPart
  <2>1. /\ up.pc = "read" /\ upload.state = "open" /\ UNCHANGED pipe
    BY <1>7 DEF UpPart, Ended
  <2>2. /\ up'.pc = "read" /\ up'.buf = <<>> /\ upload'.state = "open"
        /\ upload'.count = upload.count + 1 /\ upload'.data = upload.data \o up.buf
    BY <1>1, <1>3, <1>7, <2>1 DEF UpPart, UpState, UploadState
  <2>3. Len(up.buf) = PartSize \/ (up.buf # <<>> /\ pipe.end = "eof")
    BY <1>7 DEF UpPart, Full, Ended
  <2>4. up.buf # <<>>
    BY <1>1, <2>3
  <2>5. upload.count = 0
    BY <2>1, <2>4 DEF OnePart
  <2>6. upload'.data = up.buf
    <3>1. upload.data = <<>>
      BY <2>1, <2>5 DEF PartsInv
    <3> QED BY <1>1, <2>2, <3>1
  <2> QED BY <1>2, <2>1, <2>2, <2>3, <2>5, <2>6 DEF OnePart
<1>8. CASE UpComplete
  <2>1. /\ up.pc = "read" /\ upload.state = "open" /\ Ended("eof") /\ up.buf = <<>>
    BY <1>8 DEF UpComplete, Ended
  <2>2. upload.data # <<>>
    <3>1. Taken \in 0..rows /\ upload.data = Atomic!FileOf(Taken)
      BY <1>2, <2>1, Complete
    <3>2. ASSUME NEW k \in 0..rows PROVE Atomic!FileOf(k) # <<>>
      <4>1. Len(Atomic!FileOf(k)) = k + 2 /\ Len(<<>>) = 0
        BY <1>1 DEF Atomic!FileOf
      <4> HIDE DEF Atomic!FileOf
      <4> QED BY <1>1, <4>1
    <3> QED BY <3>1, <3>2, Zenon
  <2>3. upload.count = 1
    BY <2>1, <2>2 DEF OnePart, PartsInv
  <2>4. Accepted(CompletedParts)
    BY <2>3, AcceptedIsOne DEF IInv
  <2>5. up'.pc = "outcome"
    BY <1>1, <1>3, <1>8, <2>1, <2>4 DEF UpComplete, UpGoTo, UpState
  <2> QED BY <1>2, <2>5
<1>9. CASE UpAbort
  BY <1>9 DEF UpAbort
<1>10. CASE UpOutcome
  <2>1. outcome = "ok"
    BY <1>10 DEF UpOutcome, IInv, WriterInv, TypeOK
  <2>2. up'.pc = "committed"
    BY <1>1, <1>10, <2>1 DEF UpOutcome, UpGoTo, UpState
  <2> QED BY <2>2
<1> QED BY <1>4, <1>5, <1>6, <1>7, <1>8, <1>9, <1>10 DEF Uploader

(* No step fails before the first fault if the file fits into one part. *)
LEMMA SmallStep == IInv /\ PartsInv /\ SmallInv /\ [Next]_vars => SmallInv'
<1> SUFFICES ASSUME IInv, PartsInv, SmallInv, [Next]_vars, FitsOnePart', faults' = 0
             PROVE  /\ live' \/ up'.pc = "committed"
                    /\ ~wr'.err /\ pipe'.end # "error"
                    /\ up'.pc \notin {"abort", "failed"}
                    /\ up'.pc \in {"wait", "create", "read"} => OnePart'
                    /\ up'.pc = "read" => upload'.state = "open"
  BY DEF SmallInv
<1>1. TypeOK /\ TypeOK'
  BY TypeStep DEF IInv
<1>2. /\ up \in UpState /\ up' \in UpState /\ wr \in WrState /\ pipe \in PipeState
      /\ upload \in UploadState
  BY <1>1 DEF TypeOK
<1>3. FitsOnePart
  BY DEF FitsOnePart, Next, Reader, Writer, Uploader, Cancel, RunOnceReturns, AbortStaleUploads, vars
<1>4. faults = 0
  <2>1. faults \in Nat
    BY <1>1, PipelineAssumption DEF TypeOK
  <2>2. faults' = faults \/ faults' = faults + 1
    BY DEF Next, Reader, RdOpen, RdRecv, RdSend, Writer, WrCreate, WrBatch, WrDrained, WrFooter,
           WrReport, WrClose, Uploader, UpWait, UpCreate, UpRead, UpReadFails, UpPart, UpComplete,
           UpAbort, UpOutcome, Cancel, RunOnceReturns, AbortStaleUploads, CallFails, Fault, vars
  <2> QED BY <2>1, <2>2
<1>5. /\ live \/ up.pc = "committed"
      /\ ~wr.err /\ pipe.end # "error"
      /\ up.pc \notin {"abort", "failed"}
      /\ up.pc \in {"wait", "create", "read"} => OnePart
      /\ up.pc = "read" => upload.state = "open"
  BY <1>3, <1>4 DEF SmallInv
<1>6. ~Fault
  BY <1>1, NoFault
<1>7. CASE Uploader
  <2>1. UNCHANGED <<wr, live>> /\ pipe'.end = pipe.end
    BY <1>2, <1>7 DEF Uploader, UpWait, UpCreate, UpRead, UpReadFails, UpPart, UpComplete, UpAbort,
                      UpOutcome, PipeState
  <2>2. /\ up'.pc \notin {"abort", "failed"}
        /\ up'.pc \in {"wait", "create", "read"} => OnePart'
        /\ up'.pc = "read" => upload'.state = "open"
        /\ up'.pc = "committed" \/ live
    BY <1>2, <1>3, <1>4, <1>5, <1>7, SmallUploaderStep
  <2> QED BY <1>5, <2>1, <2>2
<1>8. CASE Writer
  <2>1. UNCHANGED <<up, upload, live>>
    BY <1>8 DEF Writer
  <2>2. wr'.err = wr.err /\ pipe'.end # "error" /\ (pipe.end = "eof" => pipe'.end = "eof")
    BY <1>2, <1>5, <1>6, <1>8 DEF Writer, WrCreate, WrBatch, WrDrained, WrFooter, WrReport, WrClose,
                                  Write, WrState, PipeState
  <2> QED BY <1>5, <2>1, <2>2 DEF OnePart
<1>9. CASE AbortStaleUploads
  <2>1. up.pc \in {"committed", "failed"} /\ UNCHANGED <<live, wr, pipe, up>>
    BY <1>6, <1>9 DEF AbortStaleUploads, Returned
  <2> QED BY <1>5, <2>1
<1>10. CASE Cancel \/ RunOnceReturns
  <2>1. up.pc \in {"committed", "failed"} /\ UNCHANGED <<wr, pipe, up>>
    BY <1>6, <1>10 DEF Cancel, RunOnceReturns, Returned
  <2> QED BY <1>5, <2>1
<1>11. CASE Reader \/ UNCHANGED vars
  <2>1. UNCHANGED <<live, wr, pipe, up, upload>>
    BY <1>11 DEF Reader, vars
  <2> QED BY <1>5, <2>1 DEF OnePart
<1> QED BY <1>7, <1>8, <1>9, <1>10, <1>11 DEF Next

(* An export whose file fits into one part fails only if a call failed, the    *)
(* task was cancelled or another process aborted the upload, for every table,  *)
(* channel and part size and every interleaving of the three goroutines.  With *)
(* StoredInOnePart it says exactly which files the equal part numbers hit.     *)
THEOREM SmallUploadsSucceed == Spec => []SmallFailsOnlyOnFault
<1>1. Init => SmallInv
  BY DEF Init, SmallInv, OnePart
<1>2. IInv /\ SmallInv => SmallFailsOnlyOnFault
  <2>1. TypeOK => faults = 0 \/ faults > 0
    BY PipelineAssumption DEF TypeOK
  <2> QED BY <2>1 DEF IInv, SmallInv, SmallFailsOnlyOnFault, FailsOnlyOnFault
<1> QED BY <1>1, <1>2, SmallStep, PartsInvariant, Streaming, PTL DEF Spec
=============================================================================
