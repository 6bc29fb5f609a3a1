------------------------------- MODULE Pipeline -------------------------------
(***************************************************************************)
(* One streaming export: the three goroutines between a BigQuery read      *)
(* session and a staging object.                                           *)
(*                                                                         *)
(*   reader    StorageReadReader.readTable's goroutine: Recv, then send    *)
(*             the record into a channel of ChanCap records                *)
(*   writer    ExecuteTask's (exportBatch's) goroutine: WriteStreamResult  *)
(*             from the channel into an io.Pipe                            *)
(*   uploader  ExecuteTask itself: UploadMultipart from the pipe, through  *)
(*             the hash reader, into parts of a multipart upload           *)
(*                                                                         *)
(* Bytes are chunks: the header NewFileWriter writes, one chunk for each   *)
(* record, the footer.  A part is PartSize chunks (16 MiB).  A pipe holds  *)
(* at most the chunk being written, and its writer waits until that has    *)
(* been read.  The context is the task's: cancelled by a lost lease or a   *)
(* shutdown, and by Worker.runOnce when ExecuteTask has returned.          *)
(***************************************************************************)
EXTENDS Naturals, Sequences

CONSTANTS
    MaxRecords,  \* bound: records in the table
    ChanCap,     \* capacity of the record channel: 32
    PartSize,    \* chunks in a part
    MaxFaults,   \* bound: failing calls, cancellations, foreign aborts
    None         \* no object

Header == 0
Footer == MaxRecords + 1
Chunks == 0..(MaxRecords + 1)

ASSUME PipelineAssumption ==
    /\ MaxRecords \in Nat /\ ChanCap \in Nat \ {0} /\ PartSize \in Nat \ {0}
    /\ MaxFaults \in Nat
ASSUME NoneAssumption == None \notin Seq(Chunks)

VARIABLES
    rows,     \* records in the table the session reads
    rd,       \* the reader: where it is, the records it has received
    channel,  \* the records in the channel; closed once the reader is done
    wr,       \* the writer: where it is, whether it failed
    pipe,     \* the io.Pipe: the chunk being written, how it was closed
    up,       \* the uploader: where it is, its buffer, partNumber
    upload,   \* the store's multipart upload: state, number of parts, bytes
    object,   \* the store's staging object
    hashed,   \* the bytes hash.Reader has seen
    outcome,  \* the buffered outcomeCh: "none", "ok" or "err"
    live,     \* is the context live
    cut,      \* history: the stream broke off under a live context
    faults    \* history: faults so far

vars == <<rows, rd, channel, wr, pipe, up, upload, object, hashed, outcome, live, cut, faults>>

Returned == up.pc \in {"committed", "failed"}

RdState     == [pc: {"open", "recv", "send", "done"}, got: 0..MaxRecords]
WrState     == [pc: {"create", "take", "footer", "report", "close", "done"}, err: BOOLEAN]
PipeState   == [data: Seq(Chunks), end: {"open", "eof", "error"}]
UpState     == [pc: {"wait", "create", "read", "abort", "outcome", "committed", "failed"},
                buf: Seq(Chunks), part: Nat]
UploadState == [state: {"none", "open", "aborted", "completed"}, count: Nat, data: Seq(Chunks)]

(* Goroutines, channel, pipe and store have their types; channel, pipe and     *)
(* part buffer keep within their capacities.                                   *)
TypeOK ==
    /\ rows \in 0..MaxRecords
    /\ rd \in RdState /\ wr \in WrState /\ up \in UpState
    /\ channel \in Seq(Chunks) /\ Len(channel) <= ChanCap
    /\ pipe \in PipeState /\ Len(pipe.data) <= 1
    /\ Len(up.buf) <= PartSize
    /\ upload \in UploadState
    /\ object \in Seq(Chunks) \cup {None} /\ hashed \in Seq(Chunks)
    /\ outcome \in {"none", "ok", "err"}
    /\ live \in BOOLEAN /\ cut \in BOOLEAN /\ faults \in 0..MaxFaults

Init ==
    /\ rows \in 0..MaxRecords
    /\ rd = [pc |-> "open", got |-> 0] /\ channel = <<>>
    /\ wr = [pc |-> "create", err |-> FALSE]
    /\ pipe = [data |-> <<>>, end |-> "open"]
    /\ up = [pc |-> "wait", buf |-> <<>>, part |-> 0]
    /\ upload = [state |-> "none", count |-> 0, data |-> <<>>]
    /\ object = None /\ hashed = <<>> /\ outcome = "none"
    /\ live = TRUE /\ cut = FALSE /\ faults = 0

Fault == faults < MaxFaults /\ faults' = faults + 1

\* A call under the context fails: it is cancelled, or the service fails.
CallFails == \/ ~live /\ UNCHANGED faults
             \/ live /\ Fault

-----------------------------------------------------------------------------
(* The reader. *)

\* The goroutine returns and closes the channel.
CloseOut(brokeOff) ==
    /\ rd' = [rd EXCEPT !.pc = "done"]
    /\ cut' = (cut \/ brokeOff)
    /\ UNCHANGED channel

\* ReadRows.
RdOpen ==
    /\ rd.pc = "open"
    /\ \/ live /\ rd' = [rd EXCEPT !.pc = "recv"] /\ UNCHANGED <<channel, cut, faults>>
       \/ CallFails /\ CloseOut(live)

\* The context, then Recv: a record, the end of the stream, or an error.
RdRecv ==
    /\ rd.pc = "recv"
    /\ \/ /\ live /\ rd.got < rows
          /\ rd' = [pc |-> "send", got |-> rd.got + 1]
          /\ UNCHANGED <<channel, cut, faults>>
       \/ live /\ rd.got = rows /\ CloseOut(FALSE) /\ UNCHANGED faults
       \/ CallFails /\ CloseOut(live)

MutSendOnly ==
    /\ rd.pc = "send" /\ Len(channel) < ChanCap
    /\ channel' = Append(channel, rd.got) /\ rd' = [rd EXCEPT !.pc = "recv"]
    /\ UNCHANGED <<cut, faults>>

\* select: the channel or the context.
RdSend ==
    /\ rd.pc = "send"
    /\ \/ /\ Len(channel) < ChanCap
          /\ channel' = Append(channel, rd.got) /\ rd' = [rd EXCEPT !.pc = "recv"]
          /\ UNCHANGED cut
       \/ ~live /\ CloseOut(FALSE)
    /\ UNCHANGED faults

Reader ==
    /\ RdOpen \/ RdRecv \/ RdSend
    /\ UNCHANGED <<rows, wr, pipe, up, upload, object, hashed, outcome, live>>

-----------------------------------------------------------------------------
(* The writer.  It goes on only when its last write has been read. *)

PipeIdle == pipe.data = <<>>
Write(chunk) == pipe' = [pipe EXCEPT !.data = <<chunk>>]

\* NewFileWriter writes the header, or fails and leaves nothing to close.
WrCreate ==
    /\ wr.pc = "create"
    /\ \/ Write(Header) /\ wr' = [wr EXCEPT !.pc = "take"] /\ UNCHANGED faults
       \/ Fault /\ wr' = [pc |-> "report", err |-> TRUE] /\ UNCHANGED pipe
    /\ UNCHANGED <<channel, outcome>>

\* The range over the channel: write the next batch.
WrBatch ==
    /\ wr.pc = "take" /\ PipeIdle /\ channel # <<>>
    /\ channel' = Tail(channel)
    /\ \/ Write(Head(channel)) /\ UNCHANGED <<wr, faults>>
       \/ /\ Fault /\ UNCHANGED pipe
          /\ \E step \in {"footer", "report"} : wr' = [pc |-> step, err |-> TRUE]
    /\ UNCHANGED outcome

\* ... until it is closed and drained, however the reader ended.
WrDrained ==
    /\ wr.pc = "take" /\ PipeIdle /\ channel = <<>> /\ rd.pc = "done"
    /\ wr' = [wr EXCEPT !.pc = "footer"]
    /\ UNCHANGED <<channel, pipe, outcome, faults>>

\* The deferred pqWriter.Close.  Its error would be dropped; the pipe gives none.
WrFooter ==
    /\ wr.pc = "footer"
    /\ Write(Footer)
    /\ wr' = [wr EXCEPT !.pc = "report"]
    /\ UNCHANGED <<channel, outcome, faults>>

MutReportPlainClose ==
    /\ wr.pc = "report" /\ PipeIdle
    /\ outcome' = (IF wr.err THEN "err" ELSE "ok") /\ wr' = [wr EXCEPT !.pc = "close"]
    /\ UNCHANGED <<pipe, channel, faults>>

\* WriteStreamResult has returned.
WrReport ==
    /\ wr.pc = "report" /\ PipeIdle
    /\ IF wr.err
       THEN /\ pipe' = [pipe EXCEPT !.end = "error"] /\ outcome' = "err"
            /\ wr' = [wr EXCEPT !.pc = "done"]
       ELSE /\ outcome' = "ok" /\ wr' = [wr EXCEPT !.pc = "close"]
            /\ UNCHANGED pipe
    /\ UNCHANGED <<channel, faults>>

MutCloseForgotten ==
    /\ wr.pc = "close"
    /\ wr' = [wr EXCEPT !.pc = "done"]
    /\ UNCHANGED <<pipe, channel, outcome, faults>>

\* The deferred pipeWriter.Close.
WrClose ==
    /\ wr.pc = "close"
    /\ pipe' = [pipe EXCEPT !.end = "eof"] /\ wr' = [wr EXCEPT !.pc = "done"]
    /\ UNCHANGED <<channel, outcome, faults>>

Writer ==
    /\ WrCreate \/ WrBatch \/ WrDrained \/ WrFooter \/ WrReport \/ WrClose
    /\ UNCHANGED <<rows, rd, up, upload, object, hashed, live, cut>>

-----------------------------------------------------------------------------
(* The uploader. *)

UpGoTo(step) == up' = [up EXCEPT !.pc = step]

\* Limiters.WaitUpload.
UpWait ==
    /\ up.pc = "wait"
    /\ \/ live /\ UpGoTo("create") /\ UNCHANGED faults
       \/ CallFails /\ UpGoTo("failed")
    /\ UNCHANGED <<upload, object, hashed, pipe>>

UpCreate ==
    /\ up.pc = "create"
    /\ \/ /\ live /\ UpGoTo("read") /\ UNCHANGED faults
          /\ upload' = [upload EXCEPT !.state = "open"]
       \/ CallFails /\ UpGoTo("failed") /\ UNCHANGED upload
    /\ UNCHANGED <<object, hashed, pipe>>

MutFull == Len(up.buf) = PartSize + 1

MutFullEarly == Len(up.buf) = PartSize - 1

\* io.ReadFull has filled the buffer.
Full == Len(up.buf) = PartSize
\* ... or has met the end of the pipe, with or without some bytes.
Ended(how) == up.pc = "read" /\ ~Full /\ PipeIdle /\ pipe.end = how

MutHashSkips(chunk) == IF chunk = Footer THEN hashed ELSE Append(hashed, chunk)

\* hash.Reader.Read.
Hash(chunk) == Append(hashed, chunk)

\* io.ReadFull takes the chunk that is in the pipe.
UpRead ==
    /\ up.pc = "read" /\ ~Full /\ ~PipeIdle
    /\ up' = [up EXCEPT !.buf = Append(@, Head(pipe.data))]
    /\ hashed' = Hash(Head(pipe.data))
    /\ pipe' = [pipe EXCEPT !.data = <<>>]
    /\ UNCHANGED <<upload, object, faults>>

UpReadFails ==
    /\ Ended("error")
    /\ UpGoTo("abort")
    /\ UNCHANGED <<upload, object, hashed, pipe, faults>>

\* UploadPart of a full buffer or of the rest.
UpPart ==
    /\ (up.pc = "read" /\ Full) \/ (Ended("eof") /\ up.buf # <<>>)
    /\ \/ /\ live /\ upload.state = "open" /\ UNCHANGED faults
          /\ upload' = [upload EXCEPT !.count = @ + 1, !.data = @ \o up.buf]
          /\ up' = [up EXCEPT !.part = @ + 1, !.buf = <<>>]
       \/ /\ CallFails \/ (upload.state # "open" /\ UNCHANGED faults)
          /\ up' = [up EXCEPT !.part = @ + 1, !.pc = "abort"]
          /\ UNCHANGED upload
    /\ UNCHANGED <<object, hashed, pipe>>

\* Every CompletedPart points at the same partNumber.
CompletedParts == [i \in 1..upload.count |-> up.part]

\* The store wants at least one part, in strictly ascending order.
Accepted(numbers) ==
    Len(numbers) > 0 /\ \A i, j \in DOMAIN numbers : i < j => numbers[i] < numbers[j]

UpComplete ==
    /\ Ended("eof") /\ up.buf = <<>>
    /\ \/ /\ live /\ upload.state = "open" /\ Accepted(CompletedParts)
          /\ object' = upload.data /\ upload' = [upload EXCEPT !.state = "completed"]
          /\ UpGoTo("outcome") /\ UNCHANGED faults
       \/ /\ \/ CallFails
             \/ (upload.state # "open" \/ ~Accepted(CompletedParts)) /\ UNCHANGED faults
          /\ UpGoTo("abort") /\ UNCHANGED <<object, upload>>
    /\ UNCHANGED <<hashed, pipe>>

\* AbortMultipartUpload under the same context; its error is dropped.
UpAbort ==
    /\ up.pc = "abort"
    /\ \/ /\ live /\ UNCHANGED faults
          /\ upload' = [upload EXCEPT !.state = "aborted"]
       \/ CallFails /\ UNCHANGED upload
    /\ UpGoTo("failed")
    /\ UNCHANGED <<object, hashed, pipe>>

\* ExecuteTask reads outcomeCh.
UpOutcome ==
    /\ up.pc = "outcome" /\ outcome # "none"
    /\ UpGoTo(IF outcome = "ok" THEN "committed" ELSE "failed")
    /\ UNCHANGED <<upload, object, hashed, pipe, faults>>

Uploader ==
    /\ \/ UpWait \/ UpCreate \/ UpRead \/ UpReadFails \/ UpPart \/ UpComplete
       \/ UpAbort \/ UpOutcome
    /\ UNCHANGED <<rows, rd, channel, wr, outcome, live, cut>>

-----------------------------------------------------------------------------
\* A lost lease, Coordinator.Cancel or a shutdown.
Cancel ==
    /\ live /\ ~Returned /\ live' = FALSE /\ Fault
    /\ UNCHANGED <<rows, rd, channel, wr, pipe, up, upload, object, hashed, outcome, cut>>

\* Worker.runOnce's deferred cancel.
RunOnceReturns ==
    /\ live /\ Returned /\ live' = FALSE
    /\ UNCHANGED <<rows, rd, channel, wr, pipe, up, upload, object, hashed, outcome, cut,
                   faults>>

\* Another process starts and finds the upload more than a day old.
AbortStaleUploads ==
    /\ upload.state = "open"
    /\ upload' = [upload EXCEPT !.state = "aborted"]
    /\ \/ Returned /\ UNCHANGED faults
       \/ ~Returned /\ Fault
    /\ UNCHANGED <<rows, rd, channel, wr, pipe, up, object, hashed, outcome, live, cut>>

Next == Reader \/ Writer \/ Uploader \/ Cancel \/ RunOnceReturns \/ AbortStaleUploads

Spec == Init /\ [][Next]_vars

(* Goroutines are scheduled, and a call returns with a result or an error. *)
Fairness == WF_vars(Reader) /\ WF_vars(Writer) /\ WF_vars(Uploader) /\ WF_vars(RunOnceReturns)

FairSpec == Spec /\ Fairness

-----------------------------------------------------------------------------
UploadStatus ==
    CASE up.pc = "failed" -> "failed"
      [] up.pc # "failed" /\ object # None -> "stored"
      [] OTHER -> "running"

Atomic == INSTANCE AtomicUpload WITH status <- UploadStatus

(* An export's upload is atomic to its caller: the object appears at once, and *)
(* holds the whole table unless the stream broke off, or the call fails and    *)
(* there is none.  In particular a cancellation, which the writer also takes   *)
(* for the end of the table, never leaves a shortened object, and outcomeCh    *)
(* never reports an error for an object that was stored.                       *)
ImplementsAtomicUpload == Atomic!Spec

(* The size and SHA-256 that go into the manifest are of the object's bytes,   *)
(* and the writer that produced them had no error.                             *)
HashIsOfObject == object # None => hashed = object /\ ~wr.err

(* The upload call returns: no goroutine waits for one that waits for it, with *)
(* a full channel, an unread pipe or a broken-off stream.                      *)
UploadReturns == <>Returned

(* The reader does not outlive the task: blocked on a full channel, it still   *)
(* sees the context that runOnce cancels.                                      *)
ReaderReleased == Returned ~> rd.pc = "done"

(* An upload fails only if a call failed or the task was cancelled.            *)
FailsOnlyOnFault == up.pc = "failed" => faults > 0

\* Header, records and footer fill one part at most.
FitsOnePart == rows + 2 <= PartSize

(* ... and that is so for a table whose file fits into one part, exactly one   *)
(* part included: no such export fails for its size, its rows being slow to    *)
(* come or the order in which the three goroutines run.                        *)
SmallFailsOnlyOnFault == FitsOnePart => FailsOnlyOnFault
=============================================================================
