------------------------------- MODULE Batching -------------------------------
(***************************************************************************)
(* groupIntoBatches: the partitions a sync has to export, in the order of  *)
(* their ids, cut into windows of batchSizeDays days that start at the     *)
(* first one.  A partition is its day number; an id that is no date        *)
(* (__NULL__, __UNPARTITIONED__) is sorted after all dates.                *)
(*                                                                         *)
(* The function's two loops are steps, so that what they compute is an     *)
(* invariant of them.                                                      *)
(***************************************************************************)
EXTENDS Integers, Sequences, Functions, FiniteSetsExt

CONSTANTS
    NoDate,  \* the id that is no date; larger than every day
    Lists,   \* the lists of partitions the caller may pass
    Sizes    \* the values of batch_size_days

Increasing(s) == \A j, k \in DOMAIN s : j < k => s[j] < s[k]

ASSUME NoDateAssumption == NoDate \in Nat
\* partitions.go: ORDER BY ..., partition_id; a table has each id once
ASSUME ListsAssumption == \A s \in Lists : s \in Seq(1..NoDate) /\ Increasing(s)
ASSUME SizesAssumption == Sizes \subseteq Int

VARIABLES
    partitions, days,  \* the arguments
    pc,
    start, end,        \* batchStart and batchEnd
    next, batch,          \* the inner loop: the next partition, those found so far
    result

vars == <<partitions, days, pc, start, end, next, batch, result>>

MutBatchSizeAsGiven(n) == n

BatchSize(n) == IF n <= 0 THEN 7 ELSE n

MinDate == Min(Range(partitions))
MaxDate == Max(Range(partitions))

Init ==
    /\ partitions \in Lists /\ days \in Sizes
    /\ pc = "enter" /\ start = 0 /\ end = 0 /\ next = 1 /\ batch = <<>> /\ result = <<>>

\* No partitions; an id that does not parse: one batch; else the loop is set up.
Enter ==
    /\ pc = "enter"
    /\ \/ /\ partitions = <<>>
          /\ pc' = "return" /\ UNCHANGED <<start, result>>
       \/ /\ partitions # <<>> /\ MaxDate = NoDate
          /\ pc' = "return" /\ result' = <<partitions>> /\ UNCHANGED start
       \/ /\ partitions # <<>> /\ MaxDate # NoDate
          /\ pc' = "loop" /\ start' = MinDate /\ UNCHANGED result
    /\ UNCHANGED <<partitions, days, end, next, batch>>

MutWindowEnd(from) == Min({from + BatchSize(days), MaxDate})

WindowEnd(from) == Min({from + BatchSize(days) - 1, MaxDate})

NextWindow ==
    /\ pc = "loop" /\ start <= MaxDate
    /\ pc' = "scan" /\ end' = WindowEnd(start) /\ batch' = <<>> /\ next' = 1
    /\ UNCHANGED <<partitions, days, start, result>>

InWindow(p) == p # NoDate /\ start <= p /\ p <= end

Scan ==
    /\ pc = "scan" /\ next <= Len(partitions)
    /\ batch' = IF InWindow(partitions[next]) THEN Append(batch, partitions[next]) ELSE batch
    /\ next' = next + 1
    /\ UNCHANGED <<partitions, days, pc, start, end, result>>

\* An empty batch is left out.
CloseWindow ==
    /\ pc = "scan" /\ next > Len(partitions)
    /\ pc' = "loop" /\ start' = end + 1
    /\ result' = IF batch = <<>> THEN result ELSE Append(result, batch)
    /\ UNCHANGED <<partitions, days, end, next, batch>>

Return ==
    /\ pc = "loop" /\ start > MaxDate
    /\ pc' = "return"
    /\ UNCHANGED <<partitions, days, start, end, next, batch, result>>

Next == Enter \/ NextWindow \/ Scan \/ CloseWindow \/ Return

Spec == Init /\ [][Next]_vars

-----------------------------------------------------------------------------
\* The batch IncrementalSync exports: the days up to the end of the first window.
FirstWindow == {p \in Range(partitions) : p <= MinDate + BatchSize(days) - 1}

IsPartition(bs) ==
    /\ UNION {Range(bs[k]) : k \in DOMAIN bs} = Range(partitions)
    /\ \A k \in DOMAIN bs : bs[k] # <<>> /\ Increasing(bs[k])
    /\ \A j, k \in DOMAIN bs : j < k => \A p \in Range(bs[j]), q \in Range(bs[k]) : p < q
    /\ NoDate \notin Range(partitions) =>
          \A k \in DOMAIN bs : \A p, q \in Range(bs[k]) : q - p < BatchSize(days)
    /\ partitions # <<>> /\ NoDate \notin Range(partitions) =>
          bs # <<>> /\ Range(bs[1]) = FirstWindow

(* The batches are the partitions, each in exactly one batch and in order, no  *)
(* batch is empty (exportBatch takes its first and last element), and a batch  *)
(* of dates spans at most the configured days.  The first one, the only one    *)
(* syncTable exports, is the first window.                                     *)
BatchesPartition == pc = "return" => IsPartition(result)

(* Each window starts after the one before and none starts past the day after  *)
(* the last partition, whatever batch_size_days is: the loop ends, after at    *)
(* most as many rounds as there are days.  A size of zero would keep it where  *)
(* it is for ever.                                                             *)
WindowsMoveOn ==
    [][pc = "scan" /\ pc' = "loop" => start < start' /\ start' <= MaxDate + 1]_vars
=============================================================================
