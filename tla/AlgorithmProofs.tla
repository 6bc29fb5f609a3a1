-------------------------- MODULE AlgorithmProofs --------------------------
(***************************************************************************)
(* Proofs about two pure functions, for every input.                       *)
(*                                                                         *)
(* groupIntoBatches cuts every list of partitions that is in the order of  *)
(* its ids into batches, for every batch_size_days and any gaps.  The      *)
(* inductive invariant is the outer loop's: the result so far is a cut of  *)
(* the partitions before batchStart.  The inner loop's is that batch holds *)
(* those of the partitions looked at that lie in the window.               *)
(*                                                                         *)
(* ClassifyChanges judges a list of changes one by one, and the judgement  *)
(* is right for schemas of any width and depth as far as the columns and   *)
(* their types go: below the first column of a path on which two schemas   *)
(* disagree nothing needs to be looked at.  Modes of columns that both     *)
(* have are not in the changes, and not in what is proved.                 *)
(***************************************************************************)
EXTENDS Batching, SchemaChanges, SequenceTheorems, FiniteSetTheorems, TLAPS

USE NoDateAssumption, ListsAssumption, SizesAssumption

-----------------------------------------------------------------------------
(***************************************************************************)
(* Facts about lists, minima and maxima.                                   *)
(***************************************************************************)

(* What an append adds to a list: its last element, and nothing else. *)
LEMMA AppendFacts ==
    ASSUME NEW S, NEW s \in Seq(S), NEW e \in S
    PROVE  /\ Append(s, e) \in Seq(S) /\ Append(s, e) # <<>>
           /\ DOMAIN Append(s, e) = DOMAIN s \cup {Len(s) + 1}
           /\ Append(s, e)[Len(s) + 1] = e
           /\ \A k \in DOMAIN s : Append(s, e)[k] = s[k] /\ k \in Nat /\ 1 <= k /\ k <= Len(s)
           /\ Range(Append(s, e)) = Range(s) \cup {e}
<1>1. /\ Append(s, e) \in Seq(S) /\ Append(s, e) # <<>>
      /\ DOMAIN Append(s, e) = DOMAIN s \cup {Len(s) + 1}
      /\ Append(s, e)[Len(s) + 1] = e
      /\ \A k \in DOMAIN s : Append(s, e)[k] = s[k] /\ k \in Nat /\ 1 <= k /\ k <= Len(s)
  OBVIOUS
<1>2. Range(Append(s, e)) = Range(s) \cup {e}
  <2>1. \A x : x \in Range(Append(s, e)) <=> x \in Range(s) \/ x = e
    BY <1>1 DEF Range
  <2> QED BY <2>1
<1> QED BY <1>1, <1>2

(* The first element of an increasing list is its least, the last its largest. *)
LEMMA Ends ==
    ASSUME NEW s \in Seq(1..NoDate), Increasing(s), s # <<>>
    PROVE  /\ Min(Range(s)) = s[1] /\ Max(Range(s)) = s[Len(s)]
           /\ s[1] \in Range(s) /\ s[Len(s)] \in Range(s)
           /\ Range(s) \in SUBSET (1..NoDate)
           /\ \A p \in Range(s) : s[1] <= p /\ p <= s[Len(s)]
<1>1. /\ Len(s) \in Nat /\ 1 <= Len(s) /\ DOMAIN s = 1..Len(s)
      /\ \A k \in DOMAIN s : s[k] \in 1..NoDate
  OBVIOUS
<1>2. s[1] \in Range(s) /\ s[Len(s)] \in Range(s) /\ Range(s) \in SUBSET (1..NoDate)
  BY <1>1 DEF Range
<1>3. \A k \in DOMAIN s : s[1] <= s[k] /\ s[k] <= s[Len(s)]
  <2> TAKE k \in DOMAIN s
  <2>1. 1 \in DOMAIN s /\ Len(s) \in DOMAIN s /\ k \in Nat /\ 1 <= k /\ k <= Len(s)
    BY <1>1
  <2>2. s[1] \in Int /\ s[k] \in Int /\ s[Len(s)] \in Int
    BY <1>1, <2>1
  <2>3. (1 < k => s[1] < s[k]) /\ (k < Len(s) => s[k] < s[Len(s)])
    BY <2>1 DEF Increasing
  <2> QED BY <1>1, <2>1, <2>2, <2>3
<1>4. \A p \in Range(s) : s[1] <= p /\ p <= s[Len(s)]
  BY <1>3 DEF Range
<1>5. Min(Range(s)) = s[1]
  <2>1. \A x \in Range(s) : (\A y \in Range(s) : x =< y) => x = s[1]
    BY <1>2, <1>4
  <2> QED BY <1>2, <1>4, <2>1 DEF Min
<1>6. Max(Range(s)) = s[Len(s)]
  <2>1. \A x \in Range(s) : (\A y \in Range(s) : x >= y) => x = s[Len(s)]
    BY <1>2, <1>4
  <2>2. \A y \in Range(s) : s[Len(s)] >= y
    BY <1>2, <1>4
  <2> QED BY <1>2, <2>1, <2>2 DEF Max
<1> QED BY <1>2, <1>4, <1>5, <1>6

(* batchEnd: the end of the window, or the last partition if that comes first. *)
LEMMA MinOfTwo ==
    ASSUME NEW a \in Int, NEW b \in Int
    PROVE  Min({a, b}) = IF a <= b THEN a ELSE b
<1>1. CASE a <= b
  <2>1. \A x \in {a, b} : (\A y \in {a, b} : x =< y) => x = a
    BY <1>1
  <2> QED BY <1>1, <2>1 DEF Min
<1>2. CASE ~(a <= b)
  <2>1. \A x \in {a, b} : (\A y \in {a, b} : x =< y) => x = b
    BY <1>2
  <2>2. \A y \in {a, b} : b =< y
    BY <1>2
  <2> QED BY <1>2, <2>1, <2>2 DEF Min
<1> QED BY <1>1, <1>2

(* A batch size is at least one day, whatever is configured. *)
LEMMA SizePositive ==
    ASSUME days \in Sizes
    PROVE  BatchSize(days) \in Int /\ BatchSize(days) >= 1
  BY DEF BatchSize
-----------------------------------------------------------------------------
\* The batches cs hold the partitions before the day from.
Cut(cs, from) ==
    /\ \A k \in DOMAIN cs : cs[k] # <<>> /\ Increasing(cs[k])
    /\ \A j, k \in DOMAIN cs : j < k =>
          \A p \in Range(cs[j]), q \in Range(cs[k]) : p < q
    /\ UNION {Range(cs[k]) : k \in DOMAIN cs} = {p \in Range(partitions) : p < from}
    /\ \A k \in DOMAIN cs : \A p, q \in Range(cs[k]) : q - p < BatchSize(days)
    /\ IF from = MinDate THEN cs = <<>> ELSE cs # <<>> /\ Range(cs[1]) = FirstWindow

\* The partitions the inner loop has found: those before next in the window.
Found == {p \in {partitions[k] : k \in {n \in DOMAIN partitions : n < next}} : InWindow(p)}

LoopTypes ==
    /\ partitions \in Lists /\ days \in Sizes
    /\ pc \in {"enter", "loop", "scan", "return"}
    /\ start \in Nat /\ end \in Int /\ next \in Nat
    /\ batch \in Seq(1..NoDate) /\ result \in Seq(Seq(1..NoDate))

Looping ==
    /\ partitions # <<>> /\ MaxDate # NoDate
    /\ MinDate <= start /\ start <= MaxDate + 1
    /\ Cut(result, start)

Scanning ==
    /\ start <= MaxDate /\ end = WindowEnd(start)
    /\ 1 <= next /\ next <= Len(partitions) + 1
    /\ Increasing(batch) /\ Range(batch) = Found

BInv ==
    /\ LoopTypes
    /\ pc = "enter" => result = <<>>
    /\ pc \in {"loop", "scan"} => Looping
    /\ pc = "scan" => Scanning
    /\ BatchesPartition

(* The arguments' dates, once the loop is reached. *)
LEMMA Dates ==
    ASSUME partitions \in Lists, partitions # <<>>
    PROVE  /\ MinDate \in 1..NoDate /\ MaxDate \in 1..NoDate
           /\ MinDate \in Range(partitions) /\ MaxDate \in Range(partitions)
           /\ MinDate <= MaxDate
           /\ Range(partitions) \in SUBSET (1..NoDate)
           /\ \A p \in Range(partitions) : MinDate <= p /\ p <= MaxDate
<1>1. partitions \in Seq(1..NoDate) /\ Increasing(partitions)
  OBVIOUS
<1> QED BY <1>1, Ends DEF MinDate, MaxDate

(* A window is at least one day and no longer than configured. *)
LEMMA WindowFacts ==
    ASSUME LoopTypes, partitions # <<>>, start <= MaxDate
    PROVE  /\ WindowEnd(start) \in Int
           /\ start <= WindowEnd(start) /\ WindowEnd(start) <= MaxDate
           /\ WindowEnd(start) <= start + BatchSize(days) - 1
           /\ WindowEnd(start) \in {start + BatchSize(days) - 1, MaxDate}
<1>1. BatchSize(days) \in Int /\ BatchSize(days) >= 1 /\ MaxDate \in 1..NoDate /\ start \in Nat
  BY SizePositive, Dates DEF LoopTypes
<1>2. WindowEnd(start) = IF start + BatchSize(days) - 1 <= MaxDate
                         THEN start + BatchSize(days) - 1 ELSE MaxDate
  BY <1>1, MinOfTwo DEF WindowEnd
<1> QED BY <1>1, <1>2

(* Closing a window: the batch found is appended unless it is empty, and the *)
(* result is a cut at the day after the window.                              *)
LEMMA CutGrows ==
    ASSUME LoopTypes, Looping, Scanning, next > Len(partitions)
    PROVE  Cut(IF batch = <<>> THEN result ELSE Append(result, batch), end + 1)
<1> DEFINE S == 1..NoDate
<1>0. /\ start \in Nat /\ end \in Int /\ batch \in Seq(S) /\ result \in Seq(Seq(S))
      /\ partitions \in Seq(S) /\ next \in Nat
      /\ BatchSize(days) \in Int /\ BatchSize(days) >= 1
  BY SizePositive DEF LoopTypes
<1>1. /\ MinDate \in S /\ MaxDate \in S /\ MinDate \in Range(partitions)
      /\ Range(partitions) \in SUBSET S /\ MaxDate # NoDate
      /\ \A p \in Range(partitions) : MinDate <= p /\ p <= MaxDate
  BY Dates DEF LoopTypes, Looping
<1>2. /\ start <= end /\ end <= MaxDate /\ end <= start + BatchSize(days) - 1
      /\ end \in {start + BatchSize(days) - 1, MaxDate} /\ MinDate <= start
  BY WindowFacts DEF Looping, Scanning
<1>3. Range(batch) = {p \in Range(partitions) : start <= p /\ p <= end}
  <2>1. {partitions[k] : k \in {n \in DOMAIN partitions : n < next}} = Range(partitions)
    BY <1>0 DEF Range, Scanning
  <2>2. Found = {p \in Range(partitions) : start <= p /\ p <= end}
    BY <1>1, <1>2, <2>1 DEF Found, InWindow
  <2> QED BY <2>2 DEF Scanning
<1>5. batch = <<>> => Range(batch) = {}
  BY DEF Range
<1>6. Cut(result, start)
  BY DEF Looping
<1>7. {p \in Range(partitions) : p < end + 1} = {p \in Range(partitions) : p < start} \cup Range(batch)
  BY <1>0, <1>1, <1>2, <1>3
<1>8. start = MinDate => Range(batch) = FirstWindow
  BY <1>0, <1>1, <1>2, <1>3 DEF FirstWindow
<1>9. start = MinDate => MinDate \in Range(batch)
  BY <1>0, <1>1, <1>2, <1>3
<1>10. end + 1 # MinDate
  BY <1>0, <1>1, <1>2
<1>11. CASE batch = <<>>
  <2>1. start # MinDate
    BY <1>5, <1>9, <1>11
  <2> QED BY <1>5, <1>6, <1>7, <1>10, <1>11, <2>1 DEF Cut
<1>12. CASE batch # <<>>
  <2> DEFINE cs == Append(result, batch)
             n == Len(result) + 1
  <2>1. /\ DOMAIN cs = DOMAIN result \cup {n} /\ cs[n] = batch /\ n \in Nat /\ cs # <<>>
        /\ \A k \in DOMAIN result : cs[k] = result[k] /\ k \in Nat /\ 1 <= k /\ k < n
    <3>1. \A s \in Seq(Seq(S)), e \in Seq(S) :
             /\ Append(s, e) # <<>> /\ DOMAIN Append(s, e) = DOMAIN s \cup {Len(s) + 1}
             /\ Append(s, e)[Len(s) + 1] = e
             /\ \A k \in DOMAIN s : Append(s, e)[k] = s[k] /\ k \in Nat /\ 1 <= k /\ k <= Len(s)
      BY AppendFacts
    <3>2. result \in Seq(Seq(S)) /\ batch \in Seq(S) /\ Len(result) \in Nat
      BY <1>0
    <3> HIDE DEF S
    <3> QED BY <3>1, <3>2
  <2> HIDE DEF cs, n
  <2>2. UNION {Range(result[k]) : k \in DOMAIN result} = {p \in Range(partitions) : p < start}
    BY <1>6 DEF Cut
  <2>3. \A k \in DOMAIN result : Range(result[k]) \in SUBSET {p \in Range(partitions) : p < start}
    BY <2>2
  <2>4. \A k \in DOMAIN cs : cs[k] # <<>> /\ Increasing(cs[k])
    BY <1>6, <1>12, <2>1 DEF Cut, Scanning
  <2>5. \A j, k \in DOMAIN cs : j < k => \A p \in Range(cs[j]), q \in Range(cs[k]) : p < q
    <3> SUFFICES ASSUME NEW j \in DOMAIN cs, NEW k \in DOMAIN cs, j < k,
                        NEW p \in Range(cs[j]), NEW q \in Range(cs[k])
                 PROVE  p < q
      OBVIOUS
    <3>1. j \in DOMAIN result
      BY <2>1
    <3>2. CASE k \in DOMAIN result
      BY <1>6, <2>1, <3>1, <3>2 DEF Cut
    <3>3. CASE k = n
      <4>1. p < start /\ start <= q /\ p \in Int /\ q \in Int
        BY <1>1, <1>3, <2>1, <2>3, <3>1, <3>3
      <4> QED BY <1>0, <4>1
    <3> QED BY <2>1, <3>2, <3>3
  <2>6. UNION {Range(cs[k]) : k \in DOMAIN cs} = {p \in Range(partitions) : p < end + 1}
    <3>1. UNION {Range(cs[k]) : k \in DOMAIN cs}
             = (UNION {Range(result[k]) : k \in DOMAIN result}) \cup Range(batch)
      <4>1. \A x : (\E k \in DOMAIN cs : x \in Range(cs[k]))
                   <=> (\E k \in DOMAIN result : x \in Range(result[k])) \/ x \in Range(batch)
        BY <2>1
      <4>2. \A x : x \in UNION {Range(cs[k]) : k \in DOMAIN cs}
                   <=> \E k \in DOMAIN cs : x \in Range(cs[k])
        OBVIOUS
      <4>3. \A x : x \in UNION {Range(result[k]) : k \in DOMAIN result}
                   <=> \E k \in DOMAIN result : x \in Range(result[k])
        OBVIOUS
      <4> QED BY <4>1, <4>2, <4>3, Zenon
    <3>2. UNION {Range(cs[k]) : k \in DOMAIN cs} = {p \in Range(partitions) : p < start} \cup Range(batch)
      BY <2>2, <3>1, Zenon
    <3> QED BY <1>7, <3>2
  <2>7. \A k \in DOMAIN cs : \A p, q \in Range(cs[k]) : q - p < BatchSize(days)
    <3>1. \A p, q \in Range(batch) : q - p < BatchSize(days)
      BY <1>0, <1>1, <1>2, <1>3
    <3> QED BY <1>6, <2>1, <3>1 DEF Cut
  <2>8. Range(cs[1]) = FirstWindow
    <3>1. CASE start = MinDate
      <4>1. result = <<>>
        BY <1>6, <3>1 DEF Cut
      <4>2. n = 1
        BY <4>1 DEF n
      <4> QED BY <1>8, <2>1, <3>1, <4>2
    <3>2. CASE start # MinDate
      <4>1. result # <<>> /\ Range(result[1]) = FirstWindow
        BY <1>6, <3>2 DEF Cut
      <4>2. 1 \in DOMAIN result
        BY <1>0, <4>1
      <4> QED BY <2>1, <4>1, <4>2
    <3> QED BY <3>1, <3>2
  <2>9. Cut(cs, end + 1)
    BY <1>10, <2>1, <2>4, <2>5, <2>6, <2>7, <2>8 DEF Cut
  <2> QED BY <1>12, <2>9 DEF cs
<1> QED BY <1>11, <1>12

(* The inner loop: a partition of the window is larger than those found. *)
LEMMA ScanStep ==
    ASSUME LoopTypes, Looping, Scanning, pc = "scan", Scan
    PROVE  LoopTypes' /\ Scanning' /\ Looping'
<1>0. /\ partitions \in Seq(1..NoDate) /\ Increasing(partitions) /\ next \in Nat
      /\ next \in DOMAIN partitions /\ partitions[next] \in 1..NoDate
      /\ batch \in Seq(1..NoDate)
      /\ \A k \in DOMAIN partitions : k \in Nat /\ partitions[k] \in 1..NoDate
      /\ Len(partitions) \in Nat
  <2>1. /\ partitions \in Seq(1..NoDate) /\ Increasing(partitions) /\ next \in Nat
        /\ batch \in Seq(1..NoDate)
    BY DEF LoopTypes
  <2>2. 1 <= next /\ next <= Len(partitions)
    BY DEF Scanning, Scan
  <2> QED BY <2>1, <2>2
<1>1. UNCHANGED <<partitions, days, pc, start, end, result>> /\ next' = next + 1
  BY DEF Scan
<1>2. Found' = Found \cup (IF InWindow(partitions[next]) THEN {partitions[next]} ELSE {})
  <2>1. \A p : InWindow(p)' <=> InWindow(p)
    BY <1>1 DEF InWindow
  <2>2. \A p : p \in Found' <=> p \in Found \/ (p = partitions[next] /\ InWindow(p))
    <3>1. \A p : p \in Found <=> InWindow(p) /\ \E k \in DOMAIN partitions : k < next /\ p = partitions[k]
      BY DEF Found
    <3>2. \A p : p \in Found' <=> InWindow(p) /\ \E k \in DOMAIN partitions : k < next + 1 /\ p = partitions[k]
      BY <1>1, <2>1 DEF Found
    <3>3. \A k \in DOMAIN partitions : k < next + 1 <=> k < next \/ k = next
      BY <1>0
    <3> QED BY <1>0, <3>1, <3>2, <3>3
  <2> QED BY <2>2
<1>3. \A p \in Found : p < partitions[next]
  BY <1>0 DEF Found, Increasing
<1>4. ASSUME batch' \in Seq(1..NoDate), Increasing(batch'), Range(batch') = Found'
      PROVE  LoopTypes' /\ Scanning' /\ Looping'
  <2>1. LoopTypes'
    BY <1>0, <1>1, <1>4 DEF LoopTypes
  <2>2. Looping'
    <3>1. MinDate' = MinDate /\ MaxDate' = MaxDate /\ FirstWindow' = FirstWindow
      BY <1>1 DEF MinDate, MaxDate, FirstWindow
    <3>2. Cut(result, start)'
      BY <1>1, <3>1 DEF Looping, Cut
    <3> QED BY <1>1, <3>1, <3>2 DEF Looping
  <2>3. Scanning'
    <3>1. MaxDate' = MaxDate /\ WindowEnd(start)' = WindowEnd(start)
      BY <1>1 DEF MaxDate, WindowEnd
    <3>2. next + 1 <= Len(partitions) + 1 /\ 1 <= next + 1
      BY <1>0
    <3> QED BY <1>1, <1>4, <3>1, <3>2 DEF Scanning
  <2> QED BY <2>1, <2>2, <2>3
<1>5. CASE ~InWindow(partitions[next])
  <2>1. batch' = batch /\ Found' = Found
    BY <1>2, <1>5 DEF Scan
  <2> QED BY <1>0, <1>4, <2>1 DEF Scanning
<1>6. CASE InWindow(partitions[next])
  <2>1. batch' = Append(batch, partitions[next])
    BY <1>6 DEF Scan
  <2>2. /\ batch' \in Seq(1..NoDate) /\ Range(batch') = Range(batch) \cup {partitions[next]}
        /\ DOMAIN batch' = DOMAIN batch \cup {Len(batch) + 1}
        /\ batch'[Len(batch) + 1] = partitions[next]
        /\ \A k \in DOMAIN batch : batch'[k] = batch[k] /\ k \in Nat /\ k <= Len(batch)
        /\ Len(batch) \in Nat
    BY <1>0, <2>1, AppendFacts
  <2>3. \A k \in DOMAIN batch : batch[k] < partitions[next]
    BY <1>3 DEF Scanning, Range
  <2>4. Increasing(batch')
    <3> SUFFICES ASSUME NEW j \in DOMAIN batch', NEW k \in DOMAIN batch', j < k
                 PROVE  batch'[j] < batch'[k]
      BY DEF Increasing
    <3>1. j \in DOMAIN batch
      BY <2>2
    <3> QED BY <2>2, <2>3, <3>1 DEF Scanning, Increasing
  <2>5. Range(batch') = Found'
    BY <1>2, <1>6, <2>2 DEF Scanning
  <2> QED BY <1>4, <2>2, <2>4, <2>5
<1> QED BY <1>5, <1>6

(* A list that holds an id without a date ends with it, and is one batch. *)
LEMMA OneBatch ==
    ASSUME partitions \in Lists, partitions # <<>>, MaxDate = NoDate
    PROVE  IsPartition(<<partitions>>)
<1> DEFINE bs == <<partitions>>
<1>1. /\ NoDate \in Range(partitions) /\ Increasing(partitions)
      /\ DOMAIN bs = {1} /\ bs[1] = partitions
  BY Dates
<1>2. UNION {Range(bs[k]) : k \in DOMAIN bs} = Range(partitions)
  BY <1>1
<1> HIDE DEF bs
<1>3. IsPartition(bs)
  BY <1>1, <1>2 DEF IsPartition
<1> QED BY <1>3 DEF bs

(* A cut at the day after the last partition is what the function promises. *)
LEMMA CutIsPartition ==
    ASSUME LoopTypes, Looping, start > MaxDate
    PROVE  IsPartition(result)
<1>1. /\ MinDate \in 1..NoDate /\ MaxDate \in 1..NoDate /\ MinDate <= MaxDate
      /\ Range(partitions) \in SUBSET (1..NoDate)
      /\ \A p \in Range(partitions) : p <= MaxDate
      /\ start \in Nat
  BY Dates DEF LoopTypes, Looping
<1>2. {p \in Range(partitions) : p < start} = Range(partitions) /\ start # MinDate
  BY <1>1
<1>3. Cut(result, start)
  BY DEF Looping
<1>4. /\ UNION {Range(result[k]) : k \in DOMAIN result} = Range(partitions)
      /\ result # <<>> /\ Range(result[1]) = FirstWindow
  BY <1>2, <1>3 DEF Cut
<1> QED BY <1>3, <1>4 DEF Cut, IsPartition

(* Every step of the two loops keeps the invariant. *)
LEMMA BatchingStep ==
    ASSUME BInv, Next
    PROVE  BInv'
<1>0. LoopTypes /\ UNCHANGED <<partitions, days>>
  BY DEF BInv, Next, Enter, NextWindow, Scan, CloseWindow, Return
<1>1. /\ MinDate' = MinDate /\ MaxDate' = MaxDate /\ FirstWindow' = FirstWindow
      /\ \A d : WindowEnd(d)' = WindowEnd(d)
      /\ \A cs, d : Cut(cs, d)' = Cut(cs, d)
      /\ \A cs : IsPartition(cs)' = IsPartition(cs)
  BY <1>0 DEF MinDate, MaxDate, FirstWindow, WindowEnd, Cut, IsPartition
<1>2. CASE Enter
  <2>1. pc = "enter" /\ result = <<>> /\ UNCHANGED <<end, next, batch>>
    BY <1>2 DEF Enter, BInv
  <2>2. CASE partitions = <<>> /\ pc' = "return" /\ UNCHANGED <<start, result>>
    <3>1. LoopTypes'
      BY <1>0, <2>1, <2>2 DEF LoopTypes
    <3>2. BatchesPartition'
      BY <1>0, <2>1, <2>2 DEF BatchesPartition, IsPartition, Range
    <3> QED BY <2>2, <3>1, <3>2 DEF BInv
  <2>3. CASE /\ partitions # <<>> /\ MaxDate = NoDate
             /\ pc' = "return" /\ result' = <<partitions>> /\ UNCHANGED start
    <3>1. partitions \in Seq(1..NoDate)
      BY <1>0 DEF LoopTypes
    <3>2. LoopTypes'
      BY <1>0, <2>1, <2>3, <3>1 DEF LoopTypes
    <3>3. BatchesPartition'
      BY <1>0, <1>1, <2>3, OneBatch DEF LoopTypes, BatchesPartition
    <3> QED BY <2>3, <3>2, <3>3 DEF BInv
  <2>4. CASE /\ partitions # <<>> /\ MaxDate # NoDate
             /\ pc' = "loop" /\ start' = MinDate /\ UNCHANGED result
    <3>1. MinDate \in 1..NoDate /\ MaxDate \in 1..NoDate /\ MinDate <= MaxDate
          /\ \A p \in Range(partitions) : p \in Int /\ MinDate <= p
      BY <1>0, <2>4, Dates DEF LoopTypes
    <3>2. LoopTypes'
      BY <1>0, <2>1, <2>4, <3>1 DEF LoopTypes
    <3>3. {p \in Range(partitions) : p < MinDate} = {}
      BY <3>1
    <3>4. DOMAIN result = {}
      BY <2>1
    <3>5. Cut(result, MinDate)
      BY <2>1, <3>3, <3>4 DEF Cut
    <3>6. Looping'
      BY <1>0, <1>1, <2>4, <3>1, <3>5 DEF Looping
    <3> QED BY <2>4, <3>2, <3>6 DEF BInv, BatchesPartition
  <2> QED BY <1>2, <2>2, <2>3, <2>4 DEF Enter
<1>3. CASE NextWindow
  <2>1. /\ pc = "loop" /\ start <= MaxDate /\ pc' = "scan" /\ end' = WindowEnd(start)
        /\ batch' = <<>> /\ next' = 1 /\ UNCHANGED <<start, result>>
    BY <1>3 DEF NextWindow
  <2>2. Looping /\ partitions # <<>>
    BY <2>1 DEF BInv, Looping
  <2>3. WindowEnd(start) \in Int
    BY <1>0, <2>1, <2>2, WindowFacts
  <2>4. LoopTypes'
    BY <1>0, <2>1, <2>3 DEF LoopTypes
  <2>5. Looping'
    BY <1>0, <1>1, <2>1, <2>2 DEF Looping
  <2>6. partitions \in Seq(1..NoDate)
    BY <1>0 DEF LoopTypes
  <2>7. Found' = {} /\ Range(batch') = {} /\ Increasing(batch') /\ Len(partitions) \in Nat
    BY <1>0, <2>1, <2>6 DEF Found, Range, Increasing
  <2>8. Scanning'
    BY <1>0, <1>1, <2>1, <2>7 DEF Scanning
  <2> QED BY <2>1, <2>4, <2>5, <2>8 DEF BInv, BatchesPartition
<1>4. CASE Scan
  <2>1. pc = "scan" /\ pc' = "scan"
    BY <1>4 DEF Scan
  <2>2. LoopTypes' /\ Scanning' /\ Looping'
    BY <1>0, <1>4, <2>1, ScanStep DEF BInv
  <2> QED BY <2>1, <2>2 DEF BInv, BatchesPartition
<1>5. CASE CloseWindow
  <2>1. /\ pc = "scan" /\ next > Len(partitions) /\ pc' = "loop" /\ start' = end + 1
        /\ result' = IF batch = <<>> THEN result ELSE Append(result, batch)
        /\ UNCHANGED <<end, next, batch>>
    BY <1>5 DEF CloseWindow
  <2>2. Looping /\ Scanning
    BY <2>1 DEF BInv
  <2>3. Cut(result', end + 1)
    BY <1>0, <2>1, <2>2, CutGrows
  <2>4. start <= end /\ end <= MaxDate /\ end \in Int /\ start \in Nat
        /\ MaxDate \in 1..NoDate /\ MinDate \in 1..NoDate /\ MinDate <= start
    BY <1>0, <2>2, WindowFacts, Dates DEF Looping, Scanning, LoopTypes
  <2>5. result' \in Seq(Seq(1..NoDate))
    BY <1>0, <2>1, AppendFacts DEF LoopTypes
  <2>6. LoopTypes'
    BY <1>0, <2>1, <2>4, <2>5 DEF LoopTypes
  <2>7. Cut(result, start)'
    BY <1>1, <2>1, <2>3
  <2>8. MinDate <= start' /\ start' <= MaxDate + 1
    BY <2>1, <2>4
  <2>9. Looping'
    BY <1>0, <1>1, <2>2, <2>7, <2>8 DEF Looping
  <2> QED BY <2>1, <2>6, <2>9 DEF BInv, BatchesPartition
<1>6. CASE Return
  <2>1. /\ pc = "loop" /\ start > MaxDate /\ pc' = "return"
        /\ UNCHANGED <<start, end, next, batch, result>>
    BY <1>6 DEF Return
  <2>2. LoopTypes'
    BY <1>0, <2>1 DEF LoopTypes
  <2>3. IsPartition(result)
    BY <1>0, <2>1, CutIsPartition DEF BInv
  <2>4. BatchesPartition'
    BY <1>1, <2>1, <2>3 DEF BatchesPartition
  <2> QED BY <2>1, <2>2, <2>4 DEF BInv
<1> QED BY <1>2, <1>3, <1>4, <1>5, <1>6 DEF Next

(* The loops' invariant, for every list and every size. *)
THEOREM BatchingInductive == Spec => []BInv
<1>1. Init => BInv
  BY DEF Init, BInv, LoopTypes, BatchesPartition
<1>2. BInv /\ [Next]_vars => BInv'
  <2>1. BInv /\ Next => BInv'
    BY BatchingStep
  <2>2. BInv /\ UNCHANGED vars => BInv'
    <3> SUFFICES ASSUME BInv, UNCHANGED vars PROVE BInv'
      OBVIOUS
    <3>1. LoopTypes' = LoopTypes /\ BatchesPartition' = BatchesPartition
      BY DEF vars, LoopTypes, BatchesPartition, IsPartition, FirstWindow, MinDate
    <3>2. Looping' = Looping
      BY DEF vars, Looping, Cut, MinDate, MaxDate, FirstWindow
    <3>3. Scanning' = Scanning
      BY DEF vars, Scanning, Found, InWindow, WindowEnd, MaxDate
    <3> QED BY <3>1, <3>2, <3>3 DEF vars, BInv
  <2> QED BY <2>1, <2>2
<1> QED BY <1>1, <1>2, PTL DEF Spec

(* groupIntoBatches returns the partitions it was given, each in one batch, in *)
(* order and within the configured number of days, whatever the list is.       *)
THEOREM BatchesArePartition == Spec => []BatchesPartition
  BY BatchingInductive, PTL DEF BInv

(* The loop of groupIntoBatches moves on by at least a day a round and stops   *)
(* the day after the last partition, for every batch_size_days, also zero and  *)
(* negative ones.                                                              *)
THEOREM LoopMovesOn == Spec => WindowsMoveOn
<1>1. BInv /\ [Next]_vars =>
         [pc = "scan" /\ pc' = "loop" => start < start' /\ start' <= MaxDate + 1]_vars
  <2> SUFFICES ASSUME BInv, Next, pc = "scan", pc' = "loop"
               PROVE  start < start' /\ start' <= MaxDate + 1
    OBVIOUS
  <2>1. start' = end + 1
    BY DEF Next, Enter, NextWindow, Scan, CloseWindow, Return
  <2>2. /\ start \in Nat /\ end \in Int /\ start <= end /\ end <= MaxDate
        /\ MaxDate \in 1..NoDate
    BY WindowFacts, Dates DEF BInv, LoopTypes, Looping, Scanning
  <2> QED BY <2>1, <2>2
<1> QED BY <1>1, BatchingInductive, PTL DEF Spec, WindowsMoveOn

-----------------------------------------------------------------------------
(***************************************************************************)
(* ClassifyChanges.                                                        *)
(***************************************************************************)

(* A set of naturals that is not empty has a least element. *)
LEMMA LeastNatural ==
    ASSUME NEW S \in SUBSET Nat, S # {}
    PROVE  \E p \in S : \A q \in S : p <= q
<1> DEFINE T == {0..p : p \in S}
           R == StrictSubsetOrdering(Nat)
<1>1. IsWellFoundedOn(R, FiniteSubsetsOf(Nat))
  BY FS_StrictSubsetOrderingWellFounded
<1>2. T \subseteq FiniteSubsetsOf(Nat) /\ T # {}
  <2>1. ASSUME NEW p \in S PROVE 0..p \in FiniteSubsetsOf(Nat)
    <3>1. 0 \in Int /\ p \in Int
      OBVIOUS
    <3>2. IsFiniteSet(0..p)
      BY <3>1, FS_Interval
    <3> QED BY <3>2 DEF FiniteSubsetsOf
  <2> QED BY <2>1
<1>3. PICK x \in T : \A y \in T : ~(<<y, x>> \in R)
  <2> HIDE DEF R, T
  <2> QED BY <1>1, <1>2, WFMin
<1>4. PICK p \in S : x = 0..p
  OBVIOUS
<1>5. ASSUME NEW q \in S, q < p PROVE FALSE
  <2>1. /\ 0..q \in T /\ 0..q \subseteq 0..p /\ 0..q # 0..p
        /\ 0..p \in SUBSET Nat /\ 0..q \in SUBSET Nat
    BY <1>5
  <2> QED BY <1>3, <1>4, <2>1 DEF StrictSubsetOrdering, FiniteSubsetsOf
<1> QED BY <1>5

(* The path of a column that encloses another is a prefix of its path. *)
LEMMA Prefixes ==
    ASSUME NEW N, NEW q \in Seq(N), NEW j \in 1..Len(q)
    PROVE  /\ SubSeq(q, 1, j) \in Seq(N) /\ Len(SubSeq(q, 1, j)) = j
           /\ \A i \in 1..j : SubSeq(SubSeq(q, 1, j), 1, i) = SubSeq(q, 1, i)
           /\ SubSeq(q, 1, Len(q)) = q
<1>1. /\ SubSeq(q, 1, j) \in Seq(N) /\ Len(SubSeq(q, 1, j)) = j
      /\ \A k \in 1..j : SubSeq(q, 1, j)[k] = q[k]
  OBVIOUS
<1>2. ASSUME NEW i \in 1..j PROVE SubSeq(SubSeq(q, 1, j), 1, i) = SubSeq(q, 1, i)
  <2>1. /\ SubSeq(q, 1, i) \in Seq(N) /\ Len(SubSeq(q, 1, i)) = i
        /\ \A k \in 1..i : SubSeq(q, 1, i)[k] = q[k]
    OBVIOUS
  <2> DEFINE p == SubSeq(q, 1, j)
  <2>2. p \in Seq(N) /\ Len(p) = j /\ \A k \in 1..j : p[k] = q[k]
    BY <1>1
  <2> HIDE DEF p
  <2>3. /\ SubSeq(p, 1, i) \in Seq(N) /\ Len(SubSeq(p, 1, i)) = i
        /\ \A k \in 1..i : SubSeq(p, 1, i)[k] = p[k]
    BY <2>2
  <2>4. SubSeq(p, 1, i) = SubSeq(q, 1, i)
    BY <2>1, <2>2, <2>3, SeqEqual
  <2> QED BY <2>4 DEF p
<1>3. SubSeq(q, 1, Len(q)) = q
  OBVIOUS
<1> QED BY <1>1, <1>2, <1>3

\* The columns' paths are sequences of names.
PathsIn(cols, N) == \A p \in PathsOf(cols) : p \in Seq(N) /\ p # <<>>

(* Where two schemas disagree on a path, they first disagree on a path that *)
(* diffFields reaches.                                                      *)
LEMMA FirstDifference ==
    ASSUME NEW old, NEW new, NEW N, NEW q \in Seq(N), NEW k \in 1..Len(q),
           ~Agree(old, new, SubSeq(q, 1, k))
    PROVE  \E i \in 1..k : /\ ~Agree(old, new, SubSeq(q, 1, i))
                           /\ Comparable(old, new, SubSeq(q, 1, i))
<1> DEFINE S == {i \in 1..k : ~Agree(old, new, SubSeq(q, 1, i))}
<1>1. S \in SUBSET Nat /\ S # {}
  OBVIOUS
<1>2. PICK i \in S : \A j \in S : i <= j
  BY <1>1, LeastNatural
<1>3. i \in 1..k /\ i \in 1..Len(q) /\ ~Agree(old, new, SubSeq(q, 1, i))
  OBVIOUS
<1>4. ASSUME NEW j \in 1..(Len(SubSeq(q, 1, i)) - 1)
      PROVE  Agree(old, new, SubSeq(SubSeq(q, 1, i), 1, j))
  <2>1. Len(SubSeq(q, 1, i)) = i
    BY <1>3, Prefixes
  <2>2. j \in 1..i /\ j \in 1..k /\ j < i
    BY <1>3, <2>1
  <2>3. SubSeq(SubSeq(q, 1, i), 1, j) = SubSeq(q, 1, j)
    BY <1>3, <2>2, Prefixes
  <2>4. j \notin S
    BY <1>2, <2>2
  <2> QED BY <2>2, <2>3, <2>4
<1> HIDE DEF S
<1> QED BY <1>3, <1>4 DEF Comparable

(* The columns that enclose a column are there and are no scalars. *)
LEMMA Enclosing ==
    ASSUME NEW cols, WellFormed(cols), NEW q \in PathsOf(cols), NEW i \in 1..(Len(q) - 1)
    PROVE  SubSeq(q, 1, i) \in PathsOf(cols) /\ TypeAt(cols, SubSeq(q, 1, i)) \notin Scalars
<1>1. PICK c \in cols : c.path = q
  BY DEF PathsOf
<1> QED BY <1>1 DEF WellFormed

(* Every changed path has its change in an exact list, with its columns. *)
LEMMA ChangeFound ==
    ASSUME NEW old, NEW new, NEW ch, ExactChanges(ch, old, new),
           NEW t, NEW p, <<t, p>> \in ChangedPaths(old, new)
    PROVE  \E i \in DOMAIN ch :
              /\ ch[i].type = t /\ ch[i].path = p
              /\ p \in PathsOf(old) => ch[i].before.type = TypeAt(old, p)
              /\ p \in PathsOf(new) => ch[i].after.type = TypeAt(new, p) /\ ch[i].after.mode = ModeAt(new, p)
<1>1. PICK i \in DOMAIN ch : <<t, p>> = <<ch[i].type, ch[i].path>>
  <2>1. <<t, p>> \in {<<ch[i].type, ch[i].path>> : i \in DOMAIN ch}
    BY DEF ExactChanges
  <2> QED BY <2>1
<1>2. ch[i].type = t /\ ch[i].path = p
  BY <1>1
<1>3. /\ ch[i].path \in PathsOf(old) => ch[i].before.type = TypeAt(old, ch[i].path)
      /\ ch[i].path \in PathsOf(new) => /\ ch[i].after.type = TypeAt(new, ch[i].path)
                                        /\ ch[i].after.mode = ModeAt(new, ch[i].path)
  BY DEF ExactChanges
<1> QED BY <1>2, <1>3

(* Every change of an exact list is at a path that has changed that way. *)
LEMMA ChangeMeans ==
    ASSUME NEW old, NEW new, NEW ch, ExactChanges(ch, old, new), NEW i \in DOMAIN ch
    PROVE  LET p == ch[i].path IN
           \/ /\ ch[i].type = "ADD" /\ p \in PathsOf(new) \ PathsOf(old)
              /\ Comparable(old, new, p) /\ ch[i].after.mode = ModeAt(new, p)
           \/ ch[i].type = "DROP" /\ p \in PathsOf(old) \ PathsOf(new)
           \/ /\ ch[i].type = "TYPE_CHANGE" /\ p \in PathsOf(old) \cap PathsOf(new)
              /\ ch[i].before.type = TypeAt(old, p) /\ ch[i].after.type = TypeAt(new, p)
              /\ TypeAt(old, p) # TypeAt(new, p)
<1> DEFINE p == ch[i].path
<1>1. <<ch[i].type, p>> \in ChangedPaths(old, new)
  BY DEF ExactChanges
<1>2. /\ p \in PathsOf(old) => ch[i].before.type = TypeAt(old, p)
      /\ p \in PathsOf(new) => ch[i].after.type = TypeAt(new, p) /\ ch[i].after.mode = ModeAt(new, p)
  BY DEF ExactChanges
<1>3. \/ ch[i].type = "ADD" /\ p \in PathsOf(new) \ PathsOf(old) /\ Comparable(old, new, p)
      \/ ch[i].type = "DROP" /\ p \in PathsOf(old) \ PathsOf(new)
      \/ /\ ch[i].type = "TYPE_CHANGE" /\ p \in PathsOf(old) \cap PathsOf(new)
         /\ TypeAt(old, p) # TypeAt(new, p)
  <2> HIDE DEF p
  <2> QED BY <1>1 DEF ChangedPaths
<1> QED BY <1>2, <1>3

(* The table of isTypeWidening has the pairs of the documented chains, all of *)
(* them and no others.                                                        *)
LEMMA WideningIsDocumented ==
    ASSUME NEW a, NEW b
    PROVE  (a \in DOMAIN Widening /\ b \in Widening[a]) <=> Wider(a, b)
<1> DEFINE c == <<"INT64", "FLOAT64", "NUMERIC", "BIGNUMERIC">>
           d == <<"DATE", "DATETIME", "TIMESTAMP">>
<1>1. Wider(a, b) <=> \/ \E i, j \in DOMAIN c : i < j /\ c[i] = a /\ c[j] = b
                      \/ \E i, j \in DOMAIN d : i < j /\ d[i] = a /\ d[j] = b
  <2>1. Chains = {c, d}
    BY DEF Chains
  <2> HIDE DEF c, d
  <2> QED BY <2>1 DEF Wider
<1>2. (\E i, j \in DOMAIN c : i < j /\ c[i] = a /\ c[j] = b)
      <=> \/ a = "INT64" /\ b \in {"FLOAT64", "NUMERIC", "BIGNUMERIC"}
          \/ a = "FLOAT64" /\ b \in {"NUMERIC", "BIGNUMERIC"}
          \/ a = "NUMERIC" /\ b = "BIGNUMERIC"
  <2>1. DOMAIN c = {1, 2, 3, 4}
    OBVIOUS
  <2>2. c[1] = "INT64" /\ c[2] = "FLOAT64" /\ c[3] = "NUMERIC" /\ c[4] = "BIGNUMERIC"
    OBVIOUS
  <2> HIDE DEF c
  <2> QED BY <2>1, <2>2
<1>3. (\E i, j \in DOMAIN d : i < j /\ d[i] = a /\ d[j] = b)
      <=> \/ a = "DATE" /\ b \in {"DATETIME", "TIMESTAMP"}
          \/ a = "DATETIME" /\ b = "TIMESTAMP"
  <2>1. DOMAIN d = {1, 2, 3}
    OBVIOUS
  <2>2. d[1] = "DATE" /\ d[2] = "DATETIME" /\ d[3] = "TIMESTAMP"
    OBVIOUS
  <2> HIDE DEF d
  <2> QED BY <2>1, <2>2
<1>4. (a \in DOMAIN Widening /\ b \in Widening[a])
      <=> \/ a = "INT64" /\ b \in {"FLOAT64", "NUMERIC", "BIGNUMERIC"}
          \/ a = "FLOAT64" /\ b \in {"NUMERIC", "BIGNUMERIC"}
          \/ a = "NUMERIC" /\ b = "BIGNUMERIC"
          \/ a = "DATE" /\ b \in {"DATETIME", "TIMESTAMP"}
          \/ a = "DATETIME" /\ b = "TIMESTAMP"
  BY DEF Widening
<1> HIDE DEF c, d
<1> QED BY <1>1, <1>2, <1>3, <1>4

(* A retyped column that encloses others, before or after, is no widening. *)
LEMMA WiderIsScalar ==
    ASSUME NEW a, NEW b, Wider(a, b)
    PROVE  a \in Scalars /\ b \in Scalars
<1>1. PICK c \in Chains : \E i, j \in DOMAIN c : i < j /\ c[i] = a /\ c[j] = b
  BY DEF Wider
<1> QED BY <1>1 DEF Scalars, Range

(* Some change is breaking exactly if the columns of old files cannot be read *)
(* any more.  One way each change is judged at its own path.  The other way,  *)
(* whatever makes them unreadable shows at the first path of disagreement: a  *)
(* column dropped there, or retyped to or from one that encloses others.      *)
LEMMA BreakingIsUnreadable ==
    ASSUME NEW old, NEW new, NEW N, NEW ch, WellFormed(old), WellFormed(new),
           PathsIn(old, N), PathsIn(new, N), ExactChanges(ch, old, new)
    PROVE  (\E i \in DOMAIN ch : IsBreaking(ch[i])) <=> ~ColumnsReadable(old, new)
<1> HIDE DEF Widening, Wider, PathsOf, TypeAt, ModeAt
<1> DEFINE Widened(p) == Wider(TypeAt(old, p), TypeAt(new, p))
<1>1. ASSUME ColumnsReadable(old, new), NEW i \in DOMAIN ch, IsBreaking(ch[i]) PROVE FALSE
  <2> DEFINE p == ch[i].path
  <2>1. CASE /\ ch[i].type = "ADD" /\ p \in PathsOf(new) \ PathsOf(old)
             /\ Comparable(old, new, p) /\ ch[i].after.mode = ModeAt(new, p)
    <3>1. ModeAt(new, p) \notin {"", "NULLABLE", "REPEATED"}
      BY <1>1, <2>1 DEF IsBreaking
    <3>2. \A j \in 1..(Len(p) - 1) : SubSeq(p, 1, j) \in PathsOf(old)
      BY <2>1 DEF Comparable, Agree
    <3> QED BY <1>1, <2>1, <3>1, <3>2 DEF ColumnsReadable
  <2>2. CASE ch[i].type = "DROP" /\ p \in PathsOf(old) \ PathsOf(new)
    BY <1>1, <2>2 DEF ColumnsReadable
  <2>3. CASE /\ ch[i].type = "TYPE_CHANGE" /\ p \in PathsOf(old) \cap PathsOf(new)
             /\ ch[i].before.type = TypeAt(old, p) /\ ch[i].after.type = TypeAt(new, p)
             /\ TypeAt(old, p) # TypeAt(new, p)
    <3>1. ~IsTypeWidening(ch[i].before, ch[i].after)
      BY <1>1, <2>3 DEF IsBreaking
    <3>2. ~Widened(p)
      BY <2>3, <3>1, WideningIsDocumented DEF IsTypeWidening
    <3> QED BY <1>1, <2>3, <3>2 DEF ColumnsReadable
  <2> QED BY <2>1, <2>2, <2>3, ChangeMeans
<1>2. ASSUME \A i \in DOMAIN ch : ~IsBreaking(ch[i]) PROVE ColumnsReadable(old, new)
  <2>1. ASSUME NEW p \in PathsOf(old) \ PathsOf(new), Comparable(old, new, p) PROVE FALSE
    <3>1. <<"DROP", p>> \in ChangedPaths(old, new)
      BY <2>1 DEF ChangedPaths
    <3>2. PICK i \in DOMAIN ch : ch[i].type = "DROP"
      BY <3>1, ChangeFound
    <3> QED BY <1>2, <3>2 DEF IsBreaking
  <2>2. ASSUME NEW p \in PathsOf(old) \cap PathsOf(new),
               Comparable(old, new, p), TypeAt(old, p) # TypeAt(new, p)
        PROVE  Widened(p)
    <3>1. <<"TYPE_CHANGE", p>> \in ChangedPaths(old, new)
      BY <2>2 DEF ChangedPaths
    <3>2. PICK i \in DOMAIN ch : /\ ch[i].type = "TYPE_CHANGE"
                                 /\ ch[i].before.type = TypeAt(old, p)
                                 /\ ch[i].after.type = TypeAt(new, p)
      BY <3>1, ChangeFound
    <3>3. IsTypeWidening(ch[i].before, ch[i].after)
      BY <1>2, <3>2 DEF IsBreaking
    <3> QED BY <3>2, <3>3, WideningIsDocumented DEF IsTypeWidening
  <2>3. ASSUME NEW p \in PathsOf(new) \ PathsOf(old), Comparable(old, new, p)
        PROVE  ModeAt(new, p) \in {"", "NULLABLE", "REPEATED"}
    <3>1. <<"ADD", p>> \in ChangedPaths(old, new)
      BY <2>3 DEF ChangedPaths
    <3>2. PICK i \in DOMAIN ch : ch[i].type = "ADD" /\ ch[i].after.mode = ModeAt(new, p)
      BY <3>1, ChangeFound
    <3> QED BY <1>2, <3>2 DEF IsBreaking
  <2>4. ASSUME NEW q \in PathsOf(old), NEW k \in 1..Len(q), ~Agree(old, new, SubSeq(q, 1, k))
        PROVE  q \in PathsOf(new) /\ Widened(q)
    <3>1. q \in Seq(N)
      BY DEF PathsIn
    <3>2. PICK i \in 1..k : /\ ~Agree(old, new, SubSeq(q, 1, i))
                            /\ Comparable(old, new, SubSeq(q, 1, i))
      BY <2>4, <3>1, FirstDifference
    <3>3. i \in 1..Len(q)
      BY <3>1
    <3>4. CASE i = Len(q)
      <4>1. SubSeq(q, 1, i) = q
        BY <3>1, <3>3, <3>4, Prefixes
      <4>2. q \in PathsOf(new)
        BY <2>1, <3>2, <4>1
      <4> QED BY <2>2, <3>2, <4>1, <4>2 DEF Agree
    <3>5. CASE i # Len(q)
      <4> DEFINE r == SubSeq(q, 1, i)
      <4>1. r \in PathsOf(old) /\ TypeAt(old, r) \notin Scalars
        BY <3>1, <3>3, <3>5, Enclosing
      <4> HIDE DEF r
      <4>2. r \in PathsOf(new)
        BY <2>1, <3>2, <4>1 DEF r
      <4>3. Widened(r)
        BY <2>2, <3>2, <4>1, <4>2 DEF r, Agree
      <4> QED BY <4>1, <4>3, WiderIsScalar
    <3> QED BY <3>4, <3>5
  <2>5. ASSUME NEW p \in PathsOf(old) PROVE Agree(old, new, p) \/ (p \in PathsOf(new) /\ Widened(p))
    <3>1. p \in Seq(N) /\ p # <<>>
      BY DEF PathsIn
    <3>2. Len(p) \in 1..Len(p) /\ SubSeq(p, 1, Len(p)) = p
      BY <3>1
    <3> QED BY <2>4, <3>2
  <2>6. ASSUME NEW p \in PathsOf(new) \ PathsOf(old),
               \A i \in 1..(Len(p) - 1) : SubSeq(p, 1, i) \in PathsOf(old)
        PROVE  ModeAt(new, p) \in {"", "NULLABLE", "REPEATED"}
    <3>1. ASSUME NEW i \in 1..(Len(p) - 1) PROVE Agree(old, new, SubSeq(p, 1, i))
      <4> DEFINE r == SubSeq(p, 1, i)
      <4>1. r \in PathsOf(new) /\ TypeAt(new, r) \notin Scalars /\ r \in PathsOf(old)
        BY <2>6, Enclosing
      <4> HIDE DEF r
      <4>2. ~Widened(r)
        BY <4>1, WiderIsScalar
      <4>3. Agree(old, new, r)
        BY <2>5, <4>1, <4>2
      <4> QED BY <4>3 DEF r
    <3>2. Comparable(old, new, p)
      BY <3>1 DEF Comparable
    <3> QED BY <2>3, <3>2
  <2>7. \A p \in PathsOf(old) \cap PathsOf(new) : TypeAt(old, p) = TypeAt(new, p) \/ Widened(p)
    BY <2>5 DEF Agree
  <2>8. PathsOf(old) \subseteq PathsOf(new)
    BY <2>5 DEF Agree
  <2>9. \A p \in PathsOf(new) \ PathsOf(old) :
          \/ ModeAt(new, p) \in {"", "NULLABLE", "REPEATED"}
          \/ \E i \in 1..(Len(p) - 1) : SubSeq(p, 1, i) \notin PathsOf(old)
    BY <2>6
  <2> QED BY <2>7, <2>8, <2>9 DEF ColumnsReadable
<1> QED BY <1>1, <1>2

(* Of the columns with a path and a type, one column has a given path. *)
LEMMA TypedPathsAt ==
    ASSUME NEW cols, WellFormed(cols), NEW p, NEW t
    PROVE  <<p, t>> \in TypedPaths(cols) <=> p \in PathsOf(cols) /\ TypeAt(cols, p) = t
<1>1. ASSUME NEW c \in cols, c.path = p PROVE TypeAt(cols, p) = c.type
  <2> DEFINE d == CHOOSE e \in cols : e.path = p
  <2>1. d \in cols /\ d.path = p
    BY <1>1
  <2> HIDE DEF d
  <2>2. d = c
    BY <1>1, <2>1 DEF WellFormed
  <2> QED BY <2>2 DEF TypeAt, d
<1>2. ASSUME <<p, t>> \in TypedPaths(cols) PROVE p \in PathsOf(cols) /\ TypeAt(cols, p) = t
  <2>1. PICK c \in cols : <<p, t>> = <<c.path, c.type>>
    BY <1>2 DEF TypedPaths
  <2>2. c.path = p /\ c.type = t
    BY <2>1
  <2> QED BY <1>1, <2>2 DEF PathsOf
<1>3. ASSUME p \in PathsOf(cols), TypeAt(cols, p) = t PROVE <<p, t>> \in TypedPaths(cols)
  <2>1. PICK c \in cols : c.path = p
    BY <1>3 DEF PathsOf
  <2>2. c.type = t
    BY <1>1, <1>3, <2>1
  <2> QED BY <2>1, <2>2 DEF TypedPaths
<1> QED BY <1>2, <1>3

(* There is a changed path exactly if the columns or their types differ: at *)
(* the first path of disagreement there is a change.                        *)
LEMMA UnchangedMeans ==
    ASSUME NEW old, NEW new, NEW N, WellFormed(old), WellFormed(new),
           PathsIn(old, N), PathsIn(new, N)
    PROVE  ChangedPaths(old, new) = {} <=> TypedPaths(old) = TypedPaths(new)
<1> HIDE DEF PathsOf, TypeAt
<1>1. ASSUME ChangedPaths(old, new) = {}, NEW q \in PathsOf(old) \cup PathsOf(new)
      PROVE  Agree(old, new, q)
  <2>1. q \in Seq(N) /\ q # <<>>
    BY DEF PathsIn
  <2>2. Len(q) \in 1..Len(q) /\ SubSeq(q, 1, Len(q)) = q
    BY <2>1
  <2> SUFFICES ASSUME ~Agree(old, new, q) PROVE FALSE
    OBVIOUS
  <2>3. PICK i \in 1..Len(q) : /\ ~Agree(old, new, SubSeq(q, 1, i))
                               /\ Comparable(old, new, SubSeq(q, 1, i))
    BY <2>1, <2>2, FirstDifference
  <2> DEFINE r == SubSeq(q, 1, i)
  <2>4. r \in PathsOf(old) \cup PathsOf(new)
    <3>1. CASE i = Len(q)
      BY <2>2, <3>1
    <3>2. CASE i # Len(q)
      <4>1. i \in 1..(Len(q) - 1)
        BY <2>1, <3>2
      <4> QED BY <4>1, Enclosing
    <3> QED BY <3>1, <3>2
  <2>5. ~Agree(old, new, r) /\ Comparable(old, new, r)
    BY <2>3
  <2> HIDE DEF r
  <2>6. \/ r \in PathsOf(new) \ PathsOf(old)
        \/ r \in PathsOf(old) \ PathsOf(new)
        \/ r \in PathsOf(old) \cap PathsOf(new) /\ TypeAt(old, r) # TypeAt(new, r)
    BY <2>4, <2>5 DEF Agree
  <2>7. \/ <<"ADD", r>> \in ChangedPaths(old, new)
        \/ <<"DROP", r>> \in ChangedPaths(old, new)
        \/ <<"TYPE_CHANGE", r>> \in ChangedPaths(old, new)
    BY <2>5, <2>6 DEF ChangedPaths
  <2> QED BY <1>1, <2>7
<1>2. ASSUME ChangedPaths(old, new) = {} PROVE TypedPaths(old) = TypedPaths(new)
  <2>1. ASSUME NEW p, NEW t PROVE <<p, t>> \in TypedPaths(old) <=> <<p, t>> \in TypedPaths(new)
    BY <1>1, <1>2, TypedPathsAt DEF Agree
  <2>2. ASSUME NEW x \in TypedPaths(old) PROVE x \in TypedPaths(new)
    <3>1. PICK c \in old : x = <<c.path, c.type>>
      BY DEF TypedPaths
    <3> QED BY <2>1, <3>1
  <2>3. ASSUME NEW x \in TypedPaths(new) PROVE x \in TypedPaths(old)
    <3>1. PICK c \in new : x = <<c.path, c.type>>
      BY DEF TypedPaths
    <3> QED BY <2>1, <3>1
  <2> QED BY <2>2, <2>3
<1>3. ASSUME TypedPaths(old) = TypedPaths(new) PROVE ChangedPaths(old, new) = {}
  <2>1. ASSUME NEW p \in PathsOf(old) PROVE p \in PathsOf(new) /\ TypeAt(new, p) = TypeAt(old, p)
    BY <1>3, TypedPathsAt
  <2>2. ASSUME NEW p \in PathsOf(new) PROVE p \in PathsOf(old)
    BY <1>3, TypedPathsAt
  <2> QED BY <2>1, <2>2 DEF ChangedPaths
<1> QED BY <1>2, <1>3

(* ClassifyChanges is sound, for schemas of any width and nesting, in what the *)
(* changes tell it: given the changes between two of them, it says BREAKING    *)
(* exactly if a column of the old one is gone, has a type that the documented  *)
(* chains do not make wider, or a REQUIRED column is new in a column the old   *)
(* one has, and NONE exactly if the columns and their types are the same.  It  *)
(* claims nothing of a mode that changes on a column both have: diffFields     *)
(* reports no such change, so that NONE and ADDITIVE do not mean that lists    *)
(* are still lists (ListsKept).                                                *)
THEOREM ClassificationSound ==
    ASSUME NEW old, NEW new, NEW N, NEW C, NEW ch \in Seq(C),
           WellFormed(old), WellFormed(new), PathsIn(old, N), PathsIn(new, N),
           ExactChanges(ch, old, new)
    PROVE  SoundlyClassified(ClassifyChanges(ch), old, new)
<1>1. (\E i \in DOMAIN ch : IsBreaking(ch[i])) <=> ~ColumnsReadable(old, new)
  BY BreakingIsUnreadable
<1>2. {<<ch[i].type, ch[i].path>> : i \in DOMAIN ch} = ChangedPaths(old, new)
  BY DEF ExactChanges
<1>3. ch = <<>> <=> DOMAIN ch = {}
  OBVIOUS
<1>4. ch = <<>> <=> TypedPaths(old) = TypedPaths(new)
  <2>1. ch = <<>> <=> ChangedPaths(old, new) = {}
    BY <1>2, <1>3
  <2> QED BY <2>1, UnchangedMeans
<1>5. CASE ch = <<>>
  <2>1. ClassifyChanges(ch) = "NONE"
    BY <1>5 DEF ClassifyChanges
  <2>2. ColumnsReadable(old, new)
    BY <1>1, <1>3, <1>5
  <2> QED BY <1>4, <1>5, <2>1, <2>2 DEF SoundlyClassified
<1>6. CASE ch # <<>>
  <2>1. ClassifyChanges(ch) = IF \E i \in DOMAIN ch : IsBreaking(ch[i]) THEN "BREAKING" ELSE "ADDITIVE"
    BY <1>6 DEF ClassifyChanges
  <2> QED BY <1>1, <1>4, <1>6, <2>1 DEF SoundlyClassified
<1> QED BY <1>5, <1>6
=============================================================================
