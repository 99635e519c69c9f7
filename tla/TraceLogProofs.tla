--------------------------- MODULE TraceLogProofs ---------------------------
(***************************************************************************)
(* Proofs about TraceLog, for every set of threads, size of the buffer and *)
(* of the files, number of files and length of the lines.                  *)
(***************************************************************************)
EXTENDS TraceLog, SequenceTheorems, FiniteSetTheorems, TLAPS

USE ThreadsAssumption, SizesAssumption, BoundAssumption

(* The sizes, one by one.                                                  *)
LEMMA SizesAre ==
  /\ BufSize \in Nat /\ BufSize > 1 /\ FileSize \in Nat /\ FileSize > 0
  /\ NumFiles \in Nat /\ NumFiles > 1 /\ LineLen \in Nat /\ LineLen > 0
OBVIOUS

Index == 0 .. BufSize - 1

(* The types of the ring and of the log.                                   *)
LEMMA TypesAre ==
  ASSUME TypeOK
  PROVE  /\ head \in Index /\ tail \in Index /\ buf \in [Index -> Nat]
         /\ put \in Nat /\ log \in Seq(Nat) /\ Len(log) \in Nat
<1>1. head \in Index /\ tail \in Index /\ buf \in [Index -> Nat]
  BY DEF TypeOK, Index
<1>2. put \in Nat /\ log \in Seq(Nat)
  BY DEF TypeOK
<1> QED BY <1>1, <1>2, LenProperties

(* A sequence is the function that lists its elements.                     *)
LEMMA SeqIsFunction ==
  ASSUME NEW s \in Seq(Nat)
  PROVE  DOMAIN s = 1 .. Len(s) /\ s = [i \in 1 .. Len(s) |-> s[i]]
<1>1. DOMAIN s = 1 .. Len(s) /\ s \in [1 .. Len(s) -> Nat]
  BY LenProperties, ElementOfSeq
<1> QED BY <1>1

(* The head steps to the next place and wraps after the last.              *)
LEMMA NextHeadIs ==
  ASSUME head \in Index
  PROVE  NextHead = (IF head = BufSize - 1 THEN 0 ELSE head + 1) /\ NextHead \in Index
BY DEF NextHead, Index

(* The characters between the tail and the head, in the order in which     *)
(* they will be written.                                                   *)
LEMMA CharsAre ==
  ASSUME buf \in [Index -> Nat], NEW from \in 0 .. BufSize, NEW to \in 0 .. BufSize, from <= to
  PROVE  /\ Chars(from, to) \in Seq(Nat)
         /\ Len(Chars(from, to)) = to - from
         /\ \A k \in 1 .. to - from : Chars(from, to)[k] = buf[from + k - 1]
<1>1. to - from \in Nat
  OBVIOUS
<1>2. \A k \in 1 .. to - from : from + k - 1 \in Index /\ buf[from + k - 1] \in Nat
  BY DEF Index
<1> QED BY <1>1, <1>2 DEF Chars

(* All that waits in the buffer, from the tail on and around its end.      *)
LEMMA UnsavedIs ==
  ASSUME TypeOK
  PROVE  /\ Unsaved \in Seq(Nat)
         /\ Len(Unsaved) = IF head > tail THEN head - tail ELSE BufSize - tail + head
         /\ \A k \in 1 .. Len(Unsaved) :
              Unsaved[k] = buf[IF tail + k - 1 < BufSize THEN tail + k - 1 ELSE tail + k - 1 - BufSize]
<1>1. head \in Index /\ tail \in Index /\ buf \in [Index -> Nat]
  BY DEF TypeOK, Index
<1>2. CASE head > tail
  <2>1. Unsaved = Chars(tail, head)
    BY <1>2 DEF Unsaved
  <2>2. /\ Chars(tail, head) \in Seq(Nat) /\ Len(Chars(tail, head)) = head - tail
        /\ \A k \in 1 .. head - tail : Chars(tail, head)[k] = buf[tail + k - 1]
    <3>1. tail \in 0 .. BufSize /\ head \in 0 .. BufSize /\ tail <= head
      BY <1>1, <1>2 DEF Index
    <3> QED BY <1>1, <3>1, CharsAre
  <2>3. \A k \in 1 .. head - tail : tail + k - 1 < BufSize
    BY <1>1 DEF Index
  <2> QED BY <1>2, <2>1, <2>2, <2>3
<1>3. CASE ~(head > tail)
  <2> DEFINE a == Chars(tail, BufSize)
             b == Chars(0, head)
  <2>1. Unsaved = a \o b
    BY <1>3 DEF Unsaved
  <2>2. /\ a \in Seq(Nat) /\ Len(a) = BufSize - tail
        /\ \A k \in 1 .. BufSize - tail : a[k] = buf[tail + k - 1]
    <3>1. tail \in 0 .. BufSize /\ BufSize \in 0 .. BufSize /\ tail <= BufSize
      BY <1>1 DEF Index
    <3> QED BY <1>1, <3>1, CharsAre
  <2>3. /\ b \in Seq(Nat) /\ Len(b) = head
        /\ \A k \in 1 .. head : b[k] = buf[k - 1]
    <3>1. 0 <= head /\ head \in 0 .. BufSize /\ head - 0 = head
      BY <1>1 DEF Index
    <3>2. \A k \in 1 .. head : 0 + k - 1 = k - 1
      BY <3>1
    <3> QED BY <1>1, <3>1, <3>2, CharsAre
  <2> HIDE DEF a, b
  <2>4. a \o b \in Seq(Nat) /\ Len(a \o b) = BufSize - tail + head
    BY <1>1, <2>2, <2>3 DEF Index
  <2>5. ASSUME NEW k \in 1 .. BufSize - tail + head
        PROVE  (a \o b)[k] = buf[IF tail + k - 1 < BufSize THEN tail + k - 1 ELSE tail + k - 1 - BufSize]
    <3>1. CASE k <= BufSize - tail
      <4>1. (a \o b)[k] = a[k] /\ k \in 1 .. BufSize - tail
        BY <1>1, <2>2, <2>3, <3>1 DEF Index
      <4> QED BY <1>1, <2>2, <4>1 DEF Index
    <3>2. CASE k > BufSize - tail
      <4> DEFINE n == BufSize - tail
      <4>0. n \in Nat /\ k \in n + 1 .. n + head /\ Len(a) = n /\ head \in Nat
        BY <1>1, <2>2, <3>2 DEF Index
      <4>1. (a \o b)[k] = b[k - n] /\ k - n \in 1 .. head
        <5> HIDE DEF n
        <5>1. k \in 1 .. Len(a) + Len(b) /\ ~(k <= Len(a)) /\ k - n \in 1 .. head
          BY <2>3, <4>0
        <5>2. (a \o b)[k] = b[k - Len(a)]
          BY <2>2, <2>3, <5>1, ConcatProperties
        <5> QED BY <4>0, <5>1, <5>2
      <4>2. b[k - (BufSize - tail)] = buf[k - (BufSize - tail) - 1]
        BY <2>3, <4>1
      <4>3. k - (BufSize - tail) - 1 = tail + k - 1 - BufSize /\ ~(tail + k - 1 < BufSize)
        BY <1>1, <3>2 DEF Index
      <4> QED BY <4>1, <4>2, <4>3
    <3>3. k <= BufSize - tail \/ k > BufSize - tail
      BY <1>1 DEF Index
    <3> QED BY <3>1, <3>2, <3>3
  <2> QED BY <1>3, <2>1, <2>4, <2>5
<1> QED BY <1>2, <1>3

-----------------------------------------------------------------------------
(* What waits in the buffer, and what printing and writing do to it.       *)
Count == put - Len(log)

(* A character that is stored where nothing waits keeps the log gapless,   *)
(* and one that is overwritten is noted.                                   *)
LEMMA StoredKeeps ==
  ASSUME TypeOK, LogGapless, NEW t \in Threads, Stored(t), UNCHANGED <<log, tail>>
  PROVE  /\ lost' = (lost \/ Count >= BufSize)
         /\ Count' = Count + 1
         /\ ~lost' => /\ log' = [i \in 1 .. Len(log)' |-> i]
                      /\ Count' \in (IF head' = tail' THEN {0, BufSize} ELSE {Offset(head)'})
                      /\ \A i \in Index : Offset(i)' < Count' => buf'[i] = Len(log)' + Offset(i)' + 1
<1>1. /\ head \in Index /\ tail \in Index /\ buf \in [Index -> Nat]
      /\ put \in Nat /\ Len(log) \in Nat
  BY TypesAre
<1>2. /\ buf' = [buf EXCEPT ![head] = put + 1] /\ put' = put + 1
      /\ head' = IF head = BufSize - 1 THEN 0 ELSE head + 1
      /\ tail' = tail /\ log' = log
  BY <1>1, NextHeadIs DEF Stored
<1>3. lost' = (lost \/ Count >= BufSize)
  BY DEF Stored, Count
<1>4. Count' = Count + 1
  BY <1>1, <1>2 DEF Count
<1>5. ASSUME ~lost' PROVE /\ log' = [i \in 1 .. Len(log)' |-> i]
                          /\ Count' \in (IF head' = tail' THEN {0, BufSize} ELSE {Offset(head)'})
                          /\ \A i \in Index : Offset(i)' < Count' => buf'[i] = Len(log)' + Offset(i)' + 1
  <2>1. /\ log = [i \in 1 .. Len(log) |-> i]
        /\ Count \in (IF head = tail THEN {0, BufSize} ELSE {Offset(head)})
        /\ \A i \in Index : Offset(i) < Count => buf[i] = Len(log) + Offset(i) + 1
        /\ ~(Count >= BufSize)
    BY <1>3, <1>5 DEF LogGapless, Count, Index
  <2>2. Count = Offset(head) /\ Count \in Int
    <3>1. head = tail => Offset(head) = 0
      BY <1>1 DEF Offset, Index
    <3>2. Count \in Int
      BY <1>1 DEF Count
    <3> QED BY <2>1, <3>1, <3>2
  <2>3. \A i \in Index : Offset(i)' = Offset(i) /\ Offset(i) \in Index
    BY <1>1, <1>2 DEF Offset, Index
  <2>4. Count' \in (IF head' = tail' THEN {0, BufSize} ELSE {Offset(head)'})
    BY <1>1, <1>2, <1>4, <2>2 DEF Offset, Index
  <2>5. ASSUME NEW i \in Index, Offset(i)' < Count' PROVE buf'[i] = Len(log)' + Offset(i)' + 1
    <3>1. CASE i = head
      <4>1. buf'[i] = put + 1
        BY <1>1, <1>2, <3>1
      <4>2. Offset(i)' = put - Len(log)
        BY <1>1, <2>2, <2>3, <3>1 DEF Count
      <4> QED BY <1>1, <1>2, <4>1, <4>2
    <3>2. CASE i # head
      <4>1. buf'[i] = buf[i]
        BY <1>1, <1>2, <3>2
      <4>2. Offset(i) # Offset(head)
        BY <1>1, <3>2 DEF Offset, Index
      <4>3. Offset(i) < Count
        BY <1>4, <2>2, <2>3, <2>5, <4>2 DEF Index
      <4> QED BY <1>2, <2>1, <2>3, <4>1, <4>3
    <3> QED BY <3>1, <3>2
  <2> QED BY <1>2, <2>1, <2>4, <2>5
<1> QED BY <1>3, <1>4, <1>5

(* What is written is what waits, in order.                                *)
LEMMA WriteKeeps ==
  ASSUME TypeOK, LogGapless, ~lost, Count >= 1,
         log' = log \o Unsaved, tail' = head, UNCHANGED <<buf, head, put, lost>>
  PROVE  LogGapless' /\ Count' = 0
<1>1. /\ head \in Index /\ tail \in Index /\ buf \in [Index -> Nat]
      /\ put \in Nat /\ log \in Seq(Nat) /\ Len(log) \in Nat
  BY TypesAre
<1>2. /\ log = [i \in 1 .. Len(log) |-> i]
      /\ Count \in (IF head = tail THEN {0, BufSize} ELSE {Offset(head)})
      /\ \A i \in Index : Offset(i) < Count => buf[i] = Len(log) + Offset(i) + 1
  BY DEF LogGapless, Count, Index
<1>3. /\ Unsaved \in Seq(Nat)
      /\ Len(Unsaved) = IF head > tail THEN head - tail ELSE BufSize - tail + head
      /\ \A k \in 1 .. Len(Unsaved) :
           Unsaved[k] = buf[IF tail + k - 1 < BufSize THEN tail + k - 1 ELSE tail + k - 1 - BufSize]
  BY UnsavedIs
<1>4. Len(Unsaved) = Count
  <2>1. CASE head = tail
    <3>1. Count = BufSize
      BY <1>2, <2>1
    <3> QED BY <1>1, <1>3, <2>1, <3>1 DEF Index
  <2>2. CASE head # tail
    <3>1. Len(Unsaved) = Offset(head)
      BY <1>1, <1>3, <2>2 DEF Offset, Index
    <3> QED BY <1>2, <2>2, <3>1
  <2> QED BY <2>1, <2>2
<1>5. Count \in 1 .. BufSize
  BY <1>1, <1>3, <1>4 DEF Index
<1>6. ASSUME NEW k \in 1 .. Count PROVE Unsaved[k] = Len(log) + k
  <2> DEFINE i == IF tail + k - 1 < BufSize THEN tail + k - 1 ELSE tail + k - 1 - BufSize
  <2>1. i \in Index /\ Offset(i) = k - 1
    BY <1>1, <1>5 DEF Offset, Index
  <2>2. Unsaved[k] = buf[i]
    BY <1>3, <1>4
  <2>3. buf[i] = Len(log) + (k - 1) + 1
    <3> HIDE DEF i
    <3>1. Offset(i) < Count
      BY <1>5, <2>1
    <3> QED BY <1>2, <2>1, <3>1
  <2> QED BY <1>1, <1>5, <2>2, <2>3
<1>7. log' \in Seq(Nat) /\ Len(log') = put
  BY <1>1, <1>3, <1>4, ConcatProperties DEF Count
<1>8. log' = [i \in 1 .. Len(log') |-> i]
  <2>1. ASSUME NEW i \in 1 .. put PROVE log'[i] = i
    <3>1. i \in 1 .. Len(log) + Len(Unsaved)
      BY <1>1, <1>4 DEF Count
    <3>2. log'[i] = IF i <= Len(log) THEN log[i] ELSE Unsaved[i - Len(log)]
      BY <1>1, <1>3, <3>1, ConcatProperties
    <3>3. CASE i <= Len(log)
      BY <1>1, <1>2, <3>2, <3>3
    <3>4. CASE ~(i <= Len(log))
      <4>1. i - Len(log) \in 1 .. Count
        BY <1>1, <3>4 DEF Count
      <4> QED BY <1>1, <1>6, <3>2, <3>4, <4>1
    <3> QED BY <3>3, <3>4
  <2>2. log' = [i \in 1 .. put |-> log'[i]]
    <3> DEFINE l == log'
    <3>1. l \in Seq(Nat) /\ Len(l) = put
      BY <1>7
    <3> HIDE DEF l
    <3>2. l = [i \in 1 .. put |-> l[i]]
      BY <3>1, SeqIsFunction
    <3> QED BY <3>2 DEF l
  <2> QED BY <1>7, <2>1, <2>2
<1>9. Count' = 0
  BY <1>1, <1>7 DEF Count
<1>11. (~lost)' /\ (lost => full)'
  OBVIOUS
<1>12. (put - Len(log))' = 0 /\ head' = tail'
  BY <1>9 DEF Count
<1>13. (\A i \in 0 .. BufSize - 1 :
          Offset(i) < put - Len(log) => buf[i] = Len(log) + Offset(i) + 1)'
  <2>1. \A i \in Index : ~(Offset(i)' < 0)
    BY <1>1 DEF Offset, Index
  <2> QED BY <1>12, <2>1 DEF Index
<1> QED BY <1>8, <1>9, <1>11, <1>12, <1>13 DEF LogGapless

-----------------------------------------------------------------------------
(* The inductive invariant: one thread at a time is in its line, it has    *)
(* characters left where it puts one, and it flushes only what is there.   *)
InLine == {"put", "put_flushed", "flush", "flush_locked", "write", "unlock"}

Flushing == {"flush", "flush_locked", "write"}

Control(t) ==
  /\ pc[t] \in InLine => trace = t
  /\ pc[t] \in {"put", "put_flushed"} => left[t] >= 1
  /\ pc[t] \in Flushing => /\ after[t] # "unlock" => left[t] >= 1
                           /\ lost \/ Count >= 1
  /\ pc[t] = "put_flushed" => full \/ Count = 0

NotFull == ~full => Count < BufSize

Gapless == TypeOK /\ (\A t \in Threads : Control(t)) /\ NotFull /\ LogGapless

(* The buffer is empty to begin with.                                      *)
LEMMA InitGapless == Init => Gapless
<1> SUFFICES ASSUME Init PROVE Gapless
  OBVIOUS
<1>1. Len(<<>>) = 0 /\ <<>> \in Seq(Nat) /\ <<>> = [i \in 1 .. 0 |-> i]
  OBVIOUS
<1>2. TypeOK
  <2>1. /\ 0 \in 0 .. LineLen /\ 0 \in Index /\ 0 \in Nat
        /\ LineLen \in Nat
    BY DEF Index
  <2>2. log \in Seq(Nat)
    BY <1>1 DEF Init
  <2>3. /\ pc \in [Threads -> {"idle"}] /\ left \in [Threads -> 0 .. LineLen]
        /\ after \in [Threads -> {"put", "put_flushed", "unlock"}] /\ inRotate \in [Threads -> BOOLEAN]
    BY <2>1 DEF Init
  <2>4. /\ buf \in [0 .. BufSize - 1 -> Nat] /\ {head, tail} \subseteq 0 .. BufSize - 1
        /\ put \in Nat
    BY <2>1 DEF Init, Index
  <2>5. size \in Nat \cup {NoFile} /\ rotated \in [1 .. NumFiles - 1 -> Nat \cup {NoFile}]
    BY DEF Init
  <2>6. {open, full, lost, raced, failed} \subseteq BOOLEAN
    BY DEF Init
  <2>7. trace \in Threads \cup {NoThread} /\ mutex \in Threads \cup {NoThread}
    BY DEF Init
  <2> QED BY <2>2, <2>3, <2>4, <2>5, <2>6, <2>7 DEF TypeOK, Rotating
<1>0. log = <<>> /\ put = 0 /\ head = 0 /\ tail = 0 /\ lost = FALSE
  BY DEF Init
<1>3. Count = 0
  <2>1. Count = put - Len(log)
    BY DEF Count
  <2>2. Count = 0 - Len(<<>>)
    BY <1>0, <2>1
  <2>3. \A n : n = 0 => 0 - n = 0
    OBVIOUS
  <2> HIDE DEF Count
  <2> QED BY <1>1, <2>2, <2>3
<1>4. LogGapless
  <2>1. \A i \in 0 .. BufSize - 1 : ~(Offset(i) < 0)
    BY <1>0 DEF Offset
  <2>2. put - Len(log) = 0 /\ head = tail
    BY <1>0, <1>3 DEF Count
  <2>3. log = [i \in 1 .. Len(log) |-> i]
    BY <1>0, <1>1
  <2> QED BY <1>0, <2>1, <2>2, <2>3 DEF LogGapless
<1> QED BY <1>2, <1>3, <1>4 DEF Init, Gapless, Control, NotFull, InLine, Flushing

(* A step keeps the types: the counters stay in their ranges.              *)
LEMMA TypeStep ==
  ASSUME TypeOK, NEW t \in Threads, Control(t), Thread(t)
  PROVE  TypeOK'
<1>a. /\ head \in Index /\ put \in Nat /\ put + 1 \in Nat
      /\ LineLen \in 0 .. LineLen
      /\ \A i \in 1 .. NumFiles - 1 : i # 1 => i - 1 \in 1 .. NumFiles - 1
  BY TypesAre, SizesAre
<1>b. Len(Unsaved) \in Nat /\ Len(Unsaved) >= 1
  BY UnsavedIs, TypesAre, SizesAre DEF Index
<1>c. pc[t] \in {"put", "put_flushed"} => left[t] \in 0 .. LineLen /\ left[t] - 1 \in 0 .. LineLen
  <2>1. left[t] \in 0 .. LineLen
    BY DEF TypeOK
  <2>2. pc[t] \in {"put", "put_flushed"} => left[t] >= 1
    BY DEF Control
  <2>3. \A n \in 0 .. LineLen : n >= 1 => n - 1 \in 0 .. LineLen
    BY SizesAre
  <2> QED BY <2>1, <2>2, <2>3
<1>d. Stored(t) => head' \in 0 .. BufSize - 1
  BY <1>a, NextHeadIs DEF Stored, Index
<1> USE DEF TypeOK, Goto, NoFile, control, ring, file, history
<1>1. CASE TracePrintf(t)
  BY <1>1 DEF TracePrintf
<1>2. CASE LockTrace(t)
  <2>2. left' \in [Threads -> 0 .. LineLen]
    BY <1>2, <1>a DEF LockTrace
  <2> QED BY <1>2, <2>2 DEF LockTrace
<1>3. CASE PutChar(t)
  <2>1. pc[t] \in {"put", "put_flushed"} /\ Stored(t)
    BY <1>3 DEF PutChar
  <2>4. /\ buf' \in [0 .. BufSize - 1 -> Nat] /\ put' \in Nat /\ lost' \in BOOLEAN
        /\ left' \in [Threads -> 0 .. LineLen]
    BY <1>a, <1>c, <2>1 DEF Stored, Index
  <2>5. pc' \in [Threads -> {"idle", "print", "put", "put_flushed", "flush", "flush_locked", "write",
                             "unlock", "size"} \cup Rotating]
        /\ after' \in [Threads -> {"put", "put_flushed", "unlock"}]
    BY <1>3 DEF PutChar
  <2> QED BY <1>3, <1>d, <2>1, <2>4, <2>5 DEF PutChar
<1>4. CASE PutFull(t)
  BY <1>4 DEF PutFull
<1>5. CASE Flush(t)
  BY <1>5 DEF Flush
<1>6. CASE LockFlush(t)
  BY <1>6 DEF LockFlush
<1>7. CASE Write(t)
  <2>1. log' \in Seq(Nat)
    <3>1. log \in Seq(Nat) /\ Unsaved \in Seq(Nat)
      BY UnsavedIs
    <3> QED BY <1>7, <3>1, ConcatProperties DEF Write
  <2>2. size' \in Nat
    <3>2. size' = size + Len(Unsaved) /\ (size \in Nat \/ size = -1)
      BY <1>7 DEF Write
    <3> HIDE DEF TypeOK
    <3> QED BY <1>b, <3>2
  <2>3. tail' \in 0 .. BufSize - 1
    BY <1>7 DEF Write
  <2>4. pc' \in [Threads -> {"idle", "print", "put", "put_flushed", "flush", "flush_locked", "write",
                             "unlock", "size"} \cup Rotating]
    BY <1>7 DEF Write
  <2> QED BY <1>7, <2>1, <2>2, <2>3, <2>4 DEF Write
<1>8. CASE WriteFails(t)
  BY <1>8 DEF WriteFails
<1>9. CASE UnlockTrace(t)
  BY <1>9 DEF UnlockTrace
<1>10. CASE Size(t)
  BY <1>10 DEF Size, TooLarge, Rotating
<1>11. CASE LockRotate(t)
  BY <1>11 DEF LockRotate, Rotating
<1>12. CASE CloseFile(t)
  BY <1>12 DEF CloseFile, Rotating
<1>13. CASE OpenFile(t)
  <2>1. rotated' \in [1 .. NumFiles - 1 -> Nat \cup {NoFile}]
    <3> QED BY <1>13, <1>a DEF OpenFile
  <2>2. /\ size' \in Nat \cup {NoFile} /\ inRotate' \in [Threads -> BOOLEAN]
        /\ open' \in BOOLEAN /\ failed' \in BOOLEAN
    <3>1. CASE open' = TRUE /\ size' = 0 /\ UNCHANGED <<inRotate, failed>>
      BY <3>1
    <3>2. CASE /\ open' = FALSE /\ size' = NoFile /\ failed' = TRUE
               /\ inRotate' = [inRotate EXCEPT ![t] = TRUE]
      BY <3>2
    <3> QED BY <1>13, <3>1, <3>2 DEF OpenFile
  <2>3. pc' \in [Threads -> {"idle", "print", "put", "put_flushed", "flush", "flush_locked", "write",
                             "unlock", "size"} \cup Rotating]
    BY <1>13 DEF OpenFile, Rotating
  <2> QED BY <1>13, <2>1, <2>2, <2>3 DEF OpenFile
<1>14. CASE UnlockRotate(t)
  BY <1>14 DEF UnlockRotate
<1> QED BY <1>1, <1>2, <1>3, <1>4, <1>5, <1>6, <1>7, <1>8, <1>9, <1>10, <1>11, <1>12, <1>13, <1>14 DEF Thread

-----------------------------------------------------------------------------
(* What leaves the ring alone keeps what is said of it.                    *)
LEMMA RingUntouched ==
  ASSUME LogGapless, NotFull, UNCHANGED <<buf, head, tail, log, put, lost>>, full => full'
  PROVE  LogGapless' /\ NotFull' /\ Count' = Count
<1>1. Count' = Count
  BY DEF Count
<1>2. NotFull'
  BY <1>1 DEF NotFull
<1>3. lost' => full'
  BY DEF LogGapless
<1>4. \A i \in 0 .. BufSize - 1 : Offset(i)' = Offset(i)
  BY DEF Offset
<1>5. Offset(head)' = Offset(head)
  BY DEF Offset
<1> QED BY <1>2, <1>1, <1>3, <1>4, <1>5 DEF LogGapless

(* A character is put where there is room, or else full is set.            *)
LEMMA PutCharRing ==
  ASSUME Gapless, NEW t \in Threads, PutChar(t)
  PROVE  LogGapless' /\ NotFull' /\ Count' = Count + 1
<1>0. /\ TypeOK /\ LogGapless /\ NotFull /\ Control(t)
      /\ Stored(t) /\ UNCHANGED <<log, tail, full>>
  BY DEF Gapless, PutChar, file
<1>1. /\ lost' = (lost \/ Count >= BufSize)
      /\ Count' = Count + 1
      /\ ~lost' => /\ log' = [i \in 1 .. Len(log)' |-> i]
                   /\ Count' \in (IF head' = tail' THEN {0, BufSize} ELSE {Offset(head)'})
                   /\ \A i \in Index : Offset(i)' < Count' => buf'[i] = Len(log)' + Offset(i)' + 1
  BY <1>0, StoredKeeps
<1>2. lost' => full'
  <2>1. Count \in Int /\ BufSize \in Int
    BY <1>0, TypesAre, SizesAre DEF Count
  <2>2. lost => full
    BY <1>0 DEF LogGapless
  <2>3. Count >= BufSize => full
    <3>1. ~full => Count < BufSize
      BY <1>0 DEF NotFull
    <3>2. Count < BufSize => ~(Count >= BufSize)
      BY <2>1
    <3> QED BY <3>1, <3>2
  <2> QED BY <1>0, <1>1, <2>2, <2>3
<1>3. LogGapless'
  BY <1>1, <1>2 DEF LogGapless, Count, Index
<1>4. ASSUME ~full PROVE Count + 1 < BufSize
  <2>1. Count < BufSize /\ ~lost
    BY <1>0, <1>4 DEF NotFull, LogGapless
  <2>2. CASE pc[t] = "put_flushed"
    <3>1. Count = 0
      BY <1>0, <1>4, <2>2 DEF Control
    <3> QED BY <3>1, SizesAre
  <2>3. CASE NextHead # tail
    <3>1. head \in Index /\ tail \in Index
      BY <1>0, TypesAre
    <3>2. Count \in (IF head = tail THEN {0, BufSize} ELSE {Offset(head)})
      BY <1>0, <2>1 DEF LogGapless, Count
    <3>3. (IF head = BufSize - 1 THEN 0 ELSE head + 1) # tail
      BY <2>3, <3>1, NextHeadIs
    <3>4. CASE head = tail
      BY <2>1, <3>2, <3>4, SizesAre
    <3>5. CASE head # tail
      <4>1. Offset(head) + 1 < BufSize
        BY <3>1, <3>3, <3>5, SizesAre DEF Offset, Index
      <4> QED BY <3>2, <3>5, <4>1
    <3> QED BY <3>4, <3>5
  <2> QED BY <2>2, <2>3 DEF PutChar
<1>5. NotFull'
  BY <1>0, <1>1, <1>4 DEF NotFull
<1> QED BY <1>1, <1>3, <1>5

(* After a write nothing waits in the buffer.                              *)
LEMMA WriteRing ==
  ASSUME Gapless, NEW t \in Threads, Write(t)
  PROVE  LogGapless' /\ NotFull' /\ (full' \/ Count' = 0)
<1>0. /\ TypeOK /\ LogGapless /\ NotFull /\ Control(t) /\ pc[t] = "write"
      /\ log' = log \o Unsaved /\ tail' = head /\ UNCHANGED <<buf, head, put, full, lost>>
  BY DEF Gapless, Write
<1>1. CASE lost
  <2>1. lost' /\ full'
    BY <1>0, <1>1 DEF LogGapless
  <2> QED BY <2>1 DEF LogGapless, NotFull
<1>2. CASE ~lost
  <2>1. Count >= 1
    BY <1>0, <1>2 DEF Control, Flushing
  <2>2. LogGapless' /\ Count' = 0
    BY <1>0, <1>2, <2>1, WriteKeeps
  <2>3. NotFull'
    BY <2>2, SizesAre DEF NotFull
  <2> QED BY <2>2, <2>3
<1> QED BY <1>1, <1>2

(* Flushing starts with something to write.                                *)
LEMMA PutFullCount ==
  ASSUME Gapless, ~lost, head \in Index, NextHead = tail
  PROVE  Count >= 1
<1>1. /\ head \in Index /\ tail \in Index
      /\ Count \in (IF head = tail THEN {0, BufSize} ELSE {Offset(head)})
  BY TypesAre DEF Gapless, LogGapless, Count
<1>2. tail = IF head = BufSize - 1 THEN 0 ELSE head + 1
  BY <1>1, NextHeadIs
<1>3. head # tail
  BY <1>1, <1>2, SizesAre DEF Index
<1>4. Offset(head) >= 1
  BY <1>1, <1>2, <1>3, SizesAre DEF Offset, Index
<1> QED BY <1>1, <1>3, <1>4

(* A thread's step leaves the others in control of where they are.         *)
LEMMA ControlOthers ==
  ASSUME Gapless, NEW t \in Threads, Thread(t), NEW u \in Threads, u # t
  PROVE  Control(u)'
<1>0. /\ Control(u) /\ Control(t) /\ NoThread \notin Threads
      /\ pc \in [Threads -> {"idle", "print", "put", "put_flushed", "flush", "flush_locked", "write",
                              "unlock", "size"} \cup Rotating]
      /\ left \in [Threads -> 0 .. LineLen]
      /\ after \in [Threads -> {"put", "put_flushed", "unlock"}]
  BY DEF Gapless, TypeOK
<1>1. pc'[u] = pc[u] /\ left'[u] = left[u] /\ after'[u] = after[u]
  <2> USE DEF Goto
  <2>1. CASE TracePrintf(t) \/ LockTrace(t) \/ PutFull(t) \/ Flush(t) \/ LockFlush(t)
    BY <1>0, <2>1 DEF TracePrintf, LockTrace, PutFull, Flush, LockFlush
  <2>2. CASE PutChar(t)
    BY <1>0, <2>2 DEF PutChar, Stored
  <2>3. CASE Write(t) \/ WriteFails(t) \/ UnlockTrace(t) \/ LockRotate(t) \/ CloseFile(t) \/ UnlockRotate(t)
    BY <1>0, <2>3 DEF Write, WriteFails, UnlockTrace, LockRotate, CloseFile, UnlockRotate
  <2>4. CASE Size(t)
    BY <1>0, <2>4 DEF Size
  <2>5. CASE OpenFile(t)
    BY <1>0, <2>5 DEF OpenFile
  <2> QED BY <2>1, <2>2, <2>3, <2>4, <2>5 DEF Thread
<1>2. CASE pc[u] \notin InLine
  BY <1>1, <1>2 DEF Control, InLine, Flushing
<1>3. CASE pc[u] \in InLine
  <2>1. trace = u
    BY <1>0, <1>3 DEF Control
  <2>2. pc[t] \notin InLine /\ trace # NoThread
    BY <1>0, <2>1 DEF Control
  <2>3. UNCHANGED <<trace, put, log, lost, full>>
    <3>1. TracePrintf(t) \/ Size(t) \/ LockRotate(t) \/ CloseFile(t) \/ OpenFile(t) \/ UnlockRotate(t)
      BY <2>2 DEF Thread, InLine, LockTrace, PutChar, PutFull, Flush, LockFlush, Write, WriteFails, UnlockTrace
    <3> QED BY <3>1 DEF TracePrintf, Size, LockRotate, CloseFile, OpenFile, UnlockRotate, history
  <2>4. Count' = Count
    BY <2>3 DEF Count
  <2> QED BY <1>0, <1>1, <2>3, <2>4 DEF Control
<1> QED BY <1>2, <1>3

(* A step that leaves the ring to others keeps the invariant, if it keeps  *)
(* the thread in control of where it goes.                                 *)
LEMMA QuietStep ==
  ASSUME Gapless, NEW t \in Threads, Thread(t), Control(t)',
         UNCHANGED <<buf, head, tail, log, put, lost>>, full => full'
  PROVE  Gapless'
<1>1. TypeOK'
  BY TypeStep DEF Gapless
<1>2. LogGapless' /\ NotFull'
  BY RingUntouched DEF Gapless
<1>3. \A u \in Threads : Control(u)'
  BY ControlOthers
<1> QED BY <1>1, <1>2, <1>3 DEF Gapless

(* Every step of a thread keeps the invariant.                             *)
LEMMA GaplessStep ==
  ASSUME Gapless, NEW t \in Threads, Thread(t)
  PROVE  Gapless'
<1>0. /\ TypeOK /\ Control(t) /\ LogGapless
      /\ pc \in [Threads -> {"idle", "print", "put", "put_flushed", "flush", "flush_locked", "write",
                              "unlock", "size"} \cup Rotating]
      /\ left \in [Threads -> 0 .. LineLen]
      /\ after \in [Threads -> {"put", "put_flushed", "unlock"}]
  BY DEF Gapless, TypeOK
<1> USE DEF Goto, InLine, Flushing, ring, file, history
<1>1. CASE TracePrintf(t)
  <2>1. Control(t)' /\ UNCHANGED <<buf, head, tail, log, put, lost, full>>
    BY <1>0, <1>1 DEF TracePrintf, Control
  <2> QED BY <2>1, QuietStep
<1>2. CASE LockTrace(t)
  <2>1. pc'[t] = "put" /\ left'[t] = LineLen /\ trace' = t
    BY <1>0, <1>2 DEF LockTrace
  <2>2. Control(t)'
    BY <2>1, SizesAre DEF Control
  <2>3. UNCHANGED <<buf, head, tail, log, put, lost, full>>
    BY <1>2 DEF LockTrace
  <2> QED BY <2>2, <2>3, QuietStep
<1>3. CASE PutChar(t)
  <2>1. LogGapless' /\ NotFull' /\ Count' = Count + 1
    BY <1>3, PutCharRing
  <2>2. /\ left[t] \in 1 .. LineLen /\ left'[t] = left[t] - 1 /\ trace' = trace /\ trace = t
        /\ \/ left[t] = 1 /\ pc'[t] = "flush" /\ after'[t] = "unlock"
           \/ left[t] # 1 /\ pc'[t] = "put"
    <3>1. trace = t /\ left[t] >= 1
      BY <1>0, <1>3 DEF PutChar, Control
    <3>2. left'[t] = left[t] - 1 /\ trace' = trace
      BY <1>0, <1>3 DEF PutChar, Stored
    <3>3. \/ left[t] = 1 /\ pc'[t] = "flush" /\ after'[t] = "unlock"
          \/ left[t] # 1 /\ pc'[t] = "put"
      BY <1>0, <1>3 DEF PutChar
    <3>4. left[t] \in 0 .. LineLen
      BY <1>0
    <3> QED BY <3>1, <3>2, <3>3, <3>4, SizesAre
  <2>3. lost \/ Count >= 0
    <3>1. ASSUME ~lost PROVE Count >= 0
      <4>1. head \in Index /\ tail \in Index
        BY <1>0, TypesAre
      <4>2. Count \in (IF head = tail THEN {0, BufSize} ELSE {Offset(head)})
        BY <1>0, <3>1 DEF LogGapless, Count
      <4>3. Offset(head) >= 0
        BY <4>1, SizesAre DEF Offset, Index
      <4> QED BY <4>2, <4>3, SizesAre
    <3> QED BY <3>1
  <2>4. lost' \/ Count' >= 1
    <3>1. lost => lost'
      BY <1>3 DEF PutChar, Stored
    <3>2. Count \in Int
      <4> TypeOK => Count \in Int
        BY TypesAre DEF Count
      <4> QED BY <1>0
    <3>3. Count >= 0 => Count + 1 >= 1
      BY <3>2
    <3> QED BY <2>1, <2>3, <3>1, <3>3
  <2>5. Control(t)'
    <3>1. CASE left[t] = 1
      BY <2>2, <2>4, <3>1 DEF Control
    <3>2. CASE left[t] # 1
      <4>1. left'[t] >= 1
        BY <2>2, <3>2, SizesAre
      <4> QED BY <2>2, <3>2, <4>1 DEF Control
    <3> QED BY <3>1, <3>2
  <2>6. \A u \in Threads : Control(u)'
    BY <2>5, ControlOthers
  <2> QED BY <2>1, <2>6, <1>0, TypeStep DEF Gapless
<1>4. CASE PutFull(t)
  <2>1. pc'[t] = "flush" /\ after'[t] = "put_flushed" /\ left'[t] = left[t] /\ left[t] >= 1 /\ trace' = t
    BY <1>0, <1>4 DEF PutFull, Control
  <2>2. UNCHANGED <<buf, head, tail, log, put, lost, full>>
    BY <1>4 DEF PutFull
  <2>3. lost \/ Count >= 1
    BY <1>0, <1>4, PutFullCount, TypesAre DEF PutFull
  <2>4. Count' = Count
    BY <2>2 DEF Count
  <2>5. Control(t)'
    BY <2>1, <2>2, <2>3, <2>4 DEF Control
  <2> QED BY <2>2, <2>5, QuietStep
<1>5. CASE Flush(t)
  <2>1. /\ pc[t] = "flush" /\ pc'[t] = IF open THEN "flush_locked" ELSE after[t]
        /\ UNCHANGED <<left, after, trace, buf, head, tail, log, put, lost>>
    BY <1>0, <1>5 DEF Flush
  <2>2. (full => full') /\ (~open /\ after[t] = "put_flushed" => full')
    BY <1>5 DEF Flush
  <2>3. Count' = Count
    BY <2>1 DEF Count
  <2>4. Control(t)'
    <3>1. CASE open
      BY <1>0, <2>1, <2>2, <2>3, <3>1 DEF Control
    <3>2. CASE ~open
      BY <1>0, <2>1, <2>2, <2>3, <3>2 DEF Control
    <3> QED BY <3>1, <3>2
  <2> QED BY <2>1, <2>2, <2>4, QuietStep
<1>6. CASE LockFlush(t)
  <2>1. UNCHANGED <<buf, head, tail, log, put, lost, full>>
    BY <1>6 DEF LockFlush
  <2>2. Count' = Count
    BY <2>1 DEF Count
  <2>3. /\ pc[t] = "flush_locked" /\ pc'[t] = "write"
        /\ UNCHANGED <<left, after, trace>>
    BY <1>0, <1>6 DEF LockFlush
  <2>4. Control(t)'
    BY <1>0, <2>1, <2>2, <2>3 DEF Control
  <2> QED BY <2>1, <2>4, QuietStep
<1>7. CASE Write(t)
  <2>1. LogGapless' /\ NotFull' /\ (full' \/ Count' = 0)
    BY <1>7, WriteRing
  <2>2. Control(t)'
    <3>1. pc[t] = "write" /\ pc'[t] = after[t] /\ UNCHANGED <<left, after, trace>>
      BY <1>0, <1>7 DEF Write
    <3> QED BY <1>0, <2>1, <3>1 DEF Control
  <2>3. \A u \in Threads : Control(u)'
    BY <2>2, ControlOthers
  <2> QED BY <2>1, <2>3, <1>0, TypeStep DEF Gapless
<1>8. CASE WriteFails(t) \/ UnlockTrace(t)
  <2>1. /\ pc'[t] \in {"print", "size"}
        /\ UNCHANGED <<buf, head, tail, log, put, lost, full>>
    BY <1>0, <1>8 DEF WriteFails, UnlockTrace
  <2>2. Control(t)'
    BY <2>1 DEF Control
  <2> QED BY <2>1, <2>2, QuietStep
<1>9. CASE Size(t)
  <2>1. /\ pc'[t] \in {"rotate", "done", "idle"}
        /\ UNCHANGED <<buf, head, tail, log, put, lost, full>>
    BY <1>0, <1>9 DEF Size
  <2>2. Control(t)'
    BY <2>1 DEF Control
  <2> QED BY <2>1, <2>2, QuietStep
<1>10. CASE LockRotate(t) \/ CloseFile(t) \/ UnlockRotate(t)
  <2>1. /\ pc'[t] \in {"close", "open", "idle"}
        /\ UNCHANGED <<buf, head, tail, log, put, lost, full>>
    BY <1>0, <1>10 DEF LockRotate, CloseFile, UnlockRotate
  <2>2. Control(t)'
    BY <2>1 DEF Control
  <2> QED BY <2>1, <2>2, QuietStep
<1>11. CASE OpenFile(t)
  <2>1. /\ pc'[t] \in {"done", "print"}
        /\ UNCHANGED <<buf, head, tail, log, put, lost, full>>
    BY <1>0, <1>11 DEF OpenFile
  <2>2. Control(t)'
    BY <2>1 DEF Control
  <2> QED BY <2>1, <2>2, QuietStep
<1> QED BY <1>1, <1>2, <1>3, <1>4, <1>5, <1>6, <1>7, <1>8, <1>9, <1>10, <1>11 DEF Thread

(* The invariant holds in every state.                                     *)
LEMMA GaplessInductive == Spec => []Gapless
<1>1. Gapless /\ [Next]_vars => Gapless'
  <2> SUFFICES ASSUME Gapless, [Next]_vars PROVE Gapless'
    OBVIOUS
  <2>1. CASE Next
    BY <2>1, GaplessStep DEF Next
  <2>2. CASE UNCHANGED vars
    BY <2>2 DEF vars, control, ring, file, history, Gapless, TypeOK, Control, NotFull, LogGapless, Count, Offset
  <2> QED BY <2>1, <2>2
<1> QED BY <1>1, InitGapless, PTL DEF Spec

(* The indices stay in the buffer and the counters in their ranges.        *)
THEOREM TypeCorrect == Spec => []TypeOK
<1>1. Gapless => TypeOK
  BY DEF Gapless
<1> QED BY <1>1, GaplessInductive, PTL

(* What trace_printf wrote to the log is what was printed, without a gap   *)
(* or a repetition, and the rest waits in the buffer, until a character is *)
(* put into a full buffer while no file is open.                           *)
THEOREM GaplessLog == Spec => []LogGapless
<1>1. Gapless => LogGapless
  BY DEF Gapless
<1> QED BY <1>1, GaplessInductive, PTL

-----------------------------------------------------------------------------
(* Who rotates: until two threads race, one at a time, and the file is     *)
(* large until it is renamed; the line that reports a failure to open it   *)
(* finds no open file.                                                     *)
Rotates(t) == pc[t] \in Rotating \/ inRotate[t]

OneRotates ==
  ~raced =>
    /\ \A t, u \in Threads : Rotates(t) /\ Rotates(u) => t = u
    /\ \A t \in Threads : /\ pc[t] \in {"rotate", "close", "open"} => size >= FileSize /\ ~inRotate[t]
                          /\ inRotate[t] => ~open
    /\ RotatedFull

(* Every step of a thread keeps it so.                                     *)
LEMMA OneRotatesStep ==
  ASSUME TypeOK, OneRotates, NEW t \in Threads, Control(t), Thread(t)
  PROVE  OneRotates'
<1>0. /\ pc \in [Threads -> {"idle", "print", "put", "put_flushed", "flush", "flush_locked", "write",
                              "unlock", "size"} \cup Rotating]
      /\ inRotate \in [Threads -> BOOLEAN]
      /\ rotated \in [1 .. NumFiles - 1 -> Nat \cup {NoFile}]
  BY DEF TypeOK
<1>a. size \in Int
  <2>1. size \in Nat \/ size = -1
    BY DEF TypeOK, NoFile
  <2> QED BY <2>1
<1> SUFFICES ASSUME ~raced'
             PROVE  /\ \A v, u \in Threads : Rotates(v)' /\ Rotates(u)' => v = u
                    /\ \A u \in Threads :
                         /\ pc'[u] \in {"rotate", "close", "open"} => size' >= FileSize /\ ~inRotate'[u]
                         /\ inRotate'[u] => ~open'
                    /\ RotatedFull'
  BY DEF OneRotates
<1> USE DEF Goto, Rotates, Rotating, ring, file, history
(* A step that neither begins nor ends a rotation nor touches the file.    *)
<1>1. ASSUME ~raced, UNCHANGED <<inRotate, open, rotated>>, size >= FileSize => size' >= FileSize,
             pc'[t] \in {"close", "open"} => pc[t] \in {"rotate", "close"},
             pc'[t] = "done" => inRotate[t], pc'[t] # "rotate",
             \A u \in Threads : u # t => pc'[u] = pc[u]
      PROVE  /\ \A v, u \in Threads : Rotates(v)' /\ Rotates(u)' => v = u
             /\ \A u \in Threads :
                  /\ pc'[u] \in {"rotate", "close", "open"} => size' >= FileSize /\ ~inRotate'[u]
                  /\ inRotate'[u] => ~open'
             /\ RotatedFull'
  <2>1. \A u \in Threads : Rotates(u)' => Rotates(u)
    BY <1>1
  <2>2. \A v, u \in Threads : Rotates(v)' /\ Rotates(u)' => v = u
    BY <1>1, <2>1 DEF OneRotates
  <2>3. \A u \in Threads : pc'[u] \in {"rotate", "close", "open"} => pc[u] \in {"rotate", "close", "open"}
    BY <1>1
  <2> QED BY <1>1, <2>2, <2>3 DEF OneRotates, RotatedFull
<1>2. CASE TracePrintf(t) \/ LockTrace(t) \/ PutFull(t) \/ Flush(t) \/ LockFlush(t)
  <2>1. /\ UNCHANGED <<raced, inRotate, file>>
        /\ \A u \in Threads : u # t => pc'[u] = pc[u]
    <3>1. CASE TracePrintf(t) \/ LockTrace(t) \/ PutFull(t)
      BY <1>0, <3>1 DEF TracePrintf, LockTrace, PutFull
    <3>2. CASE Flush(t) \/ LockFlush(t)
      BY <1>0, <3>2 DEF Flush, LockFlush
    <3> QED BY <1>2, <3>1, <3>2
  <2>2. pc'[t] \in {"print", "put", "put_flushed", "flush", "flush_locked", "write", "unlock"}
    <3>1. CASE TracePrintf(t) \/ LockTrace(t) \/ PutFull(t) \/ LockFlush(t)
      BY <1>0, <3>1 DEF TracePrintf, LockTrace, PutFull, LockFlush
    <3>2. CASE Flush(t)
      <4>1. pc'[t] = "flush_locked" \/ pc'[t] = after[t]
        BY <1>0, <3>2 DEF Flush
      <4> QED BY <4>1 DEF TypeOK
    <3> QED BY <1>2, <3>1, <3>2
  <2> QED BY <1>1, <2>1, <2>2
<1>3. CASE PutChar(t) \/ WriteFails(t) \/ UnlockTrace(t)
  <2>1. /\ UNCHANGED <<raced, inRotate, file>>
        /\ pc'[t] \in {"print", "put", "flush", "size"}
        /\ \A u \in Threads : u # t => pc'[u] = pc[u]
    BY <1>0, <1>3 DEF PutChar, WriteFails, UnlockTrace
  <2> QED BY <1>1, <2>1
<1>4. CASE Write(t)
  <2>1. /\ UNCHANGED <<raced, inRotate, open, rotated>> /\ size' = size + Len(Unsaved)
        /\ pc'[t] = after[t]
        /\ \A u \in Threads : u # t => pc'[u] = pc[u]
    BY <1>0, <1>4 DEF Write
  <2>2. after[t] \in {"put", "put_flushed", "unlock"}
    BY DEF TypeOK
  <2>3. Len(Unsaved) \in Nat
    BY UnsavedIs, TypesAre, SizesAre DEF Index
  <2>4. \A n \in Nat : size >= FileSize => size + n >= FileSize
    <3> HIDE DEF TypeOK
    <3> QED BY <1>a, SizesAre
  <2>5. size >= FileSize => size' >= FileSize
    BY <2>1, <2>3, <2>4
  <2> QED BY <1>1, <2>1, <2>2, <2>5
<1>5. CASE Size(t)
  <2>1. /\ pc[t] = "size" /\ UNCHANGED <<inRotate, file>>
        /\ \A u \in Threads : u # t => pc'[u] = pc[u]
        /\ \/ TooLarge /\ pc'[t] = "rotate"
           \/ ~TooLarge /\ inRotate[t] /\ pc'[t] = "done"
           \/ ~TooLarge /\ ~inRotate[t] /\ pc'[t] = "idle"
        /\ ~raced /\ ~(TooLarge /\ \E u \in Threads : pc[u] \in Rotating)
    BY <1>0, <1>5 DEF Size
  <2>2. CASE ~TooLarge
    BY <1>1, <2>1, <2>2
  <2>3. CASE TooLarge
    <3>1. \A u \in Threads : ~Rotates(u)
      BY <2>1, <2>3 DEF OneRotates, TooLarge
    <3>2. pc'[t] = "rotate"
      BY <2>1, <2>3
    <3>3. \A u \in Threads : Rotates(u)' => u = t
      BY <2>1, <3>1
    <3>4. size' >= FileSize /\ \A u \in Threads : ~inRotate'[u]
      BY <2>1, <2>3, <3>1 DEF TooLarge
    <3> QED BY <2>1, <3>1, <3>3, <3>4 DEF OneRotates, RotatedFull
  <2> QED BY <2>2, <2>3
<1>6. CASE LockRotate(t)
  <2>1. /\ UNCHANGED <<raced, inRotate, file>> /\ pc[t] = "rotate" /\ pc'[t] = "close"
        /\ \A u \in Threads : u # t => pc'[u] = pc[u]
    BY <1>0, <1>6 DEF LockRotate
  <2> QED BY <1>1, <2>1
<1>7. CASE CloseFile(t)
  <2>1. /\ UNCHANGED <<raced, inRotate, size, rotated>> /\ open' = FALSE
        /\ pc[t] = "close" /\ pc'[t] = "open"
        /\ \A u \in Threads : u # t => pc'[u] = pc[u]
    BY <1>0, <1>7 DEF CloseFile
  <2>2. \A u \in Threads : Rotates(u)' => Rotates(u)
    BY <2>1
  <2>3. \A u \in Threads : pc'[u] \in {"rotate", "close", "open"} => pc[u] \in {"rotate", "close", "open"}
    BY <2>1
  <2> QED BY <2>1, <2>2, <2>3 DEF OneRotates, RotatedFull
<1>8. CASE OpenFile(t)
  <2>1. /\ ~raced /\ pc[t] = "open" /\ pc'[t] \in {"done", "print"}
        /\ \A u \in Threads : u # t => pc'[u] = pc[u] /\ inRotate'[u] = inRotate[u]
        /\ rotated' = [i \in DOMAIN rotated |-> IF i = 1 THEN size ELSE rotated[i - 1]]
        /\ \/ open' = TRUE /\ inRotate' = inRotate
           \/ open' = FALSE
    BY <1>0, <1>8 DEF OpenFile
  <2>2. size >= FileSize /\ ~inRotate[t] /\ \A u \in Threads : u # t => ~Rotates(u)
    BY <2>1 DEF OneRotates
  <2>3. \A u \in Threads : u # t => ~Rotates(u)'
    BY <2>1, <2>2
  <2>4. RotatedFull'
    <3>1. \A i \in 1 .. NumFiles - 1 : i # 1 => i - 1 \in 1 .. NumFiles - 1
      <4> HIDE DEF TypeOK
      <4> QED BY SizesAre
    <3>2. \A i \in DOMAIN rotated : rotated[i] = NoFile \/ rotated[i] >= FileSize
      BY <2>1 DEF OneRotates, RotatedFull
    <3>3. DOMAIN rotated' = 1 .. NumFiles - 1 /\ DOMAIN rotated = 1 .. NumFiles - 1
      BY <1>0, <2>1
    <3>4. \A i \in 1 .. NumFiles - 1 : rotated'[i] = NoFile \/ rotated'[i] >= FileSize
      BY <2>1, <2>2, <3>1, <3>2, <3>3
    <3> QED BY <3>3, <3>4 DEF RotatedFull
  <2>5. pc'[t] \notin {"rotate", "close", "open"} /\ (inRotate'[t] => ~open')
    BY <2>1, <2>2
  <2> QED BY <2>3, <2>4, <2>5
<1>9. CASE UnlockRotate(t)
  <2>1. /\ UNCHANGED <<raced, file>> /\ pc'[t] = "idle" /\ inRotate'[t] = FALSE
        /\ \A u \in Threads : u # t => pc'[u] = pc[u] /\ inRotate'[u] = inRotate[u]
    BY <1>0, <1>9 DEF UnlockRotate
  <2>2. \A u \in Threads : Rotates(u)' => Rotates(u)
    BY <2>1
  <2> QED BY <2>1, <2>2 DEF OneRotates, RotatedFull
<1> QED BY <1>2, <1>3, <1>4, <1>5, <1>6, <1>7, <1>8, <1>9 DEF Thread

(* Only a file that has reached its size is rotated, until two threads     *)
(* that find it too large rotate it one after the other.                   *)
THEOREM FullRotation == Spec => []RotatedFull
<1>1. Init => OneRotates
  BY DEF Init, OneRotates, Rotates, Rotating, RotatedFull, NoFile
<1>2. Gapless /\ OneRotates /\ [Next]_vars => OneRotates'
  <2> SUFFICES ASSUME Gapless, OneRotates, [Next]_vars PROVE OneRotates'
    OBVIOUS
  <2>1. CASE Next
    BY <2>1, OneRotatesStep DEF Next, Gapless
  <2>2. CASE UNCHANGED vars
    BY <2>2 DEF vars, control, file, history, OneRotates, Rotates, RotatedFull
  <2> QED BY <2>1, <2>2
<1>3. OneRotates => RotatedFull
  BY DEF OneRotates, RotatedFull
<1> QED BY <1>1, <1>2, <1>3, GaplessInductive, PTL DEF Spec

-----------------------------------------------------------------------------
(* How large a file gets.  What waits in the buffer is of the line that is *)
(* being printed, once the file has been written to; and each thread adds  *)
(* no more than one line to a large file before it waits to rotate it.     *)
Waiting == {"size", "rotate", "close", "open"}
Spent == {t \in Threads : pc[t] \in Waiting}
Printed == IF trace = NoThread THEN 0 ELSE LineLen - left[trace]
Allowed == FileSize + Cardinality(Spent) * LineLen
Limit == FileSize + Cardinality(Threads) * LineLen

InHand(t) ==
  /\ trace = t => pc[t] \in InLine \cup {"print"}
  /\ pc[t] \in Flushing => \/ after[t] = "unlock" /\ left[t] = 0
                           \/ after[t] = "put_flushed" /\ NextHead = tail
  /\ pc[t] = "unlock" => left[t] = 0

Fresh ==
  open /\ size > 0 =>
    /\ Offset(head) <= Printed
    /\ \A t \in Threads : /\ pc[t] \in Flushing => head # tail
                          /\ pc[t] \in {"put_flushed", "unlock"} => head = tail
    /\ size >= FileSize => size + Offset(head) < Allowed + Printed

Bounded == size < Limit /\ \A i \in 1 .. NumFiles - 1 : rotated[i] < Limit

SizeInv == (\A t \in Threads : InHand(t)) /\ Fresh /\ Bounded

(* The lines of the threads that have spent theirs. *)
LEMMA LinesGrow ==
  ASSUME NEW m \in Nat, NEW n \in Nat
  PROVE  /\ m * LineLen \in Nat /\ (m + 1) * LineLen = m * LineLen + LineLen
         /\ m <= n => m * LineLen <= n * LineLen
<1>1. LineLen \in Nat
  BY SizesAre
<1>2. m * LineLen \in Nat /\ (m + 1) * LineLen = m * LineLen + LineLen
  BY <1>1
<1>3. ASSUME m <= n PROVE m * LineLen <= n * LineLen
  <2>1. PICK d \in Nat : n = m + d
    <3>1. n - m \in Nat /\ n = m + (n - m)
      BY <1>3
    <3> QED BY <3>1
  <2>2. n * LineLen = m * LineLen + d * LineLen /\ d * LineLen \in Nat
    BY <1>1, <2>1
  <2> QED BY <1>2, <2>2
<1> QED BY <1>2, <1>3

LEMMA AllowedTypes ==
  /\ IsFiniteSet(Spent) /\ Cardinality(Spent) \in Nat /\ Allowed \in Nat /\ Allowed >= FileSize
  /\ Limit \in Nat /\ Limit >= FileSize
  /\ \A t \in Threads : t \notin Spent => Allowed + LineLen <= Limit
<1>1. IsFiniteSet(Threads) /\ Cardinality(Threads) \in Nat
  BY FiniteAssumption, FS_CardinalityType
<1>2. ASSUME NEW S \in SUBSET Threads PROVE IsFiniteSet(S) /\ Cardinality(S) \in Nat /\ Cardinality(S) <= Cardinality(Threads)
  BY <1>1, FS_Subset, FS_CardinalityType
<1>3. Spent \in SUBSET Threads
  BY DEF Spent
<1>4. Allowed \in Nat /\ Allowed >= FileSize /\ Limit \in Nat /\ Limit >= FileSize
  <2>1. Cardinality(Spent) * LineLen \in Nat /\ Cardinality(Threads) * LineLen \in Nat /\ FileSize \in Nat
    BY <1>1, <1>2, <1>3, LinesGrow, SizesAre
  <2> QED BY <2>1 DEF Allowed, Limit
<1>5. ASSUME NEW t \in Threads, t \notin Spent PROVE Allowed + LineLen <= Limit
  <2>1. Cardinality(Spent \cup {t}) = Cardinality(Spent) + 1 /\ Spent \cup {t} \in SUBSET Threads
    BY <1>2, <1>3, <1>5, FS_AddElement
  <2>2. Cardinality(Spent) + 1 <= Cardinality(Threads)
    BY <1>2, <2>1
  <2> DEFINE c == Cardinality(Spent)
             n == Cardinality(Threads)
  <2>3. c \in Nat /\ n \in Nat /\ c + 1 <= n
    BY <1>1, <1>2, <1>3, <2>2
  <2> HIDE DEF c, n
  <2>4. (c + 1) * LineLen = c * LineLen + LineLen /\ c * LineLen \in Nat
    BY <2>3, LinesGrow
  <2>5. c + 1 \in Nat /\ n * LineLen \in Nat
    <3>1. c + 1 \in Nat
      BY <2>3
    <3> QED BY <2>3, <3>1, LinesGrow
  <2>6. (c + 1) * LineLen <= n * LineLen
    BY <2>3, <2>5, LinesGrow
  <2>7. FileSize + c * LineLen + LineLen <= FileSize + n * LineLen
    <3>1. \A x, y, f, l \in Nat : x + l <= y => f + x + l <= f + y
      OBVIOUS
    <3>2. c * LineLen + LineLen <= n * LineLen
      BY <2>4, <2>6
    <3> QED BY <2>4, <2>5, <3>1, <3>2, SizesAre
  <2> QED BY <2>7 DEF Allowed, Limit, c, n
<1> QED BY <1>2, <1>3, <1>4, <1>5

LEMMA AllowedGrows ==
  ASSUME Spent \subseteq Spent'
  PROVE  /\ Allowed <= Allowed' /\ Allowed' \in Nat
         /\ (\E t \in Spent' : t \notin Spent) => Allowed + LineLen <= Allowed'
<1>1. IsFiniteSet(Threads) /\ Cardinality(Threads) \in Nat /\ Spent' \in SUBSET Threads
  BY FiniteAssumption, FS_CardinalityType DEF Spent
<1>2. IsFiniteSet(Spent') /\ Cardinality(Spent') \in Nat
  BY <1>1, FS_Subset, FS_CardinalityType
<1>3. IsFiniteSet(Spent) /\ Cardinality(Spent) \in Nat /\ Cardinality(Spent) <= Cardinality(Spent')
  BY <1>2, FS_Subset, FS_CardinalityType
<1> DEFINE c == Cardinality(Spent)
           n == Cardinality(Spent')
<1>4. c \in Nat /\ n \in Nat /\ c <= n
  BY <1>2, <1>3
<1>5. ASSUME NEW t \in Spent', t \notin Spent PROVE c + 1 <= n
  <2>1. Cardinality(Spent \cup {t}) = Cardinality(Spent) + 1 /\ Spent \cup {t} \in SUBSET Spent'
    BY <1>3, <1>5, FS_AddElement
  <2> QED BY <1>2, <2>1, FS_Subset
<1> HIDE DEF c, n
<1>6. /\ c * LineLen \in Nat /\ n * LineLen \in Nat /\ c * LineLen <= n * LineLen
      /\ (c + 1) * LineLen = c * LineLen + LineLen
  BY <1>4, LinesGrow
<1>7. c + 1 <= n => (c + 1) * LineLen <= n * LineLen
  <2>1. c + 1 \in Nat
    BY <1>4
  <2> QED BY <1>4, <2>1, LinesGrow
<1>8. Allowed = FileSize + c * LineLen /\ Allowed' = FileSize + n * LineLen
  BY DEF Allowed, c, n
<1>9. \A x, y, f, l \in Nat : /\ x <= y => f + x <= f + y
                              /\ x + l <= y => f + x + l <= f + y
                              /\ f + y \in Nat
  OBVIOUS
<1>10. FileSize \in Nat /\ LineLen \in Nat
  BY SizesAre
<1>11. ASSUME NEW t \in Spent', t \notin Spent PROVE Allowed + LineLen <= Allowed'
  <2>1. c * LineLen + LineLen <= n * LineLen
    BY <1>5, <1>6, <1>7, <1>11
  <2> QED BY <1>6, <1>8, <1>9, <1>10, <2>1
<1> QED BY <1>6, <1>8, <1>9, <1>10, <1>11

(* Who may be where: the types and what Control says of the other threads. *)
LEMMA InHandStep ==
  ASSUME Gapless, \A u \in Threads : InHand(u), NEW t \in Threads, Thread(t)
  PROVE  \A u \in Threads : InHand(u)'
<1>0. /\ NoThread \notin Threads
      /\ pc \in [Threads -> {"idle", "print", "put", "put_flushed", "flush", "flush_locked", "write",
                              "unlock", "size"} \cup Rotating]
      /\ left \in [Threads -> 0 .. LineLen]
      /\ after \in [Threads -> {"put", "put_flushed", "unlock"}]
      /\ \A u \in Threads : Control(u)
  BY DEF Gapless, TypeOK
<1> USE DEF Goto, control, ring, file, history
<1>1. /\ \A u \in Threads : u # t => pc'[u] = pc[u] /\ left'[u] = left[u] /\ after'[u] = after[u]
      /\ trace' \in {trace, t, NoThread}
      /\ UNCHANGED <<head, tail>> \/ pc[t] \in InLine
  <2>1. CASE TracePrintf(t) \/ LockTrace(t) \/ PutFull(t) \/ Flush(t) \/ LockFlush(t)
    BY <1>0, <2>1 DEF TracePrintf, LockTrace, PutFull, Flush, LockFlush
  <2>2. CASE PutChar(t) \/ Write(t) \/ WriteFails(t) \/ UnlockTrace(t) \/ Size(t)
    BY <1>0, <2>2 DEF PutChar, Stored, Write, WriteFails, UnlockTrace, Size, InLine
  <2>3. CASE LockRotate(t) \/ CloseFile(t) \/ OpenFile(t) \/ UnlockRotate(t)
    BY <1>0, <2>3 DEF LockRotate, CloseFile, OpenFile, UnlockRotate
  <2> QED BY <2>1, <2>2, <2>3 DEF Thread
<1>2. ASSUME NEW u \in Threads, u # t PROVE InHand(u)'
  <2>1. pc[t] \in InLine => pc[u] \notin InLine
    BY <1>0, <1>2 DEF Control
  <2>2. trace' = u => trace = u
    BY <1>0, <1>1, <1>2
  <2>3. pc[u] \in Flushing => UNCHANGED <<head, tail>>
    BY <1>1, <2>1 DEF InLine, Flushing
  <2> QED BY <1>1, <1>2, <2>2, <2>3 DEF InHand, NextHead
<1>3. InHand(t) /\ Control(t)
  BY <1>0
<1>4. InHand(t)'
  <2>1. CASE TracePrintf(t)
    BY <1>0, <1>3, <2>1 DEF TracePrintf, InHand, InLine, Flushing
  <2>2. CASE LockTrace(t)
    BY <1>0, <2>2 DEF LockTrace, InHand, InLine, Flushing
  <2>3. CASE PutChar(t)
    <3>1. /\ pc'[t] = IF left[t] = 1 THEN "flush" ELSE "put"
          /\ left[t] = 1 => after'[t] = "unlock" /\ left'[t] = left[t] - 1
      BY <1>0, <2>3 DEF PutChar, Stored
    <3>2. CASE left[t] = 1
      <4>1. left'[t] = 0
        BY <3>1, <3>2
      <4> QED BY <3>1, <3>2, <4>1 DEF InHand, InLine
    <3>3. CASE left[t] # 1
      BY <3>1, <3>3 DEF InHand, InLine, Flushing
    <3> QED BY <3>2, <3>3
  <2>4. CASE PutFull(t)
    <3>1. pc'[t] = "flush" /\ after'[t] = "put_flushed" /\ NextHead = tail /\ UNCHANGED <<head, tail>>
      BY <1>0, <2>4 DEF PutFull
    <3> QED BY <3>1 DEF InHand, InLine, NextHead
  <2>5. CASE Flush(t) \/ LockFlush(t) \/ Write(t)
    <3>1. /\ pc[t] \in Flushing /\ UNCHANGED <<after, left>>
          /\ \/ pc'[t] \in Flushing /\ UNCHANGED <<head, tail>>
             \/ pc'[t] = after[t]
      BY <1>0, <2>5 DEF Flush, LockFlush, Write, Flushing
    <3>2. after[t] \in {"put_flushed", "unlock"}
      BY <1>3, <3>1 DEF InHand
    <3> QED BY <1>3, <3>1, <3>2 DEF InHand, InLine, Flushing, NextHead
  <2>6. CASE WriteFails(t)
    BY <1>0, <2>6 DEF WriteFails, InHand, Flushing
  <2>7. CASE UnlockTrace(t)
    BY <1>0, <2>7 DEF UnlockTrace, InHand, Flushing
  <2>8. CASE Size(t) \/ LockRotate(t) \/ CloseFile(t) \/ OpenFile(t) \/ UnlockRotate(t)
    <3>1. /\ pc[t] \in {"size", "rotate", "close", "open", "done"} /\ trace' = trace
          /\ pc'[t] \in {"rotate", "close", "open", "done", "print", "idle"}
      BY <1>0, <2>8 DEF Size, LockRotate, CloseFile, OpenFile, UnlockRotate
    <3> QED BY <1>3, <3>1 DEF InHand, InLine, Flushing
  <2> QED BY <2>1, <2>2, <2>3, <2>4, <2>5, <2>6, <2>7, <2>8 DEF Thread
<1> QED BY <1>2, <1>4

(* A step that leaves the buffer, the file and the line as they are. *)
LEMMA FreshKept ==
  ASSUME TypeOK, Fresh, UNCHANGED <<head, tail, open, size>>, Printed' = Printed,
         \A u \in Threads : pc'[u] \in Flushing => pc[u] \in Flushing \/ head # tail,
         \A u \in Threads : pc'[u] \in {"put_flushed", "unlock"} => pc[u] \in {"put_flushed", "unlock"},
         size >= FileSize /\ open => Spent \subseteq Spent'
  PROVE  Fresh'
<1> SUFFICES ASSUME open', size' > 0
             PROVE  /\ Offset(head)' <= Printed'
                    /\ \A u \in Threads : /\ pc'[u] \in Flushing => head' # tail'
                                          /\ pc'[u] \in {"put_flushed", "unlock"} => head' = tail'
                    /\ size' >= FileSize => size' + Offset(head)' < Allowed' + Printed'
  BY DEF Fresh
<1>1. Offset(head)' = Offset(head)
  BY DEF Offset
<1>2. /\ Offset(head) <= Printed
      /\ \A u \in Threads : /\ pc[u] \in Flushing => head # tail
                            /\ pc[u] \in {"put_flushed", "unlock"} => head = tail
      /\ size >= FileSize => size + Offset(head) < Allowed + Printed
  BY DEF Fresh
<1>3. ASSUME size >= FileSize PROVE size' + Offset(head)' < Allowed' + Printed'
  <2>1. Allowed <= Allowed' /\ Allowed' \in Nat /\ Allowed \in Nat
    BY <1>3, AllowedGrows, AllowedTypes
  <2>2. head \in Index /\ tail \in Index /\ BufSize \in Nat
    BY TypesAre, SizesAre
  <2>3. Offset(head) \in Int
    BY <2>2 DEF Offset, Index
  <2>4. size \in Int
    BY DEF TypeOK, NoFile
  <2>5. Printed \in Int
    <3>1. trace # NoThread => left[trace] \in 0 .. LineLen
      BY DEF TypeOK
    <3> QED BY <3>1, SizesAre DEF Printed
  <2>6. \A a, b, o, p, s \in Int : s + o < a + p /\ a <= b => s + o < b + p
    OBVIOUS
  <2>7. Allowed \in Int /\ Allowed' \in Int
    BY <2>1
  <2> QED BY <1>1, <1>2, <1>3, <2>1, <2>3, <2>4, <2>5, <2>6, <2>7
<1> QED BY <1>1, <1>2, <1>3

(* The thread in its line, and the numbers about it. *)
LEMMA LineTypes ==
  ASSUME Gapless, NEW t \in Threads, pc[t] \in InLine
  PROVE  /\ trace = t /\ Printed = LineLen - left[t] /\ Printed \in 0 .. LineLen
         /\ \A u \in Threads : u # t => pc[u] \notin InLine
         /\ head \in Index /\ tail \in Index /\ Offset(head) \in 0 .. BufSize - 1
         /\ size \in Int /\ BufSize \in Nat /\ LineLen \in Nat /\ FileSize \in Nat
<1>1. NoThread \notin Threads /\ \A u \in Threads : Control(u)
  BY DEF Gapless
<1>2. trace = t /\ \A u \in Threads : u # t => pc[u] \notin InLine
  BY <1>1 DEF Control
<1>3. Printed = LineLen - left[t]
  BY <1>1, <1>2 DEF Printed
<1>4. left[t] \in 0 .. LineLen /\ size \in Int
  BY DEF Gapless, TypeOK, NoFile
<1>5. Printed \in 0 .. LineLen
  BY <1>3, <1>4, SizesAre
<1>6. head \in Index /\ tail \in Index /\ BufSize \in Nat /\ LineLen \in Nat /\ FileSize \in Nat
  BY TypesAre, SizesAre DEF Gapless
<1>7. Offset(head) \in 0 .. BufSize - 1
  BY <1>6 DEF Offset, Index
<1> QED BY <1>2, <1>3, <1>4, <1>5, <1>6, <1>7

LEMMA PutFresh ==
  ASSUME Gapless, SizeInv, NEW t \in Threads, PutChar(t)
  PROVE  Fresh'
<1> USE DEF Goto, control, ring, file, history
<1>0. /\ pc \in [Threads -> {"idle", "print", "put", "put_flushed", "flush", "flush_locked", "write",
                              "unlock", "size"} \cup Rotating]
      /\ left \in [Threads -> 0 .. LineLen] /\ NoThread \notin Threads
  BY DEF Gapless, TypeOK
<1>1. /\ pc[t] \in {"put", "put_flushed"} /\ pc'[t] \in {"flush", "put"}
      /\ pc[t] = "put" => NextHead # tail
      /\ head' = NextHead /\ left'[t] = left[t] - 1
      /\ UNCHANGED <<tail, open, size, trace>>
      /\ \A u \in Threads : u # t => pc'[u] = pc[u]
  BY <1>0 DEF PutChar, Stored
<1>2. pc[t] \in InLine
  BY <1>1 DEF InLine
<1>3. /\ trace = t /\ Printed = LineLen - left[t] /\ Printed \in 0 .. LineLen
      /\ \A u \in Threads : u # t => pc[u] \notin InLine
      /\ head \in Index /\ tail \in Index /\ Offset(head) \in 0 .. BufSize - 1
      /\ size \in Int /\ BufSize \in Nat /\ LineLen \in Nat /\ FileSize \in Nat
  BY <1>2, LineTypes
<1>4. Printed' = Printed + 1
  <2>1. Printed' = LineLen - left'[t]
    BY <1>0, <1>1, <1>3 DEF Printed
  <2>2. left[t] \in 0 .. LineLen
    BY <1>0
  <2> QED BY <1>1, <1>3, <2>1, <2>2
<1>5. Spent' = Spent
  BY <1>1 DEF Spent, Waiting
<1>6. Allowed' = Allowed
  BY <1>5 DEF Allowed
<1> SUFFICES ASSUME open', size' > 0
             PROVE  /\ Offset(head)' <= Printed'
                    /\ \A u \in Threads : /\ pc'[u] \in Flushing => head' # tail'
                                          /\ pc'[u] \in {"put_flushed", "unlock"} => head' = tail'
                    /\ size' >= FileSize => size' + Offset(head)' < Allowed' + Printed'
  BY DEF Fresh
<1>7. /\ Offset(head) <= Printed
      /\ pc[t] = "put_flushed" => head = tail
      /\ size >= FileSize => size + Offset(head) < Allowed + Printed
  BY <1>1 DEF SizeInv, Fresh
<1>8. head' = (IF head = BufSize - 1 THEN 0 ELSE head + 1) /\ head' \in Index
  BY <1>1, <1>3, NextHeadIs
<1>9. head' # tail'
  <2>1. CASE pc[t] = "put"
    BY <1>1, <2>1
  <2>2. CASE pc[t] = "put_flushed"
    BY <1>1, <1>3, <1>7, <1>8, <2>2, SizesAre DEF Index
  <2> QED BY <1>1, <2>1, <2>2
<1>10. Offset(head)' = Offset(head) + 1
  <2>1. Offset(head)' = IF head' >= tail THEN head' - tail ELSE head' - tail + BufSize
    BY <1>1 DEF Offset
  <2> QED BY <1>1, <1>3, <1>8, <1>9, <2>1 DEF Offset, Index
<1>11. \A u \in Threads : pc'[u] \notin {"put_flushed", "unlock"}
  BY <1>1, <1>3 DEF InLine
<1>12. size' >= FileSize => size' + Offset(head)' < Allowed' + Printed'
  <2>1. Allowed \in Nat
    BY AllowedTypes
  <2> QED BY <1>1, <1>3, <1>4, <1>6, <1>7, <1>10, <2>1
<1> QED BY <1>3, <1>4, <1>7, <1>9, <1>10, <1>11, <1>12

LEMMA WriteFresh ==
  ASSUME Gapless, SizeInv, NEW t \in Threads, Write(t)
  PROVE  Fresh' /\ size' < Limit
<1> USE DEF Goto, control, ring, file, history
<1>0. /\ pc \in [Threads -> {"idle", "print", "put", "put_flushed", "flush", "flush_locked", "write",
                              "unlock", "size"} \cup Rotating]
      /\ NoThread \notin Threads
  BY DEF Gapless, TypeOK
<1>1. /\ pc[t] = "write" /\ pc'[t] = after[t] /\ open
      /\ size' = size + Len(Unsaved) /\ tail' = head
      /\ UNCHANGED <<head, open, trace, left>>
      /\ \A u \in Threads : u # t => pc'[u] = pc[u]
  BY <1>0 DEF Write
<1>2. pc[t] \in InLine /\ pc[t] \in Flushing
  BY <1>1 DEF InLine, Flushing
<1>3. /\ trace = t /\ Printed = LineLen - left[t] /\ Printed \in 0 .. LineLen
      /\ \A u \in Threads : u # t => pc[u] \notin InLine
      /\ head \in Index /\ tail \in Index /\ Offset(head) \in 0 .. BufSize - 1
      /\ size \in Int /\ BufSize \in Nat /\ LineLen \in Nat /\ FileSize \in Nat
  BY <1>2, LineTypes
<1>4. \/ after[t] = "unlock" /\ left[t] = 0
      \/ after[t] = "put_flushed" /\ NextHead = tail
  BY <1>2 DEF SizeInv, InHand
<1>5. Len(Unsaved) = IF head > tail THEN head - tail ELSE BufSize - tail + head
  BY UnsavedIs DEF Gapless
<1>6. Printed' = Printed
  BY <1>1 DEF Printed
<1>7. Spent' = Spent /\ t \notin Spent
  BY <1>1, <1>4 DEF Spent, Waiting
<1>8. Allowed' = Allowed
  BY <1>7 DEF Allowed
<1>9. Allowed \in Nat /\ Allowed >= FileSize /\ Allowed + LineLen <= Limit /\ Limit \in Nat
  BY <1>7, AllowedTypes
<1>10. Offset(head)' = 0
  BY <1>1, <1>3 DEF Offset, Index
<1>11. size' < Allowed + Printed
  <2>1. CASE size > 0
    <3>1. Offset(head) <= Printed /\ head # tail /\ (size >= FileSize => size + Offset(head) < Allowed + Printed)
      BY <1>1, <1>2, <2>1 DEF SizeInv, Fresh
    <3>2. Len(Unsaved) = Offset(head)
      BY <1>3, <1>5, <3>1 DEF Offset, Index
    <3> QED BY <1>1, <1>3, <1>9, <3>1, <3>2
  <2>2. CASE ~(size > 0)
    <3>1. Len(Unsaved) <= BufSize /\ BufSize <= FileSize /\ LineLen >= 1
      BY <1>3, <1>5 DEF Index
    <3>2. CASE after[t] = "unlock" /\ left[t] = 0
      <4>1. Printed >= 1
        BY <1>3, <3>1, <3>2
      <4>2. Len(Unsaved) \in Int
        BY <1>3, <1>5 DEF Index
      <4> QED BY <1>1, <1>3, <1>9, <2>2, <3>1, <4>1, <4>2
    <3>3. CASE NextHead = tail
      <4>1. tail = IF head = BufSize - 1 THEN 0 ELSE head + 1
        BY <1>3, <3>3, NextHeadIs
      <4>2. Len(Unsaved) = BufSize - 1
        BY <1>3, <1>5, <4>1, SizesAre DEF Index
      <4> QED BY <1>1, <1>3, <1>9, <2>2, <3>1, <4>2
    <3> QED BY <1>4, <3>2, <3>3
  <2> QED BY <2>1, <2>2
<1>12. size' \in Int
  <2>1. Len(Unsaved) \in Int
    BY <1>3, <1>5 DEF Index
  <2> QED BY <1>1, <1>3, <2>1
<1>13. size' < Limit
  BY <1>3, <1>9, <1>11, <1>12
<1>14. /\ Offset(head)' <= Printed'
       /\ size' >= FileSize => size' + Offset(head)' < Allowed' + Printed'
  BY <1>3, <1>6, <1>8, <1>10, <1>11, <1>12
<1>15. \A u \in Threads : pc'[u] \notin Flushing
  BY <1>1, <1>3, <1>4 DEF InLine, Flushing
<1> QED BY <1>1, <1>13, <1>14, <1>15 DEF Fresh

LEMMA UnlockFresh ==
  ASSUME Gapless, SizeInv, NEW t \in Threads, UnlockTrace(t)
  PROVE  Fresh'
<1> USE DEF Goto, control, ring, file, history
<1>0. /\ pc \in [Threads -> {"idle", "print", "put", "put_flushed", "flush", "flush_locked", "write",
                              "unlock", "size"} \cup Rotating]
      /\ NoThread \notin Threads
  BY DEF Gapless, TypeOK
<1>1. /\ pc[t] = "unlock" /\ pc'[t] = "size" /\ trace' = NoThread
      /\ UNCHANGED <<head, tail, open, size>>
      /\ \A u \in Threads : u # t => pc'[u] = pc[u]
  BY <1>0 DEF UnlockTrace
<1>2. pc[t] \in InLine
  BY <1>1 DEF InLine
<1>3. /\ Printed = LineLen - left[t]
      /\ \A u \in Threads : u # t => pc[u] \notin InLine
      /\ head \in Index /\ tail \in Index
      /\ size \in Int /\ LineLen \in Nat
  BY <1>2, LineTypes
<1>4. left[t] = 0 /\ Printed = LineLen /\ Printed' = 0
  <2>1. left[t] = 0
    BY <1>1 DEF SizeInv, InHand
  <2> QED BY <1>1, <1>3, <2>1 DEF Printed
<1> SUFFICES ASSUME open', size' > 0
             PROVE  /\ Offset(head)' <= Printed'
                    /\ \A u \in Threads : /\ pc'[u] \in Flushing => head' # tail'
                                          /\ pc'[u] \in {"put_flushed", "unlock"} => head' = tail'
                    /\ size' >= FileSize => size' + Offset(head)' < Allowed' + Printed'
  BY DEF Fresh
<1>5. head = tail /\ (size >= FileSize => size + Offset(head) < Allowed + Printed)
  BY <1>1 DEF SizeInv, Fresh
<1>6. Offset(head) = 0 /\ Offset(head)' = 0
  BY <1>1, <1>3, <1>5 DEF Offset, Index
<1>7. Spent \subseteq Spent' /\ t \in Spent' /\ t \notin Spent
  BY <1>1 DEF Spent, Waiting
<1>8. Allowed + LineLen <= Allowed' /\ Allowed \in Nat /\ Allowed' \in Nat
  BY <1>7, AllowedGrows, AllowedTypes
<1>9. ASSUME size' >= FileSize PROVE size' + Offset(head)' < Allowed' + Printed'
  <2>1. \A s, a, b, l \in Int : s + 0 < a + l /\ a + l <= b => s + 0 < b + 0
    OBVIOUS
  <2>2. size + 0 < Allowed + LineLen
    BY <1>1, <1>4, <1>5, <1>6, <1>9
  <2>3. size \in Int /\ Allowed \in Int /\ Allowed' \in Int /\ LineLen \in Int
    BY <1>3, <1>8
  <2>4. size + 0 < Allowed' + 0
    BY <1>8, <2>1, <2>2, <2>3
  <2> QED BY <1>1, <1>4, <1>6, <2>4
<1>10. \A u \in Threads : pc'[u] \notin Flushing /\ pc'[u] \notin {"put_flushed", "unlock"}
  BY <1>1, <1>3 DEF InLine, Flushing
<1> QED BY <1>4, <1>6, <1>9, <1>10

(* Every step keeps what is said of the buffer and the file.               *)
LEMMA FreshStep ==
  ASSUME Gapless, SizeInv, NEW t \in Threads, Thread(t)
  PROVE  Fresh'
<1>0. /\ pc \in [Threads -> {"idle", "print", "put", "put_flushed", "flush", "flush_locked", "write",
                              "unlock", "size"} \cup Rotating]
      /\ left \in [Threads -> 0 .. LineLen] /\ NoThread \notin Threads
      /\ TypeOK /\ Fresh
  BY DEF Gapless, TypeOK, SizeInv
<1> USE DEF Goto, control, ring, file, history
<1>1. ASSUME UNCHANGED <<head, tail, open, size>>, Printed' = Printed,
             \A u \in Threads : u # t => pc'[u] = pc[u],
             pc'[t] \in Flushing => pc[t] \in Flushing \/ head # tail,
             pc'[t] \notin {"put_flushed", "unlock"},
             size >= FileSize /\ open => (pc[t] \in Waiting => pc'[t] \in Waiting)
      PROVE  Fresh'
  <2>1. \A u \in Threads : pc'[u] \in Flushing => pc[u] \in Flushing \/ head # tail
    BY <1>1
  <2>2. \A u \in Threads : pc'[u] \in {"put_flushed", "unlock"} => pc[u] \in {"put_flushed", "unlock"}
    BY <1>1
  <2>3. size >= FileSize /\ open => Spent \subseteq Spent'
    BY <1>1 DEF Spent
  <2> QED BY <1>0, <1>1, <2>1, <2>2, <2>3, FreshKept
<1>2. ASSUME trace' = trace, left' = left PROVE Printed' = Printed
  BY <1>2 DEF Printed
<1>3. CASE TracePrintf(t)
  <2>1. /\ UNCHANGED <<head, tail, open, size, trace, left>> /\ pc[t] = "idle" /\ pc'[t] = "print"
        /\ \A u \in Threads : u # t => pc'[u] = pc[u]
    BY <1>0, <1>3 DEF TracePrintf
  <2> QED BY <1>1, <1>2, <2>1 DEF Flushing, Waiting
<1>4. CASE LockTrace(t)
  <2>1. /\ UNCHANGED <<head, tail, open, size>> /\ pc[t] = "print" /\ pc'[t] = "put"
        /\ trace = NoThread /\ trace' = t /\ left'[t] = LineLen
        /\ \A u \in Threads : u # t => pc'[u] = pc[u]
    BY <1>0, <1>4 DEF LockTrace
  <2>2. Printed = 0 /\ Printed' = LineLen - LineLen
    BY <1>0, <2>1 DEF Printed
  <2>3. Printed' = Printed
    BY <2>2, SizesAre
  <2> QED BY <1>1, <2>1, <2>3 DEF Flushing, Waiting
<1>5. CASE PutFull(t)
  <2>1. /\ UNCHANGED <<head, tail, open, size, trace, left>> /\ pc[t] = "put" /\ pc'[t] = "flush"
        /\ NextHead = tail
        /\ \A u \in Threads : u # t => pc'[u] = pc[u]
    BY <1>0, <1>5 DEF PutFull
  <2>2. head \in Index /\ NextHead = IF head = BufSize - 1 THEN 0 ELSE head + 1
    BY <1>0, TypesAre, NextHeadIs
  <2>3. head # tail
    BY <2>1, <2>2, SizesAre DEF Index
  <2> QED BY <1>1, <1>2, <2>1, <2>3 DEF Flushing, Waiting
<1>6. CASE Flush(t)
  <2>1. /\ UNCHANGED <<head, tail, open, size, trace, left>> /\ pc[t] = "flush"
        /\ open => pc'[t] = "flush_locked"
        /\ \A u \in Threads : u # t => pc'[u] = pc[u]
    BY <1>0, <1>6 DEF Flush
  <2>2. CASE open
    BY <1>1, <1>2, <2>1, <2>2 DEF Flushing, Waiting
  <2>3. CASE ~open
    BY <2>1, <2>3 DEF Fresh
  <2> QED BY <2>2, <2>3
<1>7. CASE LockFlush(t)
  <2>1. /\ UNCHANGED <<head, tail, open, size, trace, left>> /\ pc[t] = "flush_locked" /\ pc'[t] = "write"
        /\ \A u \in Threads : u # t => pc'[u] = pc[u]
    BY <1>0, <1>7 DEF LockFlush
  <2> QED BY <1>1, <1>2, <2>1 DEF Flushing, Waiting
<1>8. CASE WriteFails(t)
  <2>1. /\ UNCHANGED <<head, tail, open, size, trace, left>> /\ pc[t] = "write" /\ pc'[t] = "print"
        /\ \A u \in Threads : u # t => pc'[u] = pc[u]
    BY <1>0, <1>8 DEF WriteFails
  <2> QED BY <1>1, <1>2, <2>1 DEF Flushing, Waiting
<1>9. CASE Size(t)
  <2>1. /\ UNCHANGED <<head, tail, open, size, trace, left>> /\ pc[t] = "size"
        /\ pc'[t] \in {"rotate", "done", "idle"}
        /\ TooLarge => pc'[t] = "rotate"
        /\ \A u \in Threads : u # t => pc'[u] = pc[u]
    BY <1>0, <1>9 DEF Size
  <2> QED BY <1>1, <1>2, <2>1 DEF Flushing, Waiting, TooLarge
<1>10. CASE LockRotate(t)
  <2>1. /\ UNCHANGED <<head, tail, open, size, trace, left>> /\ pc[t] = "rotate" /\ pc'[t] = "close"
        /\ \A u \in Threads : u # t => pc'[u] = pc[u]
    BY <1>0, <1>10 DEF LockRotate, Rotating
  <2> QED BY <1>1, <1>2, <2>1 DEF Flushing, Waiting
<1>11. CASE CloseFile(t)
  BY <1>11 DEF CloseFile, Fresh
<1>12. CASE OpenFile(t)
  <2>1. ~open' \/ size' = 0
    BY <1>12 DEF OpenFile
  <2>2. ~(open' /\ size' > 0)
    BY <2>1
  <2> QED BY <2>2 DEF Fresh
<1>13. CASE UnlockRotate(t)
  <2>1. /\ UNCHANGED <<head, tail, open, size, trace, left>> /\ pc[t] = "done" /\ pc'[t] = "idle"
        /\ \A u \in Threads : u # t => pc'[u] = pc[u]
    BY <1>0, <1>13 DEF UnlockRotate
  <2> QED BY <1>1, <1>2, <2>1 DEF Flushing, Waiting
<1> QED BY <1>3, <1>4, <1>5, <1>6, <1>7, <1>8, <1>9, <1>10, <1>11, <1>12, <1>13,
           PutFresh, WriteFresh, UnlockFresh DEF Thread

(* Only a write makes a file larger, and a rotation makes it an older one. *)
LEMMA BoundedStep ==
  ASSUME Gapless, SizeInv, NEW t \in Threads, Thread(t)
  PROVE  Bounded'
<1> USE DEF control, ring, file, history
<1>0. /\ size < Limit /\ (\A i \in 1 .. NumFiles - 1 : rotated[i] < Limit)
      /\ rotated \in [1 .. NumFiles - 1 -> Nat \cup {NoFile}]
  BY DEF SizeInv, Bounded, Gapless, TypeOK
<1>1. Limit' = Limit
  BY DEF Limit
<1>2. CASE Write(t)
  <2>1. size' < Limit /\ rotated' = rotated
    BY <1>2, WriteFresh DEF Write
  <2> QED BY <1>0, <1>1, <2>1 DEF Bounded
<1>3. CASE OpenFile(t)
  <2>1. /\ rotated' = [i \in DOMAIN rotated |-> IF i = 1 THEN size ELSE rotated[i - 1]]
        /\ size' = 0 \/ size' = NoFile
    BY <1>3 DEF OpenFile
  <2>2. size' < Limit
    <3>1. Limit \in Nat /\ Limit > 0
      BY AllowedTypes, SizesAre
    <3> QED BY <2>1, <3>1 DEF NoFile
  <2>3. ASSUME NEW i \in 1 .. NumFiles - 1 PROVE rotated'[i] < Limit
    <3>1. rotated'[i] = IF i = 1 THEN size ELSE rotated[i - 1]
      BY <1>0, <2>1
    <3>2. i # 1 => i - 1 \in 1 .. NumFiles - 1
      BY SizesAre
    <3> QED BY <1>0, <3>1, <3>2
  <2> QED BY <1>1, <2>2, <2>3 DEF Bounded
<1>4. ASSUME ~Write(t), ~OpenFile(t) PROVE size' = size /\ rotated' = rotated
  <2>1. CASE TracePrintf(t) \/ LockTrace(t) \/ PutChar(t) \/ PutFull(t) \/ Flush(t) \/ LockFlush(t)
    BY <2>1 DEF TracePrintf, LockTrace, PutChar, PutFull, Flush, LockFlush
  <2>2. CASE WriteFails(t) \/ UnlockTrace(t) \/ Size(t) \/ LockRotate(t) \/ CloseFile(t) \/ UnlockRotate(t)
    BY <2>2 DEF WriteFails, UnlockTrace, Size, LockRotate, CloseFile, UnlockRotate
  <2> QED BY <1>4, <2>1, <2>2 DEF Thread
<1>5. CASE ~Write(t) /\ ~OpenFile(t)
  BY <1>0, <1>1, <1>4, <1>5 DEF Bounded
<1> QED BY <1>2, <1>3, <1>5

(* The file is empty to begin with, and nobody prints.                     *)
LEMMA InitSizeInv == Init => SizeInv
<1> SUFFICES ASSUME Init PROVE SizeInv
  OBVIOUS
<1>1. size = 0 /\ (\A t \in Threads : pc[t] = "idle") /\ trace = NoThread
      /\ rotated = [i \in 1 .. NumFiles - 1 |-> NoFile]
  BY DEF Init
<1>2. Limit \in Nat /\ Limit > 0
  BY AllowedTypes, SizesAre
<1>3. Bounded
  BY <1>1, <1>2 DEF Bounded, NoFile
<1>4. Fresh
  BY <1>1 DEF Fresh
<1>5. \A t \in Threads : InHand(t)
  BY <1>1 DEF InHand, Flushing
<1> QED BY <1>3, <1>4, <1>5 DEF SizeInv

LEMMA SizeInvStep ==
  ASSUME Gapless, SizeInv, [Next]_vars
  PROVE  SizeInv'
<1>1. CASE Next
  <2>1. PICK t \in Threads : Thread(t)
    BY <1>1 DEF Next
  <2>2. \A u \in Threads : InHand(u)'
    BY <2>1, InHandStep DEF SizeInv
  <2> QED BY <2>1, <2>2, FreshStep, BoundedStep DEF SizeInv
<1>2. CASE UNCHANGED vars
  <2>1. UNCHANGED <<pc, left, after, trace, head, tail, open, size, rotated>>
    BY <1>2 DEF vars, control, ring, file
  <2>2. \A u \in Threads : InHand(u)'
    BY <2>1 DEF SizeInv, InHand, NextHead
  <2>3. Fresh'
    <3>1. Offset(head)' = Offset(head) /\ Printed' = Printed /\ Allowed' = Allowed
      BY <2>1 DEF Offset, Printed, Allowed, Spent
    <3> QED BY <2>1, <3>1 DEF SizeInv, Fresh
  <2>4. Bounded'
    BY <2>1 DEF SizeInv, Bounded, Limit
  <2> QED BY <2>2, <2>3, <2>4 DEF SizeInv
<1> QED BY <1>1, <1>2

(* However the threads' lines, writes and rotations interleave, no file    *)
(* grows beyond its size by more than a line of each thread, although its  *)
(* size is looked at without a mutex and only after a line.                *)
THEOREM SizeBounded == Spec => []FileBounded
<1>1. Gapless /\ SizeInv => FileBounded
  <2> SUFFICES ASSUME Gapless, SizeInv PROVE FileBounded
    OBVIOUS
  <2>1. /\ size < Limit /\ (\A i \in 1 .. NumFiles - 1 : rotated[i] < Limit)
        /\ DOMAIN rotated = 1 .. NumFiles - 1
    BY DEF SizeInv, Bounded, Gapless, TypeOK
  <2>2. \A n \in {size} \cup Range(rotated) : n < Limit
    BY <2>1 DEF Range
  <2> QED BY <2>2 DEF FileBounded, Limit
<1>2. Spec => []Gapless
  BY GaplessInductive
<1>3. Init => SizeInv
  BY InitSizeInv
<1>4. Gapless /\ SizeInv /\ [Next]_vars => SizeInv'
  BY SizeInvStep
<1> QED BY <1>1, <1>2, <1>3, <1>4, PTL DEF Spec
=============================================================================
