----------------------------- MODULE AsioProof -----------------------------
(***************************************************************************)
(* Proofs about the two machines of MCAsio.                                *)
(*                                                                         *)
(* RingBuffer, for any number of threads, any size of the ring and any     *)
(* minima that Start allows.  The inductive invariant RingInv says where   *)
(* each of the two chains is: in flight, ended, or in the hands of one     *)
(* thread (Chains); that what this thread knows of the word, which the     *)
(* other chain may have changed since, is on the safe side (Snapshots);    *)
(* which bytes the ring holds (Stream); what the count counts (Counted).   *)
(*                                                                         *)
(* IoObject, for any users, pool threads, timers and calls.  The inductive *)
(* invariant ObjectInv is the books of the object: its count, the holders  *)
(* of its handle, the operations the pool expects, and the count of each   *)
(* timer are the numbers of the tasks on the stacks that will give them    *)
(* back, of the requests and of the pointers (ObjectRefs, HandleRefs,      *)
(* TimerRefs); each task that uses the object or a timer has below it on   *)
(* its stack the task that still owns a reference (Backing); and where the *)
(* one call of OnTimer is on its way (Timeouts, Callback).                 *)
(***************************************************************************)
EXTENDS MCAsio, SequenceTheorems, FiniteSetTheorems, TLAPS

\* The threads that will have the next write begin, or have a completed one in hand.
Writers == {t \in Threads :
    \/ pc[t] = "EndWrite"
    \/ pc[t] \in {"Start", "w:ReadAsync", "w:WriteAsync", "r:WriteAsync"} /\ CanWrite(size1[t])}

\* And the same for the reads.
Readers == {t \in Threads :
    \/ pc[t] = "EndRead"
    \/ pc[t] \in {"w:ReadAsync", "r:WriteAsync", "r:ReadAsync"} /\ CanRead(size1[t])}

\* A chain is in one place at most, and in some place while it can go on.
Held(can, flying, ended, S) ==
    /\ can <=> flying \/ ended \/ S # {}
    /\ flying => ~ended /\ S = {}
    /\ ended => S = {}
    /\ \A t, u \in S : t = u

Chains ==
    /\ Held(CanRead(dataSize), reading, "read" \in over, Readers)
    /\ Held(CanWrite(dataSize), writing, "write" \in over, Writers)

\* What the holder of a chain knows of the word is still good enough.
ReadKnows(t) ==
    IF pc[t] = "EndRead" THEN bytes[t] <= dataSize
    ELSE offset1[t] = readOffset /\ size1[t] <= dataSize
WriteKnows(t) ==
    IF pc[t] = "EndWrite" THEN bytes[t] <= Size - dataSize
    ELSE Wrap(offset1[t] + size1[t]) = Wrap(readOffset + dataSize) /\ dataSize <= size1[t]

Snapshots ==
    /\ reading => readAt = readOffset /\ readLen <= dataSize
    /\ writing => writeAt = Wrap(readOffset + dataSize) /\ writeLen <= Size - dataSize
    /\ \A t \in Readers : ReadKnows(t)
    /\ \A t \in Writers : WriteKnows(t)

\* The bytes of the ring that are data are the next ones of the stream.
Stream == \A c \in Cells : Dist(readOffset, c) < dataSize => mem[c] = out + Dist(readOffset, c)

\* The count is that of the operations in flight, the threads inside and the owner.
One(b) == IF b THEN 1 ELSE 0
Counted ==
    /\ ioCount = One(~asked) + One(reading) + One(writing) + Cardinality(Inside)
    /\ stops = One(ioCount = 0)
    /\ asked => \A t \in Threads : pc[t] # "Start"

RingInv == TypeOK /\ Chains /\ Snapshots /\ Stream /\ Counted

-----------------------------------------------------------------------------
LEMMA Sizes ==
    /\ Size \in Nat /\ Size >= 1 /\ MinRead \in Nat /\ MinRead >= 1
    /\ MinWrite \in Nat /\ MinWrite >= 1 /\ MinRead <= Size /\ MinWrite <= Size
    /\ 0 \in Cells /\ 0 \in 0 .. Size
<1>1. Size \in Nat /\ MinRead \in Nat \ {0} /\ MinWrite \in Nat \ {0} /\ MinRead + MinWrite <= Size + 1
  BY SizeAssumption
<1> QED
  BY <1>1 DEF Cells

LEMMA WrapType == \A a \in Cells : \A n \in 0 .. Size : Wrap(a + n) \in Cells
  BY Sizes DEF Wrap, Cells

\* Taking n bytes out moves the data's begin, not its end.
LEMMA WrapSame ==
    ASSUME NEW a \in Cells, NEW d \in 0 .. Size, NEW n \in 0 .. d
    PROVE  Wrap(Wrap(a + n) + (d - n)) = Wrap(a + d)
  BY Sizes DEF Wrap, Cells

\* Behind the offset by n, a cell is nearer by n.
LEMMA DistMoved ==
    ASSUME NEW a \in Cells, NEW n \in 0 .. Size, NEW c \in Cells
    PROVE  IF n <= Dist(a, c) THEN Dist(Wrap(a + n), c) = Dist(a, c) - n
                              ELSE Dist(Wrap(a + n), c) = Dist(a, c) - n + Size
  BY Sizes DEF Wrap, Cells, Dist

LEMMA DistType == \A a, c \in Cells : Dist(a, c) \in Nat /\ Dist(a, c) < Size
  BY Sizes DEF Dist, Cells

\* The data and the free room have no cell in common.
LEMMA PartsDisjoint ==
    ASSUME NEW a \in Cells, NEW d \in 0 .. Size, NEW r \in 0 .. d, NEW w \in 0 .. Size - d
    PROVE  Part(a, r) \cap Part(Wrap(a + d), w) = {}
<1> SUFFICES ASSUME NEW c \in Cells, Dist(a, c) < r, Dist(Wrap(a + d), c) < w PROVE FALSE
  BY DEF Part
<1>1. Dist(a, c) \in Nat /\ r \in Int /\ d \in Int /\ w \in Int /\ r <= d /\ w <= Size - d
  BY DistType, Sizes
<1>2. Dist(Wrap(a + d), c) = Dist(a, c) - d + Size
  BY <1>1, DistMoved
<1> QED
  BY <1>1, <1>2, Sizes

-----------------------------------------------------------------------------
LEMMA RingInitInv == Init => RingInv
<1> SUFFICES ASSUME Init PROVE RingInv
  OBVIOUS
<1> USE DEF Init
<1>1. PICK s \in Threads : pc = [t \in Threads |-> IF t = s THEN "Start" ELSE "idle"]
  OBVIOUS
<1>2. TypeOK
  BY <1>1, Sizes DEF TypeOK
<1>3. Readers = {} /\ Inside = {}
  BY <1>1 DEF Readers, Inside, EndWritePcs, EndReadPcs
<1>4. CanWrite(0) /\ ~CanRead(0)
  BY Sizes DEF CanWrite, CanRead
<1>5. Writers = {s}
  BY <1>1, <1>4 DEF Writers
<1>6. Chains
  BY <1>3, <1>4, <1>5 DEF Chains, Held
<1>7. Snapshots
  BY <1>1, <1>3, <1>5, Sizes DEF Snapshots, WriteKnows
<1>8. Stream
  BY DistType, Sizes DEF Stream
<1>9. Counted
  BY <1>3, FS_EmptySet DEF Counted, One
<1> QED
  BY <1>2, <1>6, <1>7, <1>8, <1>9 DEF RingInv

\* The threads inside, when one goes in or out.
LEMMA InsideFinite == IsFiniteSet(Inside) /\ Cardinality(Inside) \in Nat
<1>1. Inside \subseteq Threads
  BY DEF Inside
<1> QED
  BY <1>1, ThreadsAssumption, FS_Subset, FS_CardinalityType

\* ReadAsync by a thread that has the chain of the reads in its hands if the word
\* it knows can be read.
LEMMA ReadBegins ==
    ASSUME RingInv, NEW t \in Threads, ReadAsync(t), NEW l \in {"w:WriteAsync", "EndIo"},
           pc[t] = IF l = "EndIo" THEN "r:ReadAsync" ELSE "w:ReadAsync",
           pc' = [pc EXCEPT ![t] = l],
           UNCHANGED <<word, locals, write, asked, stops, mem, out>>
    PROVE  RingInv'
<1>0. TypeOK /\ Chains /\ Snapshots /\ Stream /\ Counted
  BY DEF RingInv
<1>1. pc'[t] = l /\ \A u \in Threads \ {t} : pc'[u] = pc[u]
  BY <1>0 DEF TypeOK
<1>2. /\ UNCHANGED <<readOffset, dataSize, bytes, offset1, size1, writing, writeAt, writeLen>>
      /\ UNCHANGED <<asked, stops, mem, out>>
  BY DEF word, locals, write
<1>3. Readers' = Readers \ {t} /\ Writers' = Writers /\ Inside' = Inside
  <2>1. \A u \in Threads : CanRead(size1[u])' = CanRead(size1[u]) /\ CanWrite(size1[u])' = CanWrite(size1[u])
    BY <1>2 DEF CanRead, CanWrite
  <2>2. Readers' = Readers \ {t}
    BY <1>1, <1>2, <2>1 DEF Readers
  <2>3. Writers' = Writers
    BY <1>1, <1>2, <2>1 DEF Writers
  <2>4. Inside' = Inside
    BY <1>1 DEF Inside, EndWritePcs, EndReadPcs
  <2> QED
    BY <2>2, <2>3, <2>4
<1>4. t \in Readers <=> CanRead(size1[t])
  BY DEF Readers
<1>5. t \in Readers => offset1[t] = readOffset /\ size1[t] <= dataSize /\ ~reading /\ "read" \notin over
  BY <1>0 DEF Snapshots, ReadKnows, Chains, Held
<1>6. CASE /\ CanRead(size1[t])
           /\ reading' = TRUE /\ readAt' = offset1[t] /\ readLen' = size1[t]
           /\ ioCount' = ioCount + 1 /\ over' = over
  <2>1. TypeOK'
    BY <1>0, <1>2, <1>6 DEF TypeOK, EndWritePcs, EndReadPcs
  <2>2. Chains'
    BY <1>0, <1>2, <1>3, <1>4, <1>6 DEF Chains, Held, CanRead, CanWrite
  <2>3. Snapshots'
    BY <1>0, <1>1, <1>2, <1>3, <1>4, <1>5, <1>6 DEF Snapshots, ReadKnows, WriteKnows, Readers, Writers
  <2>4. Stream'
    BY <1>0, <1>2 DEF Stream
  <2>5. Counted'
    <3>1. ioCount >= 1
      <4>1. t \in Inside
        BY DEF Inside, EndWritePcs, EndReadPcs
      <4>2. Cardinality(Inside) # 0
        BY <4>1, InsideFinite, FS_EmptySet
      <4> QED
        BY <1>0, <4>2, InsideFinite DEF Counted, One
    <3> QED
      BY <1>0, <1>1, <1>2, <1>3, <1>4, <1>5, <1>6, <3>1, InsideFinite DEF Counted, One, TypeOK
  <2> QED
    BY <2>1, <2>2, <2>3, <2>4, <2>5 DEF RingInv
<1>7. CASE \/ /\ CanRead(size1[t]) /\ over' = over \cup {"read"}
              /\ UNCHANGED <<reading, readAt, readLen, ioCount>>
           \/ ~CanRead(size1[t]) /\ UNCHANGED <<reading, readAt, readLen, ioCount, over>>
  <2>1. TypeOK'
    BY <1>0, <1>2, <1>7 DEF TypeOK, EndWritePcs, EndReadPcs
  <2>2. Chains'
    BY <1>0, <1>2, <1>3, <1>4, <1>5, <1>7 DEF Chains, Held, CanRead, CanWrite
  <2>3. Snapshots'
    BY <1>0, <1>1, <1>2, <1>3, <1>7 DEF Snapshots, ReadKnows, WriteKnows, Readers, Writers
  <2>4. Stream'
    BY <1>0, <1>2 DEF Stream
  <2>5. Counted'
    BY <1>0, <1>1, <1>2, <1>3, <1>7 DEF Counted, One
  <2> QED
    BY <2>1, <2>2, <2>3, <2>4, <2>5 DEF RingInv
<1> QED
  BY <1>6, <1>7 DEF ReadAsync, read

\* WriteAsync, in the same way; also that of Start.
LEMMA WriteBegins ==
    ASSUME RingInv, NEW t \in Threads, WriteAsync(t), NEW l \in {"idle", "EndIo", "r:ReadAsync"},
           pc[t] = IF l = "idle" THEN "Start"
                   ELSE IF l = "EndIo" THEN "w:WriteAsync" ELSE "r:WriteAsync",
           pc' = [pc EXCEPT ![t] = l],
           UNCHANGED <<word, locals, read, asked, stops, mem, out>>
    PROVE  RingInv'
<1>0. TypeOK /\ Chains /\ Snapshots /\ Stream /\ Counted
  BY DEF RingInv
<1>1. pc'[t] = l /\ \A u \in Threads \ {t} : pc'[u] = pc[u]
  BY <1>0 DEF TypeOK
<1>2. /\ UNCHANGED <<readOffset, dataSize, bytes, offset1, size1, reading, readAt, readLen>>
      /\ UNCHANGED <<asked, stops, mem, out>>
  BY DEF word, locals, read
<1>3. Readers' = Readers /\ Writers' = Writers \ {t} /\ Inside' = Inside
  <2>1. \A u \in Threads : CanRead(size1[u])' = CanRead(size1[u]) /\ CanWrite(size1[u])' = CanWrite(size1[u])
    BY <1>2 DEF CanRead, CanWrite
  <2>2. Readers' = Readers
    BY <1>1, <1>2, <2>1 DEF Readers
  <2>3. Writers' = Writers \ {t}
    BY <1>1, <1>2, <2>1 DEF Writers
  <2>4. Inside' = Inside
    BY <1>1 DEF Inside, EndWritePcs, EndReadPcs
  <2> QED
    BY <2>2, <2>3, <2>4
<1>4. t \in Writers <=> CanWrite(size1[t])
  BY DEF Writers
<1>5. t \in Writers =>
        /\ Wrap(offset1[t] + size1[t]) = Wrap(readOffset + dataSize) /\ dataSize <= size1[t]
        /\ ~writing /\ "write" \notin over
  BY <1>0 DEF Snapshots, WriteKnows, Chains, Held
<1>6. CASE /\ CanWrite(size1[t])
           /\ writing' = TRUE
           /\ writeAt' = Wrap(offset1[t] + size1[t]) /\ writeLen' = Size - size1[t]
           /\ ioCount' = ioCount + 1 /\ over' = over
  <2>1. TypeOK'
    <3>0. offset1[t] \in Cells /\ size1[t] \in 0 .. Size
      BY <1>0 DEF TypeOK
    <3>1. Wrap(offset1[t] + size1[t]) \in Cells /\ Size - size1[t] \in 0 .. Size
      BY <3>0, WrapType, Sizes
    <3> QED
      BY <1>0, <1>2, <1>6, <3>1 DEF TypeOK, EndWritePcs, EndReadPcs
  <2>2. Chains'
    BY <1>0, <1>2, <1>3, <1>4, <1>6 DEF Chains, Held, CanRead, CanWrite
  <2>3. Snapshots'
    <3>1. Size - size1[t] <= Size - dataSize
      BY <1>0, <1>4, <1>5, <1>6, Sizes DEF TypeOK
    <3> QED
      BY <1>0, <1>1, <1>2, <1>3, <1>4, <1>5, <1>6, <3>1
      DEF Snapshots, ReadKnows, WriteKnows, Readers, Writers
  <2>4. Stream'
    BY <1>0, <1>2 DEF Stream
  <2>5. Counted'
    <3>1. ioCount >= 1
      <4>1. CASE l = "idle"
        BY <1>0, <4>1, InsideFinite DEF Counted, One
      <4>2. CASE l # "idle"
        <5>1. t \in Inside
          BY <4>2 DEF Inside, EndWritePcs, EndReadPcs
        <5>2. Cardinality(Inside) # 0
          BY <5>1, InsideFinite, FS_EmptySet
        <5> QED
          BY <1>0, <5>2, InsideFinite DEF Counted, One
      <4> QED
        BY <4>1, <4>2
    <3> QED
      BY <1>0, <1>1, <1>2, <1>3, <1>4, <1>5, <1>6, <3>1, InsideFinite DEF Counted, One, TypeOK
  <2> QED
    BY <2>1, <2>2, <2>3, <2>4, <2>5 DEF RingInv
<1>7. CASE \/ /\ CanWrite(size1[t]) /\ over' = over \cup {"write"}
              /\ UNCHANGED <<writing, writeAt, writeLen, ioCount>>
           \/ ~CanWrite(size1[t]) /\ UNCHANGED <<writing, writeAt, writeLen, ioCount, over>>
  <2>1. TypeOK'
    BY <1>0, <1>2, <1>7 DEF TypeOK, EndWritePcs, EndReadPcs
  <2>2. Chains'
    BY <1>0, <1>2, <1>3, <1>4, <1>5, <1>7 DEF Chains, Held, CanRead, CanWrite
  <2>3. Snapshots'
    BY <1>0, <1>1, <1>2, <1>3, <1>7 DEF Snapshots, ReadKnows, WriteKnows, Readers, Writers
  <2>4. Stream'
    BY <1>0, <1>2 DEF Stream
  <2>5. Counted'
    BY <1>0, <1>1, <1>2, <1>3, <1>7 DEF Counted, One
  <2> QED
    BY <2>1, <2>2, <2>3, <2>4, <2>5 DEF RingInv
<1> QED
  BY <1>6, <1>7 DEF WriteAsync, write

\* A completed operation: its chain is in the hands of the thread that was told.
LEMMA WriteCompletesInv == ASSUME RingInv, NEW t \in Threads, WriteCompletes(t) PROVE RingInv'
<1>0. TypeOK /\ Chains /\ Snapshots /\ Stream /\ Counted
  BY DEF RingInv
<1>1. pc[t] = "idle" /\ pc' = [pc EXCEPT ![t] = "EndWrite"] /\ writing /\ writing' = FALSE
  BY DEF WriteCompletes, Goto
<1>2. /\ UNCHANGED <<readOffset, dataSize, ioCount, offset1, size1, reading, readAt, readLen>>
      /\ UNCHANGED <<writeAt, writeLen, over, asked, stops, mem, out>>
  BY DEF WriteCompletes, word, read
<1>3. PICK n \in 0 .. writeLen : bytes' = [bytes EXCEPT ![t] = n]
  BY DEF WriteCompletes
<1>4. pc'[t] = "EndWrite" /\ \A u \in Threads \ {t} : pc'[u] = pc[u]
  BY <1>0, <1>1 DEF TypeOK
<1>5. n \in 0 .. Size /\ n <= Size - dataSize
  BY <1>0, <1>1, <1>3, Sizes DEF TypeOK, Snapshots
<1>6. bytes'[t] = n /\ \A u \in Threads \ {t} : bytes'[u] = bytes[u]
  BY <1>0, <1>3 DEF TypeOK
<1>7. Readers' = Readers /\ Writers' = Writers \cup {t} /\ Writers = {} /\ "write" \notin over
  <2>1. \A u \in Threads : CanRead(size1[u])' = CanRead(size1[u]) /\ CanWrite(size1[u])' = CanWrite(size1[u])
    BY <1>2 DEF CanRead, CanWrite
  <2>2. Readers' = Readers
    BY <1>1, <1>2, <1>4, <2>1 DEF Readers
  <2>3. Writers' = Writers \cup {t}
    BY <1>1, <1>2, <1>4, <2>1 DEF Writers
  <2> QED
    BY <1>0, <1>1, <2>2, <2>3 DEF Chains, Held
<1>8. Inside' = Inside \cup {t} /\ t \notin Inside
  BY <1>1, <1>4 DEF Inside, EndWritePcs, EndReadPcs
<1>9. TypeOK'
  BY <1>0, <1>1, <1>2, <1>3, <1>5 DEF TypeOK, EndWritePcs, EndReadPcs
<1>10. Chains'
  BY <1>0, <1>1, <1>2, <1>7 DEF Chains, Held, CanRead, CanWrite
<1>11. Snapshots'
  BY <1>0, <1>1, <1>2, <1>4, <1>5, <1>6, <1>7 DEF Snapshots, ReadKnows, WriteKnows, Readers, Writers
<1>12. Stream'
  BY <1>0, <1>2 DEF Stream
<1>13. Counted'
  <2>1. Cardinality(Inside') = Cardinality(Inside) + 1
    BY <1>8, InsideFinite, FS_AddElement
  <2> QED
    BY <1>0, <1>1, <1>2, <1>4, <2>1, InsideFinite DEF Counted, One, TypeOK
<1> QED
  BY <1>9, <1>10, <1>11, <1>12, <1>13 DEF RingInv

LEMMA ReadCompletesInv == ASSUME RingInv, NEW t \in Threads, ReadCompletes(t) PROVE RingInv'
<1>0. TypeOK /\ Chains /\ Snapshots /\ Stream /\ Counted
  BY DEF RingInv
<1>1. pc[t] = "idle" /\ pc' = [pc EXCEPT ![t] = "EndRead"] /\ reading /\ reading' = FALSE
  BY DEF ReadCompletes, Goto
<1>2. /\ UNCHANGED <<readOffset, dataSize, ioCount, offset1, size1, writing, writeAt, writeLen>>
      /\ UNCHANGED <<readAt, readLen, over, asked, stops, mem, out>>
  BY DEF ReadCompletes, word, write
<1>3. PICK n \in 0 .. readLen : bytes' = [bytes EXCEPT ![t] = n]
  BY DEF ReadCompletes
<1>4. pc'[t] = "EndRead" /\ \A u \in Threads \ {t} : pc'[u] = pc[u]
  BY <1>0, <1>1 DEF TypeOK
<1>5. n \in 0 .. Size /\ n <= dataSize
  BY <1>0, <1>1, <1>3, Sizes DEF TypeOK, Snapshots
<1>6. bytes'[t] = n /\ \A u \in Threads \ {t} : bytes'[u] = bytes[u]
  BY <1>0, <1>3 DEF TypeOK
<1>7. Writers' = Writers /\ Readers' = Readers \cup {t} /\ Readers = {} /\ "read" \notin over
  <2>1. \A u \in Threads : CanRead(size1[u])' = CanRead(size1[u]) /\ CanWrite(size1[u])' = CanWrite(size1[u])
    BY <1>2 DEF CanRead, CanWrite
  <2>2. Writers' = Writers
    BY <1>1, <1>2, <1>4, <2>1 DEF Writers
  <2>3. Readers' = Readers \cup {t}
    BY <1>1, <1>2, <1>4, <2>1 DEF Readers
  <2> QED
    BY <1>0, <1>1, <2>2, <2>3 DEF Chains, Held
<1>8. Inside' = Inside \cup {t} /\ t \notin Inside
  BY <1>1, <1>4 DEF Inside, EndWritePcs, EndReadPcs
<1>9. TypeOK'
  BY <1>0, <1>1, <1>2, <1>3, <1>5 DEF TypeOK, EndWritePcs, EndReadPcs
<1>10. Chains'
  BY <1>0, <1>1, <1>2, <1>7 DEF Chains, Held, CanRead, CanWrite
<1>11. Snapshots'
  BY <1>0, <1>1, <1>2, <1>4, <1>5, <1>6, <1>7 DEF Snapshots, ReadKnows, WriteKnows, Readers, Writers
<1>12. Stream'
  BY <1>0, <1>2 DEF Stream
<1>13. Counted'
  <2>1. Cardinality(Inside') = Cardinality(Inside) + 1
    BY <1>8, InsideFinite, FS_AddElement
  <2> QED
    BY <1>0, <1>1, <1>2, <1>4, <2>1, InsideFinite DEF Counted, One, TypeOK
<1> QED
  BY <1>9, <1>10, <1>11, <1>12, <1>13 DEF RingInv

-----------------------------------------------------------------------------
\* Both ends of a chain without a byte: EndWrite(0) and EndRead(0).
LEMMA ChainEnds ==
    ASSUME RingInv, NEW t \in Threads, pc' = [pc EXCEPT ![t] = "EndIo"],
           \/ pc[t] = "EndWrite" /\ over' = over \cup {"write"}
           \/ pc[t] = "EndRead" /\ over' = over \cup {"read"},
           UNCHANGED <<word, ioCount, locals, read, write, asked, stops, mem, out>>
    PROVE  RingInv'
<1>0. TypeOK /\ Chains /\ Snapshots /\ Stream /\ Counted
  BY DEF RingInv
<1>1. pc'[t] = "EndIo" /\ \A u \in Threads \ {t} : pc'[u] = pc[u]
  BY <1>0 DEF TypeOK
<1>2. /\ UNCHANGED <<readOffset, dataSize, ioCount, bytes, offset1, size1, reading, readAt, readLen>>
      /\ UNCHANGED <<writing, writeAt, writeLen, asked, stops, mem, out>>
  BY DEF word, locals, read, write
<1>3. Readers' = Readers \ {t} /\ Writers' = Writers \ {t} /\ Inside' = Inside
  <2>1. \A u \in Threads : CanRead(size1[u])' = CanRead(size1[u]) /\ CanWrite(size1[u])' = CanWrite(size1[u])
    BY <1>2 DEF CanRead, CanWrite
  <2>2. Readers' = Readers \ {t}
    BY <1>1, <1>2, <2>1 DEF Readers
  <2>3. Writers' = Writers \ {t}
    BY <1>1, <1>2, <2>1 DEF Writers
  <2>4. Inside' = Inside
    BY <1>1 DEF Inside, EndWritePcs, EndReadPcs
  <2> QED
    BY <2>2, <2>3, <2>4
<1>4. /\ pc[t] = "EndWrite" => t \in Writers /\ t \notin Readers
      /\ pc[t] = "EndRead" => t \in Readers /\ t \notin Writers
  BY DEF Readers, Writers
<1>5. TypeOK'
  BY <1>0, <1>2 DEF TypeOK, EndWritePcs, EndReadPcs
<1>6. Chains'
  BY <1>0, <1>2, <1>3, <1>4 DEF Chains, Held, CanRead, CanWrite
<1>7. Snapshots'
  BY <1>0, <1>1, <1>2, <1>3 DEF Snapshots, ReadKnows, WriteKnows, Readers, Writers
<1>8. Stream'
  BY <1>0, <1>2 DEF Stream
<1>9. Counted'
  BY <1>0, <1>1, <1>2, <1>3 DEF Counted, One
<1> QED
  BY <1>5, <1>6, <1>7, <1>8, <1>9 DEF RingInv

LEMMA EndWriteInv == ASSUME RingInv, NEW t \in Threads, EndWrite(t) PROVE RingInv'
<1>0. TypeOK /\ Chains /\ Snapshots /\ Stream /\ Counted
  BY DEF RingInv
<1>1. pc[t] = "EndWrite" /\ t \in Writers /\ t \notin Readers
  BY DEF EndWrite, Writers, Readers
<1>2. CASE bytes[t] = 0
  <2>1. /\ over' = over \cup {"write"} /\ pc' = [pc EXCEPT ![t] = "EndIo"]
        /\ UNCHANGED <<word, ioCount, locals, read, write, asked, stops, mem, out>>
    BY <1>2 DEF EndWrite, Goto, word, locals
  <2> QED
    BY <1>1, <2>1, ChainEnds
<1>3. CASE bytes[t] # 0
  <2> DEFINE n == bytes[t]  e == dataSize + n
             l == IF CanRead(dataSize) THEN "w:WriteAsync" ELSE "w:ReadAsync"
  <2>1. /\ dataSize' = e /\ pc' = [pc EXCEPT ![t] = l]
        /\ offset1' = [offset1 EXCEPT ![t] = readOffset] /\ size1' = [size1 EXCEPT ![t] = e]
        /\ mem' = [c \in Cells |-> IF c \in Part(Wrap(readOffset + dataSize), n)
                                   THEN out + Dist(readOffset, c) ELSE mem[c]]
        /\ UNCHANGED <<readOffset, ioCount, bytes, reading, readAt, readLen>>
        /\ UNCHANGED <<writing, writeAt, writeLen, over, asked, stops, out>>
    BY <1>3 DEF EndWrite, Goto, read, write
  <2>2. /\ dataSize \in 0 .. Size /\ readOffset \in Cells /\ out \in Nat
        /\ n \in 0 .. Size - dataSize /\ e \in 0 .. Size /\ dataSize <= e
    <3>1. dataSize \in 0 .. Size /\ n \in 0 .. Size /\ readOffset \in Cells /\ out \in Nat
      BY <1>0 DEF TypeOK
    <3>2. n <= Size - dataSize
      BY <1>0, <1>1 DEF Snapshots, WriteKnows
    <3> QED
      BY <3>1, <3>2, Sizes
  <2>3. pc'[t] = l /\ offset1'[t] = readOffset /\ size1'[t] = e
    BY <1>0, <2>1 DEF TypeOK
  <2>4. \A u \in Threads \ {t} : pc'[u] = pc[u] /\ offset1'[u] = offset1[u] /\ size1'[u] = size1[u]
    BY <1>0, <2>1 DEF TypeOK
  <2>5. Writers = {t} /\ ~writing /\ "write" \notin over /\ CanWrite(dataSize)
    BY <1>0, <1>1 DEF Chains, Held
  <2>6. CanRead(dataSize) => CanRead(e)
    BY <2>2, Sizes DEF CanRead
  <2> HIDE DEF e, n
  <2>7. Writers' = IF CanWrite(e) THEN {t} ELSE {}
    <3>1. \A u \in Threads \ {t} : u \in Writers' <=> u \in Writers
      BY <2>1, <2>4 DEF Writers, CanWrite
    <3>2. t \in Writers' <=> CanWrite(e)
      BY <2>3 DEF Writers, CanWrite
    <3> QED
      BY <2>5, <3>1, <3>2 DEF Writers
  <2>8. Readers' = IF ~CanRead(dataSize) /\ CanRead(e) THEN Readers \cup {t} ELSE Readers
    <3>1. \A u \in Threads \ {t} : u \in Readers' <=> u \in Readers
      BY <2>1, <2>4 DEF Readers, CanRead
    <3>2. t \in Readers' <=> ~CanRead(dataSize) /\ CanRead(e)
      BY <2>3 DEF Readers, CanRead
    <3> QED
      BY <1>1, <3>1, <3>2 DEF Readers
  <2>9. CanRead(dataSize)' = CanRead(e) /\ CanWrite(dataSize)' = CanWrite(e)
    BY <2>1 DEF CanRead, CanWrite
  <2>10. TypeOK'
    <3>1. mem' \in [Cells -> Nat]
      BY <1>0, <2>1, <2>2, DistType DEF TypeOK
    <3> QED
      BY <1>0, <2>1, <2>2, <3>1 DEF TypeOK, EndWritePcs, EndReadPcs
  <2>11. Chains'
    BY <1>0, <2>1, <2>5, <2>6, <2>7, <2>8, <2>9 DEF Chains, Held
  <2>12. Snapshots'
    <3>1. reading' => readAt' = readOffset' /\ readLen' <= dataSize'
      BY <1>0, <2>1, <2>2, Sizes DEF Snapshots, TypeOK
    <3>2. \A u \in Readers' : ReadKnows(u)'
      <4> SUFFICES ASSUME NEW u \in Readers' PROVE ReadKnows(u)'
        OBVIOUS
      <4>1. CASE u = t
        BY <2>1, <2>2, <2>3, <4>1, Sizes DEF ReadKnows
      <4>2. CASE u # t
        <5>1. u \in Readers /\ u \in Threads
          BY <2>8, <4>2 DEF Readers
        <5>2. bytes[u] \in 0 .. Size /\ size1[u] \in 0 .. Size
          BY <1>0, <5>1 DEF TypeOK
        <5>3. ReadKnows(u)
          BY <1>0, <5>1 DEF Snapshots
        <5> QED
          BY <2>1, <2>2, <2>4, <4>2, <5>1, <5>2, <5>3, Sizes DEF ReadKnows
      <4> QED
        BY <4>1, <4>2
    <3>3. \A u \in Writers' : WriteKnows(u)'
      <4>1. \A u \in Writers' : u = t
        BY <2>7
      <4> QED
        BY <2>1, <2>2, <2>3, <4>1, Sizes DEF WriteKnows
    <3> QED
      BY <2>1, <2>5, <3>1, <3>2, <3>3 DEF Snapshots
  <2>13. Stream'
    <3> SUFFICES ASSUME NEW c \in Cells, Dist(readOffset, c) < e
                 PROVE  mem'[c] = out + Dist(readOffset, c)
      BY <2>1 DEF Stream
    <3>1. CASE c \in Part(Wrap(readOffset + dataSize), n)
      BY <2>1, <3>1
    <3>2. CASE c \notin Part(Wrap(readOffset + dataSize), n)
      <4>1. /\ Dist(readOffset, c) \in Nat
            /\ ~(Dist(Wrap(readOffset + dataSize), c) < n)
        BY <2>2, <3>2, DistType DEF Part
      <4>2. dataSize <= Dist(readOffset, c) =>
                Dist(Wrap(readOffset + dataSize), c) = Dist(readOffset, c) - dataSize
        BY <2>2, DistMoved
      <4>3. Dist(readOffset, c) < dataSize
        BY <2>2, <4>1, <4>2, Sizes DEF e
      <4> QED
        BY <1>0, <2>1, <3>2, <4>3 DEF Stream
    <3> QED
      BY <3>1, <3>2
  <2>14. Counted'
    <3>1. Inside' = Inside
      BY <1>1, <2>3, <2>4 DEF Inside, EndWritePcs, EndReadPcs
    <3> QED
      BY <1>0, <2>1, <2>3, <2>4, <3>1 DEF Counted, One
  <2> QED
    BY <2>10, <2>11, <2>12, <2>13, <2>14 DEF RingInv
<1> QED
  BY <1>2, <1>3

LEMMA EndReadInv == ASSUME RingInv, NEW t \in Threads, EndRead(t) PROVE RingInv'
<1>0. TypeOK /\ Chains /\ Snapshots /\ Stream /\ Counted
  BY DEF RingInv
<1>1. pc[t] = "EndRead" /\ t \in Readers /\ t \notin Writers
  BY DEF EndRead, Writers, Readers
<1>2. CASE bytes[t] = 0
  <2>1. /\ over' = over \cup {"read"} /\ pc' = [pc EXCEPT ![t] = "EndIo"]
        /\ UNCHANGED <<word, ioCount, locals, read, write, asked, stops, mem, out>>
    BY <1>2 DEF EndRead, Goto, word, locals
  <2> QED
    BY <1>1, <2>1, ChainEnds
<1>3. CASE bytes[t] # 0
  <2> DEFINE n == bytes[t]  e == dataSize - n  r == Wrap(readOffset + n)
             l == IF CanWrite(dataSize) THEN "r:ReadAsync" ELSE "r:WriteAsync"
  <2>1. /\ readOffset' = r /\ dataSize' = e /\ out' = out + n /\ pc' = [pc EXCEPT ![t] = l]
        /\ offset1' = [offset1 EXCEPT ![t] = r] /\ size1' = [size1 EXCEPT ![t] = e]
        /\ UNCHANGED <<ioCount, bytes, reading, readAt, readLen>>
        /\ UNCHANGED <<writing, writeAt, writeLen, over, asked, stops, mem>>
    BY <1>3 DEF EndRead, Goto, read, write
  <2>2. /\ dataSize \in 0 .. Size /\ readOffset \in Cells /\ out \in Nat
        /\ n \in 0 .. dataSize /\ e \in 0 .. Size /\ e <= dataSize /\ r \in Cells
    <3>1. dataSize \in 0 .. Size /\ n \in 0 .. Size /\ readOffset \in Cells /\ out \in Nat
      BY <1>0 DEF TypeOK
    <3>2. n <= dataSize
      BY <1>0, <1>1 DEF Snapshots, ReadKnows
    <3>3. r \in Cells
      BY <3>1, WrapType
    <3> QED
      BY <3>1, <3>2, <3>3, Sizes
  <2>3. pc'[t] = l /\ offset1'[t] = r /\ size1'[t] = e
    BY <1>0, <2>1 DEF TypeOK
  <2>4. \A u \in Threads \ {t} : pc'[u] = pc[u] /\ offset1'[u] = offset1[u] /\ size1'[u] = size1[u]
    BY <1>0, <2>1 DEF TypeOK
  <2>5. Readers = {t} /\ ~reading /\ "read" \notin over /\ CanRead(dataSize)
    BY <1>0, <1>1 DEF Chains, Held
  <2>6. CanWrite(dataSize) => CanWrite(e)
    BY <2>2, Sizes DEF CanWrite
  <2>7. Wrap(r + e) = Wrap(readOffset + dataSize)
    BY <2>2, WrapSame
  <2> HIDE DEF e, n, r
  <2>8. Readers' = IF CanRead(e) THEN {t} ELSE {}
    <3>1. \A u \in Threads \ {t} : u \in Readers' <=> u \in Readers
      BY <2>1, <2>4 DEF Readers, CanRead
    <3>2. t \in Readers' <=> CanRead(e)
      BY <2>3 DEF Readers, CanRead
    <3> QED
      BY <2>5, <3>1, <3>2 DEF Readers
  <2>9. Writers' = IF ~CanWrite(dataSize) /\ CanWrite(e) THEN Writers \cup {t} ELSE Writers
    <3>1. \A u \in Threads \ {t} : u \in Writers' <=> u \in Writers
      BY <2>1, <2>4 DEF Writers, CanWrite
    <3>2. t \in Writers' <=> ~CanWrite(dataSize) /\ CanWrite(e)
      BY <2>3 DEF Writers, CanWrite
    <3> QED
      BY <1>1, <3>1, <3>2 DEF Writers
  <2>10. CanRead(dataSize)' = CanRead(e) /\ CanWrite(dataSize)' = CanWrite(e)
    BY <2>1 DEF CanRead, CanWrite
  <2>11. TypeOK'
    BY <1>0, <2>1, <2>2 DEF TypeOK, EndWritePcs, EndReadPcs
  <2>12. Chains'
    BY <1>0, <2>1, <2>5, <2>6, <2>8, <2>9, <2>10 DEF Chains, Held
  <2>13. Snapshots'
    <3>1. writing' => writeAt' = Wrap(readOffset' + dataSize') /\ writeLen' <= Size - dataSize'
      BY <1>0, <2>1, <2>2, <2>7, Sizes DEF Snapshots, TypeOK
    <3>2. \A u \in Readers' : ReadKnows(u)'
      <4>1. \A u \in Readers' : u = t
        BY <2>8
      <4> QED
        BY <2>1, <2>2, <2>3, <4>1, Sizes DEF ReadKnows
    <3>3. \A u \in Writers' : WriteKnows(u)'
      <4> SUFFICES ASSUME NEW u \in Writers' PROVE WriteKnows(u)'
        OBVIOUS
      <4>1. CASE u = t
        BY <2>1, <2>2, <2>3, <4>1, Sizes DEF WriteKnows
      <4>2. CASE u # t
        <5>1. u \in Writers /\ u \in Threads
          BY <2>9, <4>2 DEF Writers
        <5>2. bytes[u] \in 0 .. Size /\ size1[u] \in 0 .. Size
          BY <1>0, <5>1 DEF TypeOK
        <5>3. WriteKnows(u)
          BY <1>0, <5>1 DEF Snapshots
        <5> QED
          BY <2>1, <2>2, <2>4, <2>7, <4>2, <5>1, <5>2, <5>3, Sizes DEF WriteKnows
      <4> QED
        BY <4>1, <4>2
    <3> QED
      BY <2>1, <2>5, <3>1, <3>2, <3>3 DEF Snapshots
  <2>14. Stream'
    <3> SUFFICES ASSUME NEW c \in Cells, Dist(r, c) < e
                 PROVE  mem[c] = out + n + Dist(r, c)
      BY <2>1 DEF Stream
    <3>1. Dist(r, c) \in Nat /\ Dist(readOffset, c) \in Nat
      BY <2>2, DistType
    <3>0. n \in 0 .. Size
      BY <2>2, Sizes
    <3>2. IF n <= Dist(readOffset, c) THEN Dist(r, c) = Dist(readOffset, c) - n
                                      ELSE Dist(r, c) = Dist(readOffset, c) - n + Size
      BY <2>2, <3>0, DistMoved DEF r
    <3>3. Dist(readOffset, c) = Dist(r, c) + n /\ Dist(readOffset, c) < dataSize
      BY <2>2, <3>1, <3>2, Sizes DEF e
    <3>4. mem[c] = out + Dist(readOffset, c)
      BY <1>0, <3>3 DEF Stream
    <3> QED
      BY <2>2, <3>1, <3>3, <3>4
  <2>15. Counted'
    <3>1. Inside' = Inside
      BY <1>1, <2>3, <2>4 DEF Inside, EndWritePcs, EndReadPcs
    <3> QED
      BY <1>0, <2>1, <2>3, <2>4, <3>1 DEF Counted, One
  <2> QED
    BY <2>11, <2>12, <2>13, <2>14, <2>15 DEF RingInv
<1> QED
  BY <1>2, <1>3

-----------------------------------------------------------------------------
LEMMA EndIoInv == ASSUME RingInv, NEW t \in Threads, EndIo(t) PROVE RingInv'
<1>0. TypeOK /\ Chains /\ Snapshots /\ Stream /\ Counted
  BY DEF RingInv
<1>1. /\ pc[t] = "EndIo" /\ pc' = [pc EXCEPT ![t] = "idle"] /\ Count
      /\ bytes' = [bytes EXCEPT ![t] = 0]
      /\ offset1' = [offset1 EXCEPT ![t] = 0] /\ size1' = [size1 EXCEPT ![t] = 0]
  BY DEF EndIo, Goto
<1>2. /\ UNCHANGED <<readOffset, dataSize, reading, readAt, readLen, writing, writeAt, writeLen>>
      /\ UNCHANGED <<over, asked, mem, out>>
  BY DEF EndIo, word, read, write
<1>3. /\ pc'[t] = "idle"
      /\ \A u \in Threads \ {t} : /\ pc'[u] = pc[u] /\ bytes'[u] = bytes[u]
                                  /\ offset1'[u] = offset1[u] /\ size1'[u] = size1[u]
  BY <1>0, <1>1 DEF TypeOK
<1>4. Readers' = Readers /\ t \notin Readers
  BY <1>1, <1>3 DEF Readers, CanRead
<1>5. Writers' = Writers /\ t \notin Writers
  BY <1>1, <1>3 DEF Writers, CanWrite
<1>6. Inside' = Inside \ {t} /\ t \in Inside
  BY <1>1, <1>3 DEF Inside, EndWritePcs, EndReadPcs
<1>7. Cardinality(Inside') = Cardinality(Inside) - 1 /\ Cardinality(Inside) >= 1
  <2>1. Cardinality(Inside) # 0
    BY <1>6, InsideFinite, FS_EmptySet
  <2> QED
    BY <1>6, <2>1, InsideFinite, FS_RemoveElement
<1>8. ioCount \in Nat /\ ioCount >= 1 /\ stops = 0
  BY <1>0, <1>7, InsideFinite DEF Counted, One, TypeOK
<1>9. TypeOK'
  <2>1. ioCount' \in Nat /\ stops' \in Nat
    BY <1>1, <1>8 DEF Count
  <2> QED
    BY <1>0, <1>1, <1>2, <2>1, Sizes DEF TypeOK, EndWritePcs, EndReadPcs
<1>10. Chains'
  BY <1>0, <1>2, <1>4, <1>5 DEF Chains, Held, CanRead, CanWrite
<1>11. Snapshots'
  BY <1>0, <1>2, <1>3, <1>4, <1>5 DEF Snapshots, ReadKnows, WriteKnows, Readers, Writers
<1>12. Stream'
  BY <1>0, <1>2 DEF Stream
<1>13. Counted'
  <2>1. ioCount' = One(~asked') + One(reading') + One(writing') + Cardinality(Inside')
    BY <1>0, <1>1, <1>2, <1>7, <1>8, InsideFinite DEF Counted, One, Count
  <2>2. stops' = One(ioCount' = 0)
    BY <1>1, <1>8 DEF One, Count
  <2>3. asked' => \A u \in Threads : pc'[u] # "Start"
    BY <1>0, <1>2, <1>3 DEF Counted
  <2> QED
    BY <2>1, <2>2, <2>3 DEF Counted
<1> QED
  BY <1>9, <1>10, <1>11, <1>12, <1>13 DEF RingInv

LEMMA StopInv == ASSUME RingInv, Stop PROVE RingInv'
<1>0. TypeOK /\ Chains /\ Snapshots /\ Stream /\ Counted
  BY DEF RingInv
<1>1. ~asked /\ asked' = TRUE /\ Count /\ \A t \in Threads : pc[t] # "Start"
  BY DEF Stop
<1>2. /\ UNCHANGED <<readOffset, dataSize, pc, bytes, offset1, size1, reading, readAt, readLen>>
      /\ UNCHANGED <<writing, writeAt, writeLen, over, mem, out>>
  BY DEF Stop, word, locals, read, write
<1>3. Readers' = Readers /\ Writers' = Writers /\ Inside' = Inside
  BY <1>2 DEF Readers, Writers, Inside, CanRead, CanWrite
<1>4. ioCount \in Nat /\ ioCount >= 1 /\ stops = 0
  BY <1>0, <1>1, InsideFinite DEF Counted, One, TypeOK
<1>5. TypeOK'
  <2>1. ioCount' \in Nat /\ stops' \in Nat
    BY <1>1, <1>4 DEF Count
  <2> QED
    BY <1>0, <1>1, <1>2, <2>1 DEF TypeOK
<1>6. Chains' /\ Snapshots'
  BY <1>0, <1>2, <1>3 DEF Chains, Held, CanRead, CanWrite, Snapshots, ReadKnows, WriteKnows
<1>7. Stream'
  BY <1>0, <1>2 DEF Stream
<1>8. Counted'
  <2>1. ioCount' = One(~asked') + One(reading') + One(writing') + Cardinality(Inside')
    BY <1>0, <1>1, <1>2, <1>3, <1>4, InsideFinite DEF Counted, One, Count
  <2>2. stops' = One(ioCount' = 0)
    BY <1>1, <1>4 DEF One, Count
  <2> QED
    BY <1>1, <1>2, <2>1, <2>2 DEF Counted
<1> QED
  BY <1>5, <1>6, <1>7, <1>8 DEF RingInv

LEMMA RingStepInv == RingInv /\ [Next]_vars => RingInv'
<1> SUFFICES ASSUME RingInv, [Next]_vars PROVE RingInv'
  OBVIOUS
<1>1. ASSUME NEW t \in Threads, WriteCompletes(t) PROVE RingInv'
  BY <1>1, WriteCompletesInv
<1>2. ASSUME NEW t \in Threads, ReadCompletes(t) PROVE RingInv'
  BY <1>2, ReadCompletesInv
<1>3. ASSUME NEW t \in Threads, Start(t) PROVE RingInv'
  BY <1>3, WriteBegins DEF Start, Goto
<1>4. ASSUME NEW t \in Threads, EndWrite(t) PROVE RingInv'
  BY <1>4, EndWriteInv
<1>5. ASSUME NEW t \in Threads, EndWriteStarts(t) PROVE RingInv'
  BY <1>5, ReadBegins DEF EndWriteStarts, Goto
<1>6. ASSUME NEW t \in Threads, EndWriteGoesOn(t) PROVE RingInv'
  BY <1>6, WriteBegins DEF EndWriteGoesOn, Goto
<1>7. ASSUME NEW t \in Threads, EndRead(t) PROVE RingInv'
  BY <1>7, EndReadInv
<1>8. ASSUME NEW t \in Threads, EndReadStarts(t) PROVE RingInv'
  BY <1>8, WriteBegins DEF EndReadStarts, Goto
<1>9. ASSUME NEW t \in Threads, EndReadGoesOn(t) PROVE RingInv'
  BY <1>9, ReadBegins DEF EndReadGoesOn, Goto
<1>10. ASSUME NEW t \in Threads, EndIo(t) PROVE RingInv'
  BY <1>10, EndIoInv
<1>11. CASE Stop
  BY <1>11, StopInv
<1>12. CASE UNCHANGED vars
  BY <1>12 DEF vars, word, locals, read, write, RingInv, TypeOK, Chains, Held, CanRead, CanWrite,
               Snapshots, ReadKnows, WriteKnows, Readers, Writers, Stream, Counted, Inside
<1> QED
  BY <1>1, <1>2, <1>3, <1>4, <1>5, <1>6, <1>7, <1>8, <1>9, <1>10, <1>11, <1>12 DEF Next, Step

LEMMA RingInvariant == Spec => []RingInv
<1> QED
  BY RingInitInv, RingStepInv, PTL DEF Spec

-----------------------------------------------------------------------------
\* The word, the count and the parts of the operations keep their ranges: EndRead
\* takes no more than is there, EndWrite puts in no more than there is room for.
THEOREM RingTypeCorrect == Spec => []TypeOK
<1>1. RingInv => TypeOK
  BY DEF RingInv
<1> QED
  BY <1>1, RingInvariant, PTL

\* However the completions of the two chains interleave, the bytes come out in
\* the order they went in, and no byte is written while it may be read.
THEOREM StreamIsKept == Spec => []BytesInOrder
<1>1. RingInv => BytesInOrder
  <2> SUFFICES ASSUME TypeOK, Snapshots, Stream PROVE BytesInOrder
    BY DEF RingInv
  <2>1. readOffset \in Cells /\ dataSize \in 0 .. Size /\ readLen \in 0 .. Size /\ writeLen \in 0 .. Size
    BY DEF TypeOK
  <2>2. ASSUME reading, NEW c \in Part(readAt, readLen) PROVE mem[c] = out + Dist(readAt, c)
    <3>1. c \in Cells /\ Dist(readOffset, c) < readLen /\ readAt = readOffset /\ readLen <= dataSize
      BY <2>2 DEF Part, Snapshots
    <3>2. Dist(readOffset, c) < dataSize
      BY <2>1, <3>1, DistType, Sizes
    <3> QED
      BY <3>1, <3>2 DEF Stream
  <2>3. ASSUME reading, writing PROVE Part(readAt, readLen) \cap Part(writeAt, writeLen) = {}
    <3>1. /\ readAt = readOffset /\ writeAt = Wrap(readOffset + dataSize)
          /\ readLen \in 0 .. dataSize /\ writeLen \in 0 .. Size - dataSize
      BY <2>1, <2>3, Sizes DEF Snapshots
    <3> QED
      BY <2>1, <3>1, PartsDisjoint
  <2> QED
    BY <2>2, <2>3 DEF BytesInOrder
<1> QED
  BY <1>1, RingInvariant, PTL

\* No completion is missed by both chains: between the calls, what can be read is
\* being read and what can be written is being written, unless the chain ended.
THEOREM ChainsGoOn == Spec => []NeverStalls
<1>1. RingInv => NeverStalls
  <2> SUFFICES ASSUME TypeOK, Chains, AllIdle
               PROVE  /\ CanRead(dataSize) => reading \/ "read" \in over
                      /\ CanWrite(dataSize) => writing \/ "write" \in over
                      /\ reading \/ writing \/ over # {}
    BY DEF RingInv, NeverStalls
  <2>1. Readers = {} /\ Writers = {}
    BY DEF AllIdle, Readers, Writers
  <2>2. /\ CanRead(dataSize) => reading \/ "read" \in over
        /\ CanWrite(dataSize) => writing \/ "write" \in over
    BY <2>1 DEF Chains, Held
  <2>3. CanRead(dataSize) \/ CanWrite(dataSize)
    <3>1. dataSize \in Int /\ MinRead + MinWrite <= Size + 1
      BY SizeAssumption, Sizes DEF TypeOK
    <3> QED
      BY <3>1, Sizes DEF CanRead, CanWrite
  <2> QED
    BY <2>2, <2>3
<1> QED
  BY <1>1, RingInvariant, PTL

\* OnIoStop is called once, and nothing comes after it.
THEOREM StopIsLast == Spec => []StopsOnce
<1>1. RingInv => StopsOnce
  <2> SUFFICES ASSUME TypeOK, Counted PROVE StopsOnce
    BY DEF RingInv
  <2>1. stops <= 1
    BY DEF Counted, One
  <2>2. ASSUME stops = 1 PROVE asked /\ ~reading /\ ~writing /\ AllIdle
    <3>1. ioCount = 0
      BY <2>2 DEF Counted, One
    <3>2. asked /\ ~reading /\ ~writing /\ Cardinality(Inside) = 0
      BY <3>1, InsideFinite DEF Counted, One
    <3>3. Inside = {}
      BY <3>2, InsideFinite, FS_EmptySet
    <3>4. \A t \in Threads : pc[t] # "Start"
      BY <3>2 DEF Counted
    <3> QED
      BY <3>2, <3>3, <3>4 DEF TypeOK, Inside, AllIdle
  <2>3. ASSUME Inside # {} \/ ~asked PROVE ioCount > 0
    <3>1. Inside # {} => Cardinality(Inside) # 0
      BY InsideFinite, FS_EmptySet
    <3> QED
      BY <2>3, <3>1, InsideFinite DEF Counted, One
  <2> QED
    BY <2>1, <2>2, <2>3 DEF StopsOnce
<1> QED
  BY <1>1, RingInvariant, PTL

-----------------------------------------------------------------------------
\* The tasks of IoObject, and where a task lies: with its distance from the bottom
\* of the stack, which does not change while other tasks come and go above it.
Workers == Object!Workers
Timers == Object!Timers
None == Object!None
Tasks == ({"call", "irp", "lock", "io", "cancel", "release", "close", "rundown", "unlock",
           "close_handle", "set_timeout", "swap"} \X {None})
         \cup ({"keep", "swap", "is_set", "stop", "delete", "on_timer", "drop", "executed",
                "returned"} \X Timers)
Stack == Seq(Tasks)
Stacks == [Workers -> Stack]

Below(s, k) == s[Len(s) + 1 - k]
Places(f, C, x) ==
    {p \in Workers \X Nat : /\ p[2] \in 1 .. Len(f[p[1]])
                            /\ Below(f[p[1]], p[2])[1] \in C /\ Below(f[p[1]], p[2])[2] = x}
Number(f, C, x) == Cardinality(Places(f, C, x))

\* The tasks that own a reference of the object.
Owners == {"call", "lock", "io", "cancel", "release"}

\* What must lie below a task, and which task is the first or the last one.
Rest(s, i) == [j \in 1 .. Len(s) - i |-> s[i + j]]
Keeps(s) == \E j \in 1 .. Len(s) : s[j][1] \in Owners \cup {"drop"}
KeepsTimer(s, x) == \E j \in 1 .. Len(s) : s[j] = <<"drop", x>>
Backed(a, s) ==
    /\ a[1] \in {"irp", "lock", "io", "close", "rundown", "unlock", "close_handle",
                 "set_timeout", "swap"} => Keeps(s)
    /\ a[1] \in {"keep", "is_set", "stop", "delete", "on_timer", "executed"} => KeepsTimer(s, a[2])
    /\ a[1] = "keep" => s # <<>> /\ s[1] = <<"swap", a[2]>>
    /\ a[1] = "executed" => s # <<>> /\ s[Len(s)] = <<"returned", a[2]>>
    /\ a[1] = "returned" => s = <<>>
Supported(s) ==
    \A i \in 1 .. Len(s) : Backed(s[i], Rest(s, i)) /\ (s[i][1] = "executed" => i = 1)

\* The callback of a timer is at the bottom of a stack.
Calls(s, x) == s # <<>> /\ s[Len(s)] = <<"returned", x>>

-----------------------------------------------------------------------------
Referred == {x \in Timers : tRef[x] > 0}
ObjectType ==
    /\ socket \in BOOLEAN /\ nRef \in Int /\ up \in BOOLEAN /\ held \in Int
    /\ hFile \in {"open", "closed"} /\ irps \in Nat /\ started \in Int
    /\ pTimer \in Timers \cup {None}
    /\ tRef \in [Timers -> Int] /\ isSet \in [Timers -> BOOLEAN]
    /\ cbExecuted \in [Timers -> BOOLEAN]
    /\ queue \in [Timers -> {"none", "armed", "running", "returned", "deleted"}]
    /\ timeouts \in [Timers -> Nat] /\ todo \in Stacks /\ calls \in Nat

\* The counts: of the object, of the holders of the handle, of the operations the
\* pool expects, and of each timer.
ObjectRefs == nRef = Number(todo, Owners, None) + irps + Cardinality(Referred)
HandleRefs ==
    /\ held = Number(todo, {"unlock", "io"}, None)
    /\ started = irps + Number(todo, {"lock", "io", "cancel"}, None)
Stored(x) == IF pTimer = x THEN 1 ELSE 0
Armed(x) == IF queue[x] = "armed" THEN 1 ELSE 0
Queued(x) == IF isSet[x] THEN 1 ELSE 0
TimerRefs ==
    \A x \in Timers :
        tRef[x] = Number(todo, {"drop"}, x) + Number(todo, {"swap"}, x)
                  - Number(todo, {"keep"}, x) + Stored(x) + Armed(x)
Backing == \A t \in Workers : Supported(todo[t])
Closing == hFile = "closed" \/ Number(todo, {"close_handle"}, None) > 0 => ~up /\ held = 0
Timeouts ==
    \A x \in Timers :
        /\ queue[x] = "none" => /\ timeouts[x] = 0 /\ ~isSet[x] /\ ~cbExecuted[x]
                                /\ Number(todo, {"on_timer"}, x) = 0
                                /\ Number(todo, {"delete"}, x) = 0
        /\ queue[x] # "none" =>
             Armed(x) + Number(todo, {"on_timer"}, x) + timeouts[x] = 1
        /\ Number(todo, {"delete"}, x) + Queued(x) <= 1
        /\ queue[x] = "deleted" => ~isSet[x] /\ Number(todo, {"delete"}, x) = 0
        /\ queue[x] = "armed" => ~cbExecuted[x]
        /\ queue[x] = "returned" => cbExecuted[x]
Callback ==
    \A t \in Workers, x \in Timers : Calls(todo[t], x) =>
        /\ t = Clock /\ queue[x] = "running"
        /\ cbExecuted[x] \/ todo[t][1] = <<"executed", x>>

ObjectInv == /\ ObjectType /\ ObjectRefs /\ HandleRefs /\ TimerRefs /\ Backing
             /\ Closing /\ Timeouts /\ Callback

-----------------------------------------------------------------------------
\* Sequences of tasks.

LEMMA Numbers == Timers = 1 .. MaxTimers /\ None = 0 /\ None \notin Timers
BY ObjectAssumption DEF Timers, None, Object!Timers, Object!None

\* A task on top of a stack.
Push(a, s) == <<a>> \o s

LEMMA PushedStack ==
    ASSUME NEW s \in Stack, NEW a \in Tasks
    PROVE  /\ Push(a, s) \in Stack /\ Push(a, s) # <<>>
           /\ Len(s) \in Nat /\ Len(Push(a, s)) = Len(s) + 1 /\ Push(a, s)[1] = a
           /\ \A i \in 1 .. Len(s) : Push(a, s)[i + 1] = s[i]
           /\ Head(Push(a, s)) = a /\ Tail(Push(a, s)) = s
BY DEF Stack, Push

LEMMA PoppedStack ==
    ASSUME NEW s \in Stack, s # <<>>
    PROVE  /\ Head(s) \in Tasks /\ Tail(s) \in Stack /\ Head(s) = s[1]
           /\ Len(s) \in Nat \ {0} /\ Len(Tail(s)) = Len(s) - 1
           /\ \A i \in 1 .. Len(Tail(s)) : Tail(s)[i] = s[i + 1]
           /\ s = Push(Head(s), Tail(s))
BY DEF Stack, Push

LEMMA TwoTasks ==
    ASSUME NEW s \in Stack, NEW a \in Tasks, NEW b \in Tasks
    PROVE  <<a, b>> \o s = Push(a, Push(b, s))
<1> DEFINE p == <<a, b>>
           l == p \o s
           q == Push(b, s)
           r == Push(a, q)
<1>1. p \in Seq(Tasks)
    OBVIOUS
<1>2. Len(p) = 2 /\ p[1] = a /\ p[2] = b
    OBVIOUS
<1>3. q \in Stack /\ Len(q) = Len(s) + 1 /\ r \in Stack /\ Len(r) = Len(s) + 2 /\ Len(s) \in Nat
    <2>1. q \in Stack /\ Len(q) = Len(s) + 1 /\ Len(s) \in Nat
        BY PushedStack
    <2> HIDE DEF q
    <2>2. r \in Stack /\ Len(r) = Len(q) + 1
        BY <2>1, PushedStack
    <2> QED
        BY <2>1, <2>2
<1> HIDE DEF p
<1>4. /\ l \in Stack /\ Len(l) = Len(s) + 2
      /\ \A i \in 1 .. Len(s) + 2 : l[i] = IF i <= 2 THEN p[i] ELSE s[i - 2]
    <2> HIDE DEF l
    <2>1. s \in Seq(Tasks)
        BY DEF Stack
    <2>2. /\ p \o s \in Seq(Tasks) /\ Len(p \o s) = Len(p) + Len(s)
          /\ \A i \in 1 .. Len(p) + Len(s) : (p \o s)[i] = IF i <= Len(p) THEN p[i] ELSE s[i - Len(p)]
        BY <1>1, <2>1, ConcatProperties
    <2>3. Len(p) + Len(s) = Len(s) + 2
        BY <1>2, <1>3
    <2>4. l = p \o s
        BY DEF l
    <2> QED
        BY <1>2, <2>2, <2>3, <2>4 DEF Stack
<1> HIDE DEF l, q, r
<1>5. ASSUME NEW i \in 1 .. Len(l) PROVE l[i] = r[i]
    <2>1. l[i] = IF i <= 2 THEN p[i] ELSE s[i - 2]
        BY <1>4
    <2>2. r[1] = a /\ \A k \in 1 .. Len(q) : r[k + 1] = q[k]
        BY <1>3, PushedStack DEF r
    <2>3. q[1] = b /\ \A k \in 1 .. Len(s) : q[k + 1] = s[k]
        BY <1>3, PushedStack DEF q
    <2>4. CASE i = 1
        BY <1>2, <2>1, <2>2, <2>4
    <2>5. CASE i = 2
        <3>1. r[1 + 1] = q[1]
            BY <1>3, <2>2
        <3> QED
            BY <1>2, <2>1, <2>3, <2>5, <3>1
    <2>6. CASE i > 2
        <3>1. PICK k \in 1 .. Len(s) : k = i - 2
            BY <1>3, <1>4, <2>6
        <3>2. q[k + 1] = s[k] /\ k + 1 \in 1 .. Len(q)
            BY <1>3, <3>1, <2>3
        <3>3. r[(k + 1) + 1] = q[k + 1]
            BY <2>2, <3>2
        <3>4. (k + 1) + 1 = i
            BY <3>1
        <3> QED
            BY <2>1, <2>6, <3>1, <3>2, <3>3, <3>4
    <2> QED
        BY <1>4, <1>3, <2>4, <2>5, <2>6
<1>6. l = r
    BY <1>3, <1>4, <1>5, SeqEqual DEF Stack
<1> QED
    BY <1>6 DEF l, p, q, r

\* Where the tasks of a name and a timer lie, after one is put on a stack or taken off.
LEMMA PlacesFinite ==
    ASSUME NEW f \in Stacks, NEW C, NEW x
    PROVE  IsFiniteSet(Places(f, C, x)) /\ Number(f, C, x) \in Nat
<1> DEFINE R == {1 .. Len(f[t]) : t \in Workers}
           g == [t \in Workers |-> 1 .. Len(f[t])]
<1>1. IsFiniteSet(Workers)
    BY ObjectAssumption, FS_Union, FS_Singleton DEF Workers, Object!Workers
<1>2. g \in Surjection(Workers, R)
    BY DEF Surjection
<1>3. IsFiniteSet(R)
    BY <1>1, <1>2, FS_Surjection
<1>4. \A T \in R : IsFiniteSet(T)
    <2>1. \A t \in Workers : Len(f[t]) \in Nat
        BY DEF Stacks, Stack
    <2> QED
        BY <2>1, FS_Interval
<1>5. IsFiniteSet(UNION R)
    BY <1>3, <1>4, FS_UNION
<1>6. IsFiniteSet(Workers \X UNION R)
    BY <1>1, <1>5, FS_Product
<1>7. Places(f, C, x) \in SUBSET (Workers \X UNION R)
    BY DEF Places
<1> QED
    BY <1>6, <1>7, FS_Subset, FS_CardinalityType DEF Number

LEMMA LengthFrom == \A n \in Nat : \A k \in 1 .. n : n + 1 - k \in 1 .. n
OBVIOUS

\* The stack of a thread is now v.
Becomes(f, g, t, v) == g \in Stacks /\ g[t] = v /\ \A u \in Workers \ {t} : g[u] = f[u]
Same(a, C, x) == IF a[1] \in C /\ a[2] = x THEN 1 ELSE 0

LEMMA Pushed ==
    ASSUME NEW f \in Stacks, NEW g \in Stacks, NEW t \in Workers, NEW a \in Tasks,
           Becomes(f, g, t, Push(a, f[t])), NEW C, NEW x
    PROVE  Number(g, C, x) = Number(f, C, x) + Same(a, C, x)
<1> DEFINE p == <<t, Len(f[t]) + 1>>
<1>1. f[t] \in Stack /\ g[t] = Push(a, f[t]) /\ \A u \in Workers \ {t} : g[u] = f[u]
    BY DEF Stacks, Becomes
<1>2. /\ \A k \in 1 .. Len(f[t]) : Below(g[t], k) = Below(f[t], k)
      /\ Below(g[t], Len(f[t]) + 1) = a /\ Len(g[t]) = Len(f[t]) + 1 /\ Len(f[t]) \in Nat
    <2>1. PICK s \in Stack : s = f[t]
        BY <1>1
    <2>2. PICK v \in Stack : v = g[t]
        BY <1>1 DEF Stacks
    <2>3. v = Push(a, s)
        BY <1>1, <2>1, <2>2
    <2>4. /\ Len(s) \in Nat /\ Len(v) = Len(s) + 1 /\ v[1] = a
          /\ \A i \in 1 .. Len(s) : v[i + 1] = s[i]
        BY <2>3, PushedStack
    <2>5. ASSUME NEW k \in 1 .. Len(s) PROVE v[Len(v) + 1 - k] = s[Len(s) + 1 - k]
        <3>1. Len(s) + 1 - k \in 1 .. Len(s)
            BY <2>4, LengthFrom
        <3>2. v[(Len(s) + 1 - k) + 1] = s[Len(s) + 1 - k]
            BY <2>4, <3>1
        <3>3. Len(v) + 1 - k = (Len(s) + 1 - k) + 1
            BY <2>4
        <3> QED
            BY <3>2, <3>3
    <2>6. Len(v) + 1 - (Len(s) + 1) = 1
        BY <2>4
    <2> QED
        BY <2>1, <2>2, <2>4, <2>5, <2>6 DEF Below
<1>3. Below(g[t], Len(f[t]) + 1) = a /\ Len(g[t]) = Len(f[t]) + 1 /\ Len(f[t]) \in Nat
    BY <1>2
<1>5. p \notin Places(f, C, x)
    BY <1>3 DEF Places
<1>6. Places(g, C, x) = IF a[1] \in C /\ a[2] = x THEN Places(f, C, x) \cup {p} ELSE Places(f, C, x)
    <2>1. ASSUME NEW q \in Workers \X Nat
          PROVE  q \in Places(g, C, x)
                 <=> q \in Places(f, C, x) \/ (q = p /\ a[1] \in C /\ a[2] = x)
        <3>1. CASE q[1] # t
            BY <1>1, <3>1 DEF Places
        <3>2. CASE q[1] = t /\ q[2] = Len(f[t]) + 1
            <4>1. q = p
                BY <3>2
            <4> QED
                BY <1>3, <1>5, <3>2, <4>1 DEF Places
        <3>3. CASE q[1] = t /\ q[2] # Len(f[t]) + 1
            <4>1. q # p
                BY <3>3
            <4>2. q[2] \in 1 .. Len(g[t]) <=> q[2] \in 1 .. Len(f[t])
                BY <1>3, <3>3
            <4>3. q[2] \in 1 .. Len(f[t]) => Below(g[t], q[2]) = Below(f[t], q[2])
                BY <1>2
            <4> QED
                BY <3>3, <4>1, <4>2, <4>3 DEF Places
        <3> QED
            BY <3>1, <3>2, <3>3
    <2>2. p \in Workers \X Nat
        BY <1>3
    <2>3. Places(g, C, x) \subseteq Workers \X Nat /\ Places(f, C, x) \subseteq Workers \X Nat
        BY DEF Places
    <2> QED
        BY <2>1, <2>2, <2>3
<1> QED
    <2> HIDE DEF p
    <2>1. IsFiniteSet(Places(f, C, x)) /\ Number(f, C, x) \in Nat
        BY PlacesFinite
    <2>2. Cardinality(Places(f, C, x) \cup {p}) = Number(f, C, x) + 1
        BY <1>5, <2>1, FS_AddElement DEF Number
    <2> QED
        BY <1>6, <2>1, <2>2 DEF Number, Same

LEMMA Integral ==
    /\ \A f \in Stacks : \A C, x : Number(f, C, x) \in Nat
    /\ \A a, C, x : Same(a, C, x) \in {0, 1}
BY PlacesFinite DEF Same

LEMMA Popped ==
    ASSUME NEW f \in Stacks, NEW g \in Stacks, NEW t \in Workers, f[t] # <<>>,
           Becomes(f, g, t, Tail(f[t])), NEW C, NEW x
    PROVE  Number(g, C, x) = Number(f, C, x) - Same(Head(f[t]), C, x)
<1>1. f[t] \in Stack
    BY DEF Stacks
<1>2. Head(f[t]) \in Tasks /\ f[t] = Push(Head(f[t]), g[t])
    BY <1>1, PoppedStack DEF Becomes
<1>3. Becomes(g, f, t, Push(Head(f[t]), g[t]))
    BY <1>2 DEF Becomes
<1>4. Number(f, C, x) = Number(g, C, x) + Same(Head(f[t]), C, x)
    BY <1>2, <1>3, Pushed
<1>5. Number(g, C, x) \in Nat /\ Same(Head(f[t]), C, x) \in {0, 1}
    BY Integral
<1> QED
    BY <1>4, <1>5

-----------------------------------------------------------------------------
\* What lies below a task.
Clear(s) == \A i \in 1 .. Len(s) : s[i][1] # "executed"

LEMMA LenRest ==
    ASSUME NEW s \in Stack, NEW i \in 1 .. Len(s)
    PROVE  Len(Rest(s, i)) = Len(s) - i
<1> PICK n \in Nat : n = Len(s)
    BY DEF Stack
<1>1. n - i \in Nat /\ DOMAIN Rest(s, i) = 1 .. n - i
    BY DEF Rest
<1>2. Rest(s, i) \in Seq(Tasks)
    <2>1. \A j \in 1 .. n - i : s[i + j] \in Tasks
        <3> TAKE j \in 1 .. n - i
        <3>1. i + j \in 1 .. n
            OBVIOUS
        <3> QED
            BY <3>1, ElementOfSeq DEF Stack
    <2> QED
        BY <1>1, <2>1, IsASeq DEF Rest
<1> QED
    BY <1>1, <1>2, LenProperties

LEMMA RestOfTail ==
    ASSUME NEW s \in Stack, NEW a \in Tasks
    PROVE  /\ Rest(Push(a, s), 1) = s
           /\ \A i \in 1 .. Len(s) : Rest(Push(a, s), i + 1) = Rest(s, i)
<1> PICK v \in Stack : v = Push(a, s)
    BY PushedStack
<1>1. /\ Len(s) \in Nat /\ Len(v) = Len(s) + 1 /\ v[1] = a
      /\ \A i \in 1 .. Len(s) : v[i + 1] = s[i]
    BY PushedStack
<1>2. Rest(v, 1) = s
    <2>1. s = [j \in 1 .. Len(s) |-> s[j]]
        BY DEF Stack
    <2>2. \A j \in 1 .. Len(s) : v[1 + j] = v[j + 1]
        BY <1>1
    <2>3. Len(v) - 1 = Len(s)
        BY <1>1
    <2>4. Rest(v, 1) = [j \in 1 .. Len(s) |-> v[1 + j]]
        BY <2>3 DEF Rest
    <2>5. [j \in 1 .. Len(s) |-> v[1 + j]] = [j \in 1 .. Len(s) |-> s[j]]
        BY <1>1, <2>2
    <2> QED
        BY <2>1, <2>4, <2>5
<1>3. ASSUME NEW i \in 1 .. Len(s) PROVE Rest(v, i + 1) = Rest(s, i)
    <2>1. Len(v) - (i + 1) = Len(s) - i
        BY <1>1
    <2>2. ASSUME NEW j \in 1 .. Len(s) - i PROVE v[(i + 1) + j] = s[i + j]
        <3>1. i + j \in 1 .. Len(s) /\ (i + 1) + j = (i + j) + 1
            BY <1>1
        <3> QED
            BY <1>1, <3>1
    <2>3. Rest(v, i + 1) = [j \in 1 .. Len(s) - i |-> v[(i + 1) + j]]
        BY <2>1 DEF Rest
    <2>4. Rest(s, i) = [j \in 1 .. Len(s) - i |-> s[i + j]]
        BY DEF Rest
    <2> QED
        BY <2>2, <2>3, <2>4
<1> QED
    BY <1>2, <1>3

LEMMA SupportedPush ==
    ASSUME NEW s \in Stack, NEW a \in Tasks, Supported(s), Clear(s), Backed(a, s)
    PROVE  /\ Supported(Push(a, s))
           /\ a[1] # "executed" => Clear(Push(a, s))
<1> PICK v \in Stack : v = Push(a, s)
    BY PushedStack
<1>1. /\ Len(s) \in Nat /\ Len(v) = Len(s) + 1 /\ v[1] = a
      /\ \A i \in 1 .. Len(s) : v[i + 1] = s[i]
    BY PushedStack
<1>2. Rest(v, 1) = s /\ \A i \in 1 .. Len(s) : Rest(v, i + 1) = Rest(s, i)
    BY RestOfTail
<1>3. ASSUME NEW j \in 1 .. Len(v), j # 1 PROVE \E i \in 1 .. Len(s) : j = i + 1
    <2> PICK n \in Nat : n = Len(s)
        BY <1>1
    <2>1. j \in 1 .. n + 1 /\ j - 1 \in 1 .. n /\ j = (j - 1) + 1
        BY <1>1, <1>3
    <2> QED
        BY <2>1
<1>4. ASSUME NEW j \in 1 .. Len(v) PROVE Backed(v[j], Rest(v, j)) /\ (v[j][1] = "executed" => j = 1)
    <2>1. CASE j = 1
        BY <1>1, <1>2, <2>1
    <2>2. CASE j # 1
        <3>1. PICK i \in 1 .. Len(s) : j = i + 1
            BY <1>3, <2>2
        <3>2. v[j] = s[i] /\ Rest(v, j) = Rest(s, i)
            BY <1>1, <1>2, <3>1
        <3>3. Backed(s[i], Rest(s, i)) /\ s[i][1] # "executed"
            BY DEF Supported, Clear
        <3> QED
            BY <3>2, <3>3
    <2> QED
        BY <2>1, <2>2
<1>5. ASSUME a[1] # "executed", NEW j \in 1 .. Len(v) PROVE v[j][1] # "executed"
    BY <1>1, <1>3, <1>5 DEF Clear
<1> QED
    BY <1>4, <1>5 DEF Supported, Clear

LEMMA SupportedBelow ==
    ASSUME NEW r \in Stack, NEW a \in Tasks, Supported(Push(a, r))
    PROVE  Supported(r) /\ Clear(r) /\ Backed(a, r)
<1> PICK s \in Stack : s = Push(a, r)
    BY PushedStack
<1> PICK n \in Nat : n = Len(r)
    BY PushedStack
<1>1. Len(s) = n + 1 /\ s[1] = a /\ \A i \in 1 .. n : s[i + 1] = r[i]
    BY PushedStack
<1>2. Rest(s, 1) = r /\ \A i \in 1 .. n : Rest(s, i + 1) = Rest(r, i)
    BY RestOfTail
<1>3. ASSUME NEW i \in 1 .. n PROVE Backed(r[i], Rest(r, i)) /\ r[i][1] # "executed"
    <2>1. i + 1 \in 1 .. n + 1 /\ i + 1 # 1
        OBVIOUS
    <2>2. Backed(s[i + 1], Rest(s, i + 1)) /\ (s[i + 1][1] = "executed" => i + 1 = 1)
        BY <1>1, <2>1 DEF Supported
    <2> QED
        BY <1>1, <1>2, <2>1, <2>2
<1>4. 1 \in 1 .. n + 1
    OBVIOUS
<1>5. Backed(s[1], Rest(s, 1))
    BY <1>1, <1>4 DEF Supported
<1> QED
    BY <1>1, <1>2, <1>3, <1>5 DEF Supported, Clear

LEMMA KeepsPush ==
    ASSUME NEW s \in Stack, NEW a \in Tasks
    PROVE  /\ Keeps(s) \/ a[1] \in Owners \cup {"drop"} => Keeps(Push(a, s))
           /\ \A x : KeepsTimer(s, x) \/ a = <<"drop", x>> => KeepsTimer(Push(a, s), x)
           /\ \A x : KeepsTimer(s, x) => Keeps(s)
<1> PICK v \in Stack : v = Push(a, s)
    BY PushedStack
<1> PICK n \in Nat : n = Len(s)
    BY PushedStack
<1>1. Len(v) = n + 1 /\ v[1] = a /\ \A i \in 1 .. n : v[i + 1] = s[i]
    BY PushedStack
<1>2. 1 \in 1 .. n + 1 /\ \A i \in 1 .. n : i + 1 \in 1 .. n + 1
    OBVIOUS
<1>3. Keeps(s) \/ a[1] \in Owners \cup {"drop"} => Keeps(v)
    BY <1>1, <1>2 DEF Keeps
<1>4. \A x : KeepsTimer(s, x) \/ a = <<"drop", x>> => KeepsTimer(v, x)
    BY <1>1, <1>2 DEF KeepsTimer
<1>5. \A x : KeepsTimer(s, x) => Keeps(s)
    BY DEF KeepsTimer, Keeps
<1> QED
    BY <1>3, <1>4, <1>5

LEMMA CallsPush ==
    ASSUME NEW s \in Stack, NEW a \in Tasks, NEW x
    PROVE  Calls(Push(a, s), x) <=> IF s = <<>> THEN a = <<"returned", x>> ELSE Calls(s, x)
<1> PICK v \in Stack : v = Push(a, s)
    BY PushedStack
<1>1. /\ v # <<>> /\ Len(s) \in Nat /\ Len(v) = Len(s) + 1 /\ v[1] = a
      /\ \A i \in 1 .. Len(s) : v[i + 1] = s[i]
    BY PushedStack
<1>2. CASE s = <<>>
    <2>1. Len(v) = 1
        BY <1>1, <1>2
    <2> QED
        BY <1>1, <1>2, <2>1 DEF Calls
<1>3. CASE s # <<>>
    <2>1. Len(s) \in Nat \ {0}
        BY <1>3, PoppedStack
    <2>2. Len(s) \in 1 .. Len(s)
        BY <2>1
    <2>3. v[Len(v)] = s[Len(s)]
        BY <1>1, <2>2
    <2> QED
        BY <1>1, <1>3, <2>3 DEF Calls
<1> QED
    BY <1>2, <1>3

-----------------------------------------------------------------------------
\* What a step of a thread does to the stacks: its task is replaced by others.

Replaces(f, g, t, tasks) == g = [f EXCEPT ![t] = tasks \o Tail(@)]

LEMMA Then0 ==
    ASSUME NEW f \in Stacks, NEW t \in Workers, f[t] # <<>>, NEW g,
           Replaces(f, g, t, <<>>)
    PROVE  /\ g \in Stacks /\ Becomes(f, g, t, Tail(f[t]))
           /\ \A C, x : Number(g, C, x) = Number(f, C, x) - Same(Head(f[t]), C, x)
<1>1. f[t] \in Stack
    BY DEF Stacks
<1>2. Tail(f[t]) \in Stack
    BY <1>1, PoppedStack
<1>3. <<>> \o Tail(f[t]) = Tail(f[t])
    BY <1>2, ConcatEmptySeq DEF Stack
<1>4. g \in Stacks /\ Becomes(f, g, t, Tail(f[t]))
    BY <1>2, <1>3 DEF Stacks, Becomes, Replaces
<1> QED
    BY <1>4, Popped

LEMMA Then1 ==
    ASSUME NEW f \in Stacks, NEW t \in Workers, f[t] # <<>>, NEW a \in Tasks, NEW g,
           Replaces(f, g, t, <<a>>)
    PROVE  /\ g \in Stacks /\ Becomes(f, g, t, Push(a, Tail(f[t])))
           /\ \A C, x : Number(g, C, x) = Number(f, C, x) - Same(Head(f[t]), C, x) + Same(a, C, x)
<1>1. f[t] \in Stack
    BY DEF Stacks
<1>2. Tail(f[t]) \in Stack
    BY <1>1, PoppedStack
<1>3. PICK e \in Stacks : Becomes(f, e, t, Tail(f[t]))
    <2> DEFINE e == [f EXCEPT ![t] = Tail(@)]
    <2>1. e \in Stacks /\ Becomes(f, e, t, Tail(f[t]))
        BY <1>2 DEF Stacks, Becomes
    <2> HIDE DEF e
    <2> QED
        BY <2>1
<1>4. Push(a, Tail(f[t])) \in Stack /\ <<a>> \o Tail(f[t]) = Push(a, Tail(f[t]))
    BY <1>2, PushedStack DEF Push
<1>5. g \in Stacks /\ Becomes(f, g, t, Push(a, Tail(f[t])))
    BY <1>4 DEF Stacks, Becomes, Replaces
<1>6. Becomes(e, g, t, Push(a, e[t]))
    BY <1>3, <1>5 DEF Becomes
<1>7. ASSUME NEW C, NEW x
      PROVE  Number(g, C, x) = Number(f, C, x) - Same(Head(f[t]), C, x) + Same(a, C, x)
    <2>1. Number(e, C, x) = Number(f, C, x) - Same(Head(f[t]), C, x)
        BY <1>3, Popped
    <2>2. Number(g, C, x) = Number(e, C, x) + Same(a, C, x)
        BY <1>5, <1>6, Pushed
    <2> QED
        BY <2>1, <2>2
<1> QED
    BY <1>5, <1>7

LEMMA Then2 ==
    ASSUME NEW f \in Stacks, NEW t \in Workers, f[t] # <<>>, NEW a \in Tasks, NEW b \in Tasks,
           NEW g, Replaces(f, g, t, <<a, b>>)
    PROVE  /\ g \in Stacks /\ Becomes(f, g, t, Push(a, Push(b, Tail(f[t]))))
           /\ \A C, x : Number(g, C, x)
                        = Number(f, C, x) - Same(Head(f[t]), C, x) + Same(b, C, x) + Same(a, C, x)
<1>1. f[t] \in Stack
    BY DEF Stacks
<1>2. Tail(f[t]) \in Stack
    BY <1>1, PoppedStack
<1>3. PICK e \in Stacks : Replaces(f, e, t, <<b>>)
    <2>1. Push(b, Tail(f[t])) \in Stack /\ <<b>> \o Tail(f[t]) = Push(b, Tail(f[t]))
        BY <1>2, PushedStack DEF Push
    <2>2. [f EXCEPT ![t] = <<b>> \o Tail(@)] \in Stacks
        BY <2>1 DEF Stacks
    <2> QED
        BY <2>2 DEF Replaces
<1>4. /\ Becomes(f, e, t, Push(b, Tail(f[t])))
      /\ \A C, x : Number(e, C, x) = Number(f, C, x) - Same(Head(f[t]), C, x) + Same(b, C, x)
    BY <1>3, Then1
<1>5. <<a, b>> \o Tail(f[t]) = Push(a, Push(b, Tail(f[t])))
    BY <1>2, TwoTasks
<1>6. Push(b, Tail(f[t])) \in Stack /\ Push(a, Push(b, Tail(f[t]))) \in Stack
    BY <1>2, PushedStack
<1>7. g \in Stacks /\ Becomes(f, g, t, Push(a, Push(b, Tail(f[t]))))
    BY <1>5, <1>6 DEF Stacks, Becomes, Replaces
<1>8. Becomes(e, g, t, Push(a, e[t]))
    BY <1>4, <1>7 DEF Becomes
<1>9. ASSUME NEW C, NEW x
      PROVE  Number(g, C, x)
             = Number(f, C, x) - Same(Head(f[t]), C, x) + Same(b, C, x) + Same(a, C, x)
    <2>1. Number(e, C, x) = Number(f, C, x) - Same(Head(f[t]), C, x) + Same(b, C, x)
        BY <1>4
    <2>2. Number(g, C, x) = Number(e, C, x) + Same(a, C, x)
        BY <1>7, <1>8, Pushed
    <2> QED
        BY <2>1, <2>2
<1> QED
    BY <1>7, <1>9

LEMMA Associative ==
    \A p, q, s : p \in Seq(Tasks) /\ q \in Seq(Tasks) /\ s \in Seq(Tasks) =>
        (p \o q) \o s = p \o (q \o s)
<1> TAKE p, q, s
<1> HAVE p \in Seq(Tasks) /\ q \in Seq(Tasks) /\ s \in Seq(Tasks)
<1> QED
    BY ConcatAssociative

LEMMA FourTasks ==
    ASSUME NEW s \in Stack, NEW a \in Tasks, NEW b \in Tasks, NEW c \in Tasks, NEW d \in Tasks
    PROVE  <<a, b, c, d>> \o s = Push(a, Push(b, Push(c, Push(d, s))))
<1> DEFINE p == <<a, b>>
           q == <<c, d>>
           l == <<a, b, c, d>>
<1>1. /\ p \in Seq(Tasks) /\ Len(p) = 2 /\ p[1] = a /\ p[2] = b
      /\ q \in Seq(Tasks) /\ Len(q) = 2 /\ q[1] = c /\ q[2] = d
      /\ l \in Seq(Tasks) /\ Len(l) = 4 /\ l[1] = a /\ l[2] = b /\ l[3] = c /\ l[4] = d
    OBVIOUS
<1> HIDE DEF p, q, l
<1>2. /\ p \o q \in Seq(Tasks) /\ Len(p \o q) = 4
      /\ \A i \in 1 .. 4 : (p \o q)[i] = IF i <= 2 THEN p[i] ELSE q[i - 2]
    <2>1. /\ p \o q \in Seq(Tasks) /\ Len(p \o q) = Len(p) + Len(q)
          /\ \A i \in 1 .. Len(p) + Len(q) : (p \o q)[i] = IF i <= Len(p) THEN p[i] ELSE q[i - Len(p)]
        BY <1>1, ConcatProperties
    <2> QED
        BY <1>1, <2>1
<1> DEFINE m == p \o q
<1> HIDE DEF m
<1>3. ASSUME NEW i \in 1 .. 4 PROVE m[i] = l[i]
    <2>1. m[1] = p[1] /\ m[2] = p[2] /\ m[3] = q[3 - 2] /\ m[4] = q[4 - 2]
        BY <1>2 DEF m
    <2>2. m[1] = l[1] /\ m[2] = l[2] /\ m[3] = l[3] /\ m[4] = l[4]
        BY <1>1, <2>1
    <2> QED
        BY <2>2
<1>4. m = l
    <2>1. m \in Seq(Tasks) /\ Len(m) = 4
        BY <1>2 DEF m
    <2> QED
        BY <1>1, <1>3, <2>1, SeqEqual
<1>5. l \o s = p \o (q \o s)
    <2>1. (p \o q) \o s = p \o (q \o s)
        <3>1. s \in Seq(Tasks)
            BY DEF Stack
        <3>2. p \in Seq(Tasks) /\ q \in Seq(Tasks)
            BY <1>1
        <3> QED
            BY <3>1, <3>2, Associative
    <2> QED
        BY <1>4, <2>1 DEF m
<1>6. q \o s = Push(c, Push(d, s)) /\ Push(c, Push(d, s)) \in Stack
    BY TwoTasks, PushedStack DEF q
<1>7. p \o Push(c, Push(d, s)) = Push(a, Push(b, Push(c, Push(d, s))))
    BY <1>6, TwoTasks DEF p
<1> QED
    BY <1>5, <1>6, <1>7 DEF l

LEMMA FiveTasks ==
    ASSUME NEW a \in Tasks, NEW b \in Tasks, NEW c \in Tasks, NEW d \in Tasks, NEW e \in Tasks
    PROVE  <<a, b, c, d, e>> = Push(a, Push(b, Push(c, Push(d, Push(e, <<>>)))))
<1> DEFINE p == <<a, b, c, d>>
           q == <<e>>
           l == <<a, b, c, d, e>>
<1>1. /\ p \in Seq(Tasks) /\ Len(p) = 4 /\ p[1] = a /\ p[2] = b /\ p[3] = c /\ p[4] = d
      /\ q \in Seq(Tasks) /\ Len(q) = 1 /\ q[1] = e
      /\ l \in Seq(Tasks) /\ Len(l) = 5
      /\ l[1] = a /\ l[2] = b /\ l[3] = c /\ l[4] = d /\ l[5] = e
    OBVIOUS
<1> HIDE DEF p, q, l
<1>2. /\ p \o q \in Seq(Tasks) /\ Len(p \o q) = 5
      /\ \A i \in 1 .. 5 : (p \o q)[i] = IF i <= 4 THEN p[i] ELSE q[i - 4]
    <2>1. /\ p \o q \in Seq(Tasks) /\ Len(p \o q) = Len(p) + Len(q)
          /\ \A i \in 1 .. Len(p) + Len(q) : (p \o q)[i] = IF i <= Len(p) THEN p[i] ELSE q[i - Len(p)]
        BY <1>1, ConcatProperties
    <2> QED
        BY <1>1, <2>1
<1> DEFINE m == p \o q
<1> HIDE DEF m
<1>3. ASSUME NEW i \in 1 .. 5 PROVE m[i] = l[i]
    <2>1. m[1] = p[1] /\ m[2] = p[2] /\ m[3] = p[3] /\ m[4] = p[4] /\ m[5] = q[5 - 4]
        BY <1>2 DEF m
    <2>2. m[1] = l[1] /\ m[2] = l[2] /\ m[3] = l[3] /\ m[4] = l[4] /\ m[5] = l[5]
        BY <1>1, <2>1
    <2> QED
        BY <2>2
<1>4. m = l
    <2>1. m \in Seq(Tasks) /\ Len(m) = 5
        BY <1>2 DEF m
    <2> QED
        BY <1>1, <1>3, <2>1, SeqEqual
<1>5. q = Push(e, <<>>) /\ q \in Stack
    <2>1. q \in Stack
        BY <1>1 DEF Stack
    <2>2. q \o <<>> = q
        BY <1>1, ConcatEmptySeq
    <2> QED
        BY <2>1, <2>2 DEF Push, q
<1>6. p \o q = Push(a, Push(b, Push(c, Push(d, q))))
    BY <1>5, FourTasks DEF p
<1> QED
    BY <1>4, <1>5, <1>6 DEF l, m

\* With the stack of t replaced by v.
With(f, t, v) == [f EXCEPT ![t] = v]

LEMMA WithStack ==
    ASSUME NEW f \in Stacks, NEW t \in Workers, NEW v \in Stack
    PROVE  With(f, t, v) \in Stacks /\ Becomes(f, With(f, t, v), t, v)
BY DEF With, Stacks, Becomes

LEMMA WithPush ==
    ASSUME NEW f \in Stacks, NEW t \in Workers, NEW v \in Stack, NEW a \in Tasks, NEW C, NEW x
    PROVE  Number(With(f, t, Push(a, v)), C, x) = Number(With(f, t, v), C, x) + Same(a, C, x)
<1>1. Push(a, v) \in Stack
    BY PushedStack
<1> DEFINE e == With(f, t, v)
           g == With(f, t, Push(a, v))
<1>2. e \in Stacks /\ g \in Stacks /\ Becomes(f, e, t, v) /\ Becomes(f, g, t, Push(a, v))
    BY <1>1, WithStack
<1> HIDE DEF e, g
<1>3. Becomes(e, g, t, Push(a, e[t]))
    BY <1>2 DEF Becomes
<1>4. Number(g, C, x) = Number(e, C, x) + Same(a, C, x)
    BY <1>2, <1>3, Pushed
<1> QED
    BY <1>4 DEF e, g

LEMMA Then4 ==
    ASSUME NEW f \in Stacks, NEW t \in Workers, f[t] # <<>>,
           NEW a \in Tasks, NEW b \in Tasks, NEW c \in Tasks, NEW d \in Tasks,
           NEW g, Replaces(f, g, t, <<a, b, c, d>>)
    PROVE  /\ g \in Stacks /\ Becomes(f, g, t, Push(a, Push(b, Push(c, Push(d, Tail(f[t]))))))
           /\ \A C, x : Number(g, C, x)
                        = Number(f, C, x) - Same(Head(f[t]), C, x)
                          + Same(d, C, x) + Same(c, C, x) + Same(b, C, x) + Same(a, C, x)
<1>0. \A s \in Stack : <<a, b, c, d>> \o s = Push(a, Push(b, Push(c, Push(d, s))))
    BY FourTasks
<1>1. f[t] \in Stack
    BY DEF Stacks
<1> PICK r \in Stack : r = Tail(f[t])
    BY <1>1, PoppedStack
<1> PICK v \in Stack : v = Push(d, r)
    BY PushedStack
<1> PICK w \in Stack : w = Push(c, v)
    BY PushedStack
<1> PICK y \in Stack : y = Push(b, w)
    BY PushedStack
<1> PICK z \in Stack : z = Push(a, y)
    BY PushedStack
<1>2. <<a, b, c, d>> \o r = z
    <2>1. <<a, b, c, d>> \o r = Push(a, Push(b, Push(c, Push(d, r))))
        BY <1>0
    <2> QED
        BY <2>1
<1>3. g = With(f, t, z) /\ g \in Stacks /\ Becomes(f, g, t, z)
    BY <1>2, WithStack DEF Replaces, With
<1>4. ASSUME NEW C, NEW x
      PROVE  Number(g, C, x)
             = Number(f, C, x) - Same(Head(f[t]), C, x)
               + Same(d, C, x) + Same(c, C, x) + Same(b, C, x) + Same(a, C, x)
    <2>1. With(f, t, r) \in Stacks /\ Becomes(f, With(f, t, r), t, r)
        BY WithStack
    <2>2. Number(With(f, t, r), C, x) = Number(f, C, x) - Same(Head(f[t]), C, x)
        BY <2>1, Popped
    <2>3. Number(With(f, t, v), C, x) = Number(With(f, t, r), C, x) + Same(d, C, x)
        BY WithPush
    <2>4. Number(With(f, t, w), C, x) = Number(With(f, t, v), C, x) + Same(c, C, x)
        BY WithPush
    <2>5. Number(With(f, t, y), C, x) = Number(With(f, t, w), C, x) + Same(b, C, x)
        BY WithPush
    <2>6. Number(With(f, t, z), C, x) = Number(With(f, t, y), C, x) + Same(a, C, x)
        BY WithPush
    <2> QED
        BY <1>3, <2>2, <2>3, <2>4, <2>5, <2>6
<1> QED
    BY <1>3, <1>4

LEMMA WithSame ==
    ASSUME NEW f \in Stacks, NEW t \in Workers
    PROVE  With(f, t, f[t]) = f
BY DEF With, Stacks

-----------------------------------------------------------------------------
\* What the counts say of a task that lies on a stack.

LEMMA TaskShape ==
    ASSUME NEW a \in Tasks
    PROVE  /\ a = <<a[1], a[2]>>
           /\ a[1] \in {"call", "irp", "lock", "io", "cancel", "release", "close", "rundown",
                        "unlock", "close_handle", "set_timeout"} => a[2] = None
           /\ a[1] \in {"keep", "is_set", "stop", "delete", "on_timer", "drop", "executed",
                        "returned"} => a[2] \in Timers
           /\ a[2] \in Timers \cup {None}
<1> DEFINE P == {"call", "irp", "lock", "io", "cancel", "release", "close", "rundown", "unlock",
                 "close_handle", "set_timeout", "swap"}
           Q == {"keep", "swap", "is_set", "stop", "delete", "on_timer", "drop", "executed",
                 "returned"}
<1>0. a \in (P \X {None}) \cup (Q \X Timers)
    BY DEF Tasks
<1> HIDE DEF P, Q
<1>1. CASE a \in P \X {None}
    <2>1. a = <<a[1], a[2]>> /\ a[1] \in P /\ a[2] = None
        BY <1>1
    <2> QED
        BY <2>1 DEF P
<1>2. CASE a \in Q \X Timers
    <2>1. a = <<a[1], a[2]>> /\ a[1] \in Q /\ a[2] \in Timers
        BY <1>2
    <2> QED
        BY <2>1 DEF Q
<1> QED
    BY <1>0, <1>1, <1>2

LEMMA Present ==
    ASSUME NEW f \in Stacks, NEW t \in Workers, NEW i \in 1 .. Len(f[t]), NEW C,
           f[t][i][1] \in C
    PROVE  Number(f, C, f[t][i][2]) > 0
<1> DEFINE x == f[t][i][2]
<1> PICK n \in Nat : n = Len(f[t])
    BY DEF Stacks, Stack
<1> PICK k \in 1 .. n : k = n + 1 - i
    BY LengthFrom
<1>1. Below(f[t], k) = f[t][i]
    <2>1. Len(f[t]) + 1 - k = i
        OBVIOUS
    <2> QED
        BY <2>1 DEF Below
<1>2. <<t, k>> \in Places(f, C, x)
    BY <1>1 DEF Places
<1> HIDE DEF x
<1>3. IsFiniteSet(Places(f, C, x)) /\ Number(f, C, x) \in Nat
    BY PlacesFinite
<1>4. Cardinality(Places(f, C, x)) # 0
    BY <1>2, <1>3, FS_EmptySet
<1> QED
    BY <1>3, <1>4 DEF Number, x

LEMMA Absent ==
    ASSUME NEW f \in Stacks, NEW C, NEW x,
           \A t \in Workers : \A i \in 1 .. Len(f[t]) : ~(f[t][i][1] \in C /\ f[t][i][2] = x)
    PROVE  Number(f, C, x) = 0
<1>1. ASSUME NEW p \in Places(f, C, x) PROVE FALSE
    <2> PICK t \in Workers, k \in Nat : p[1] = t /\ p[2] = k
        BY DEF Places
    <2> PICK n \in Nat : n = Len(f[t])
        BY DEF Stacks, Stack
    <2>1. k \in 1 .. n /\ f[t][n + 1 - k][1] \in C /\ f[t][n + 1 - k][2] = x
        BY DEF Places, Below
    <2>2. n + 1 - k \in 1 .. n
        BY <2>1, LengthFrom
    <2> QED
        BY <2>1, <2>2
<1>2. Places(f, C, x) = {}
    BY <1>1
<1> QED
    BY <1>2, FS_EmptySet DEF Number

\* The reference that a kept timer is given is not yet the one _pTimer holds.
LEMMA KeepSwap ==
    ASSUME NEW f \in Stacks, \A t \in Workers : Supported(f[t]), NEW x
    PROVE  Number(f, {"keep"}, x) <= Number(f, {"swap"}, x)
<1> DEFINE P == Places(f, {"keep"}, x)
           Q == Places(f, {"swap"}, x)
           m == [p \in P |-> <<p[1], p[2] - 1>>]
<1>1. ASSUME NEW p \in P PROVE <<p[1], p[2] - 1>> \in Q
    <2> PICK t \in Workers, k \in Nat : p = <<t, k>>
        BY DEF Places
    <2> PICK s \in Stack : s = f[t]
        BY DEF Stacks
    <2> PICK n \in Nat : n = Len(s)
        BY DEF Stack
    <2>1. k \in 1 .. n /\ s[n + 1 - k][1] = "keep" /\ s[n + 1 - k][2] = x
        BY DEF Places, Below
    <2> PICK i \in 1 .. n : i = n + 1 - k
        BY <2>1, LengthFrom
    <2>2. Backed(s[i], Rest(s, i))
        BY DEF Supported
    <2>3. Rest(s, i) # <<>> /\ Rest(s, i)[1] = <<"swap", x>>
        BY <2>1, <2>2 DEF Backed
    <2>4. i < n
        <3>1. CASE i = n
            <4>1. Rest(s, n) = <<>>
                <5>1. 1 .. Len(s) - n = {}
                    OBVIOUS
                <5> QED
                    BY <5>1 DEF Rest
            <4> QED
                BY <3>1, <4>1, <2>3
        <3> QED
            BY <3>1
    <2>5. Rest(s, i)[1] = s[i + 1]
        <3>1. 1 \in 1 .. Len(s) - i
            BY <2>4
        <3> QED
            BY <3>1 DEF Rest
    <2>6. k - 1 \in Nat /\ k - 1 \in 1 .. n /\ Len(s) + 1 - (k - 1) = i + 1
        BY <2>1, <2>4
    <2>7. Below(f[t], k - 1) = <<"swap", x>>
        BY <2>3, <2>5, <2>6 DEF Below
    <2>8. <<t, k - 1>> \in Q
        BY <2>6, <2>7 DEF Places
    <2> QED
        BY <2>8
<1>2. m \in Injection(P, Q)
    <2>1. m \in [P -> Q]
        BY <1>1
    <2>2. ASSUME NEW p \in P, NEW q \in P, m[p] = m[q] PROVE p = q
        <3>1. p \in Workers \X Nat /\ q \in Workers \X Nat
            BY DEF Places
        <3> QED
            BY <2>2, <3>1
    <2> QED
        BY <2>1, <2>2 DEF Injection, IsInjective
<1>3. IsFiniteSet(Q)
    BY PlacesFinite
<1> HIDE DEF P, Q, m
<1>4. Cardinality(P) <= Cardinality(Q)
    BY <1>2, <1>3, FS_Injection
<1> QED
    BY <1>4 DEF Number, P, Q

LEMMA ReferredFinite ==
    IsFiniteSet(Referred) /\ Cardinality(Referred) \in Nat
    /\ (Cardinality(Referred) = 0 => Referred = {})
<1>1. IsFiniteSet(Timers)
    BY Numbers, ObjectAssumption, FS_Interval
<1>2. Referred \in SUBSET Timers
    BY DEF Referred
<1>3. IsFiniteSet(Referred)
    BY <1>1, <1>2, FS_Subset
<1> QED
    BY <1>3, FS_CardinalityType, FS_EmptySet

\* A timer to which anything refers has not been freed.
LEMMA TimerIsThere ==
    ASSUME ObjectType, TimerRefs, Backing, NEW x \in Timers
    PROVE  /\ tRef[x] \in Nat
           /\ Number(todo, {"drop"}, x) > 0 => tRef[x] > 0
           /\ pTimer = x \/ queue[x] = "armed" => tRef[x] > 0
<1>1. Number(todo, {"keep"}, x) <= Number(todo, {"swap"}, x)
    BY KeepSwap DEF ObjectType, Backing
<1>2. /\ Number(todo, {"keep"}, x) \in Nat /\ Number(todo, {"swap"}, x) \in Nat
      /\ Number(todo, {"drop"}, x) \in Nat
    BY Integral DEF ObjectType
<1>3. Stored(x) \in {0, 1} /\ Armed(x) \in {0, 1}
    BY DEF Stored, Armed
<1>4. tRef[x] = Number(todo, {"drop"}, x) + Number(todo, {"swap"}, x)
                - Number(todo, {"keep"}, x) + Stored(x) + Armed(x)
    BY DEF TimerRefs
<1>5. pTimer = x => Stored(x) = 1
    BY DEF Stored
<1>6. queue[x] = "armed" => Armed(x) = 1
    BY DEF Armed
<1> QED
    BY <1>1, <1>2, <1>3, <1>4, <1>5, <1>6

LEMMA TimerIsKept ==
    ASSUME ObjectType, TimerRefs, Backing, NEW x \in Timers, NEW t \in Workers,
           KeepsTimer(todo[t], x)
    PROVE  tRef[x] > 0
<1> PICK i \in 1 .. Len(todo[t]) : todo[t][i] = <<"drop", x>>
    BY DEF KeepsTimer
<1>1. todo[t][i][1] \in {"drop"} /\ todo[t][i][2] = x
    OBVIOUS
<1>2. Number(todo, {"drop"}, x) > 0
    BY <1>1, Present DEF ObjectType
<1> QED
    BY <1>2, TimerIsThere

\* An object on which a thread has an owner's task or a timer has not been freed.
LEMMA ObjectIsKept ==
    ASSUME ObjectType, ObjectRefs, TimerRefs, Backing, NEW t \in Workers, Keeps(todo[t])
    PROVE  nRef > 0
<1> PICK i \in 1 .. Len(todo[t]) : todo[t][i][1] \in Owners \cup {"drop"}
    BY DEF Keeps
<1>1. todo[t][i] \in Tasks
    BY DEF ObjectType, Stacks, Stack
<1>2. Number(todo, Owners, None) \in Nat /\ Cardinality(Referred) \in Nat /\ irps \in Nat
    BY Integral, ReferredFinite DEF ObjectType
<1>3. CASE todo[t][i][1] \in Owners
    <2>1. todo[t][i][2] = None
        BY <1>1, <1>3, TaskShape DEF Owners
    <2>2. Number(todo, Owners, None) > 0
        BY <1>3, <2>1, Present DEF ObjectType
    <2> QED
        BY <1>2, <2>2 DEF ObjectRefs
<1>4. CASE todo[t][i][1] = "drop"
    <2> PICK x \in Timers : todo[t][i] = <<"drop", x>>
        BY <1>1, <1>4, TaskShape
    <2>1. tRef[x] > 0
        BY TimerIsKept DEF KeepsTimer
    <2>2. Cardinality(Referred) # 0
        BY <2>1, ReferredFinite DEF Referred
    <2> QED
        BY <1>2, <2>2 DEF ObjectRefs
<1> QED
    BY <1>3, <1>4

\* And when it has been freed, nothing is left that would need it.
LEMMA Gone ==
    ASSUME ObjectType, ObjectRefs, HandleRefs, TimerRefs, Backing, nRef = 0
    PROVE  held = 0 /\ irps = 0 /\ started = 0 /\ pTimer = None /\ \A x \in Timers : tRef[x] = 0
<1>1. Number(todo, Owners, None) \in Nat /\ Cardinality(Referred) \in Nat /\ irps \in Nat
    BY Integral, ReferredFinite DEF ObjectType
<1>2. Number(todo, Owners, None) = 0 /\ Cardinality(Referred) = 0 /\ irps = 0
    BY <1>1 DEF ObjectRefs
<1>3. \A x \in Timers : tRef[x] = 0
    <2> TAKE x \in Timers
    <2>1. ~(tRef[x] > 0) /\ tRef[x] \in Nat
        BY <1>2, ReferredFinite, TimerIsThere DEF Referred
    <2> QED
        BY <2>1
<1>4. pTimer = None
    BY <1>3, TimerIsThere DEF ObjectType
<1>5. ASSUME NEW t \in Workers, NEW i \in 1 .. Len(todo[t])
      PROVE  todo[t][i][1] \notin {"unlock"} \cup Owners
    <2>1. todo[t][i] \in Tasks
        BY DEF ObjectType, Stacks, Stack
    <2>2. todo[t][i][1] \notin Owners
        <3> SUFFICES ASSUME todo[t][i][1] \in Owners PROVE FALSE
            OBVIOUS
        <3>1. todo[t][i][2] = None
            BY <2>1, TaskShape DEF Owners
        <3>2. Number(todo, Owners, None) > 0
            BY <3>1, Present DEF ObjectType
        <3> QED
            BY <1>2, <3>2
    <2>3. ASSUME todo[t][i][1] = "unlock" PROVE FALSE
        <3>1. Keeps(Rest(todo[t], i))
            BY <2>3 DEF Backing, Supported, Backed
        <3>2. Keeps(todo[t])
            <4> PICK n \in Nat : n = Len(todo[t])
                BY DEF ObjectType, Stacks, Stack
            <4>1. PICK j \in 1 .. Len(Rest(todo[t], i)) :
                        Rest(todo[t], i)[j][1] \in Owners \cup {"drop"}
                BY <3>1 DEF Keeps
            <4>2. Len(Rest(todo[t], i)) = n - i
                BY LenRest DEF ObjectType, Stacks
            <4>3. j \in 1 .. n - i /\ i + j \in 1 .. n
                BY <4>1, <4>2
            <4>4. Rest(todo[t], i)[j] = todo[t][i + j]
                BY <4>3 DEF Rest
            <4> QED
                BY <4>1, <4>3, <4>4 DEF Keeps
        <3> QED
            BY <3>2, ObjectIsKept
    <2> QED
        BY <2>2, <2>3
<1>6. Number(todo, {"unlock", "io"}, None) = 0
    BY <1>5, Absent DEF ObjectType, Owners
<1>7. Number(todo, {"lock", "io", "cancel"}, None) = 0
    <2>1. ASSUME NEW t \in Workers, NEW i \in 1 .. Len(todo[t])
          PROVE  ~(todo[t][i][1] \in {"lock", "io", "cancel"} /\ todo[t][i][2] = None)
        BY <1>5 DEF Owners
    <2>2. todo \in Stacks
        BY DEF ObjectType
    <2> QED
        BY <2>1, <2>2, Absent
<1> QED
    BY <1>2, <1>3, <1>4, <1>6, <1>7 DEF HandleRefs

\* The task that a thread will do next, and what lies below it.
LEMMA NextTask ==
    ASSUME ObjectType, Backing, NEW t \in Workers, todo[t] # <<>>
    PROVE  LET h == Head(todo[t])
               r == Tail(todo[t]) IN
           /\ todo[t] \in Stack /\ h \in Tasks /\ r \in Stack /\ todo[t] = Push(h, r)
           /\ h = todo[t][1] /\ 1 \in 1 .. Len(todo[t])
           /\ Supported(r) /\ Clear(r) /\ Backed(h, r)
<1>1. todo[t] \in Stack
    BY DEF ObjectType, Stacks
<1>2. /\ Head(todo[t]) \in Tasks /\ Tail(todo[t]) \in Stack
      /\ todo[t] = Push(Head(todo[t]), Tail(todo[t]))
      /\ Head(todo[t]) = todo[t][1] /\ Len(todo[t]) \in Nat \ {0}
    BY <1>1, PoppedStack
<1>3. Supported(todo[t])
    BY DEF Backing
<1>4. Supported(Tail(todo[t])) /\ Clear(Tail(todo[t])) /\ Backed(Head(todo[t]), Tail(todo[t]))
    BY <1>2, <1>3, SupportedBelow
<1> QED
    BY <1>1, <1>2, <1>4

\* It is counted.
LEMMA NextCounted ==
    ASSUME ObjectType, NEW t \in Workers, todo[t] # <<>>, NEW C, Head(todo[t])[1] \in C
    PROVE  Number(todo, C, Head(todo[t])[2]) > 0
<1>1. Head(todo[t]) = todo[t][1] /\ 1 \in 1 .. Len(todo[t])
    BY PoppedStack DEF ObjectType, Stacks
<1> QED
    BY <1>1, Present DEF ObjectType

LEMMA NextKept ==
    ASSUME ObjectType, ObjectRefs, TimerRefs, Backing, NEW t \in Workers, todo[t] # <<>>
    PROVE  LET h == Head(todo[t]) IN
           /\ h[1] \in {"irp", "lock", "io", "close", "rundown", "unlock", "close_handle",
                        "set_timeout", "swap"} \cup Owners => nRef > 0
           /\ h[1] \in {"keep", "is_set", "stop", "delete", "on_timer", "drop", "executed"}
                => tRef[h[2]] > 0 /\ nRef > 0
<1> DEFINE h == Head(todo[t])
           r == Tail(todo[t])
<1>1. /\ h \in Tasks /\ r \in Stack /\ todo[t] = Push(h, r) /\ Backed(h, r)
      /\ h = todo[t][1] /\ 1 \in 1 .. Len(todo[t])
    BY NextTask
<1> HIDE DEF h, r
<1>2. ASSUME Keeps(r) \/ h[1] \in Owners \cup {"drop"} PROVE nRef > 0
    <2>1. Keeps(todo[t])
        BY <1>1, <1>2, KeepsPush
    <2> QED
        BY <2>1, ObjectIsKept
<1>3. ASSUME NEW x \in Timers, KeepsTimer(r, x) \/ h = <<"drop", x>> PROVE tRef[x] > 0
    <2>1. KeepsTimer(todo[t], x)
        BY <1>1, <1>3, KeepsPush
    <2> QED
        BY <2>1, TimerIsKept
<1>4. h[1] \in {"irp", "lock", "io", "close", "rundown", "unlock", "close_handle",
                "set_timeout", "swap"} => Keeps(r)
    BY <1>1 DEF Backed
<1>5. ASSUME h[1] \in {"keep", "is_set", "stop", "delete", "on_timer", "executed"}
      PROVE  KeepsTimer(r, h[2]) /\ h[2] \in Timers /\ Keeps(r)
    <2>1. KeepsTimer(r, h[2])
        BY <1>1, <1>5 DEF Backed
    <2>2. h[2] \in Timers
        BY <1>1, <1>5, TaskShape
    <2> QED
        BY <1>1, <2>1, <2>2, KeepsPush
<1>6. ASSUME h[1] = "drop" PROVE h = <<"drop", h[2]>> /\ h[2] \in Timers
    BY <1>1, <1>6, TaskShape
<1>7. /\ h[1] \in {"irp", "lock", "io", "close", "rundown", "unlock", "close_handle",
                   "set_timeout", "swap"} \cup Owners => nRef > 0
    BY <1>2, <1>4
<1>8. h[1] \in {"keep", "is_set", "stop", "delete", "on_timer", "drop", "executed"}
        => tRef[h[2]] > 0 /\ nRef > 0
    BY <1>2, <1>3, <1>5, <1>6
<1> QED
    BY <1>7, <1>8 DEF h

LEMMA InvIsSafe == ObjectInv => NothingUsedAfterFree
<1> SUFFICES ASSUME ObjectInv PROVE NothingUsedAfterFree
    OBVIOUS
<1>0. ObjectType /\ ObjectRefs /\ HandleRefs /\ TimerRefs /\ Backing /\ Closing
    BY DEF ObjectInv
<1>1. ASSUME NEW t \in Workers, NEW a \in Object!OnHandle, Object!At(t, a) PROVE nRef > 0
    <2>1. todo[t] # <<>> /\ Head(todo[t])[1] = a
        BY <1>1 DEF Object!At
    <2> QED
        BY <1>0, <2>1, NextKept DEF Object!OnHandle, Owners
<1>2. ASSUME NEW t \in Workers, NEW a \in Object!OnTimer_, Object!At(t, a)
      PROVE  tRef[Object!Of(t)] > 0
    <2>1. todo[t] # <<>> /\ Head(todo[t])[1] = a
        BY <1>2 DEF Object!At
    <2> QED
        BY <1>0, <2>1, NextKept DEF Object!OnTimer_, Object!Of
<1>3. ASSUME NEW t \in Workers, Object!At(t, "io") PROVE hFile = "open"
    <2>1. todo[t] # <<>> /\ Head(todo[t])[1] = "io"
        BY <1>3 DEF Object!At
    <2>2. Head(todo[t])[2] = None
        BY <1>0, <2>1, NextTask, TaskShape
    <2>3. Number(todo, {"unlock", "io"}, None) > 0
        BY <1>0, <2>1, <2>2, NextCounted
    <2> QED
        <3>1. held = Number(todo, {"unlock", "io"}, None)
            BY <1>0 DEF HandleRefs
        <3>2. held # 0
            BY <2>3, <3>1
        <3> QED
            BY <1>0, <3>2 DEF Closing, ObjectType
<1>4. nRef = 0 => held = 0 /\ irps = 0 /\ started = 0 /\ pTimer = None /\ \A x \in Timers : tRef[x] = 0
    BY <1>0, Gone
<1> QED
    BY <1>1, <1>2, <1>3, <1>4
    DEF NothingUsedAfterFree, Object!NothingUsedAfterFree, Workers, Timers, None

LEMMA InvIsOnce == ObjectInv => OneTimeout
<1> SUFFICES ASSUME ObjectInv PROVE OneTimeout
    OBVIOUS
<1>0. ObjectType /\ ObjectRefs /\ TimerRefs /\ Backing /\ Timeouts
    BY DEF ObjectInv
<1> SUFFICES ASSUME NEW x \in Timers
             PROVE  timeouts[x] <= 1 /\ (tRef[x] = 0 /\ queue[x] # "none" => timeouts[x] = 1)
    BY DEF OneTimeout, Object!OneTimeout, Timers
<1>1. Number(todo, {"on_timer"}, x) \in Nat /\ timeouts[x] \in Nat
    BY <1>0, Integral DEF ObjectType
<1>2. Armed(x) \in {0, 1}
    BY DEF Armed
<1>3. queue[x] # "none" => Armed(x) + Number(todo, {"on_timer"}, x) + timeouts[x] = 1
    BY <1>0 DEF Timeouts
<1>4. queue[x] = "none" => timeouts[x] = 0
    BY <1>0 DEF Timeouts
<1>5. ASSUME tRef[x] = 0 PROVE Armed(x) = 0 /\ Number(todo, {"on_timer"}, x) = 0
    <2>1. queue[x] # "armed"
        BY <1>0, <1>5, TimerIsThere
    <2>2. ASSUME NEW t \in Workers, NEW i \in 1 .. Len(todo[t]),
                 todo[t][i][1] = "on_timer", todo[t][i][2] = x
          PROVE  FALSE
        <3> PICK n \in Nat : n = Len(todo[t])
            BY <1>0 DEF ObjectType, Stacks, Stack
        <3>1. KeepsTimer(Rest(todo[t], i), x)
            BY <1>0, <2>2 DEF Backing, Supported, Backed
        <3>2. PICK j \in 1 .. Len(Rest(todo[t], i)) : Rest(todo[t], i)[j] = <<"drop", x>>
            BY <3>1 DEF KeepsTimer
        <3>3. Len(Rest(todo[t], i)) = n - i
            BY <1>0, LenRest DEF ObjectType, Stacks
        <3>4. j \in 1 .. n - i /\ i + j \in 1 .. n
            BY <3>2, <3>3
        <3>5. Rest(todo[t], i)[j] = todo[t][i + j]
            BY <3>4 DEF Rest
        <3>6. KeepsTimer(todo[t], x)
            BY <3>2, <3>4, <3>5 DEF KeepsTimer
        <3> QED
            BY <1>0, <1>5, <3>6, TimerIsKept
    <2>3. Number(todo, {"on_timer"}, x) = 0
        BY <1>0, <2>2, Absent DEF ObjectType
    <2> QED
        BY <2>1, <2>3 DEF Armed
<1> PICK n \in Nat : n = timeouts[x]
    BY <1>1
<1> PICK k \in Nat : k = Number(todo, {"on_timer"}, x)
    BY <1>1
<1> PICK o \in {0, 1} : o = Armed(x)
    BY <1>2
<1>6. queue[x] # "none" => o + k + n = 1
    BY <1>3
<1>7. queue[x] = "none" => n = 0
    BY <1>4
<1>8. n <= 1
    BY <1>6, <1>7
<1>9. ASSUME tRef[x] = 0, queue[x] # "none" PROVE n = 1
    <2>1. o = 0 /\ k = 0
        BY <1>5, <1>9
    <2> QED
        BY <1>6, <1>9, <2>1
<1> QED
    BY <1>8, <1>9

-----------------------------------------------------------------------------
\* The initial states.

LEMMA ObjectInit == Object!Init => ObjectInv
<1> SUFFICES ASSUME Object!Init PROVE ObjectInv
    OBVIOUS
<1> DEFINE call == <<"call", None>>
<1>1. call \in Tasks /\ <<>> \in Stack /\ Push(call, <<>>) = <<call>> /\ Push(call, <<>>) \in Stack
    <2>1. call \in Tasks /\ <<>> \in Stack
        BY EmptySeq DEF Tasks, Stack
    <2>2. <<call>> \in Seq(Tasks)
        BY <2>1
    <2>3. <<call>> \o <<>> = <<call>>
        BY <2>2, ConcatEmptySeq
    <2> QED
        BY <2>1, <2>3, PushedStack DEF Push
<1>2. \A t \in Workers : todo[t] = IF t \in Users THEN Push(call, <<>>) ELSE <<>>
    BY <1>1 DEF Object!Init, Workers, None
<1>3. todo \in Stacks
    BY <1>1 DEF Object!Init, Workers, None, Stacks
<1>0. nRef = Cardinality(Users) /\ Cardinality(Users) \in Nat
    <2>1. Cardinality(Users) \in Nat
        BY ObjectAssumption, FS_CardinalityType
    <2>2. nRef = Cardinality(Users)
        BY DEF Object!Init, Object!Cardinality, Cardinality
    <2> QED
        BY <2>1, <2>2
<1>4. ObjectType
    <2>1. nRef \in Int
        BY <1>0
    <2> QED
        BY <1>3, <2>1 DEF ObjectType, Object!Init, Timers, None
<1>5. ASSUME NEW t \in Workers, NEW i \in 1 .. Len(todo[t])
      PROVE  t \in Users /\ i = 1 /\ todo[t][i] = call
    <2>1. Len(<<>>) = 0 /\ Len(Push(call, <<>>)) = 0 + 1 /\ Push(call, <<>>)[1] = call
        BY <1>1, EmptySeq, PushedStack
    <2> HIDE DEF call
    <2>2. CASE t \in Users
        <3>1. Len(todo[t]) = 1 /\ todo[t][1] = call
            BY <1>2, <2>1, <2>2
        <3> QED
            BY <2>2, <3>1
    <2>3. CASE t \notin Users
        <3>1. Len(todo[t]) = 0
            BY <1>2, <2>1, <2>3
        <3> QED
            BY <3>1
    <2> QED
        BY <2>2, <2>3
<1>6. \A C, x : "call" \notin C => Number(todo, C, x) = 0
    <2> TAKE C, x
    <2> HAVE "call" \notin C
    <2>1. \A t \in Workers : \A i \in 1 .. Len(todo[t]) : ~(todo[t][i][1] \in C /\ todo[t][i][2] = x)
        BY <1>5
    <2> QED
        BY <1>3, <2>1, Absent
<1>7. ObjectRefs
    <2> DEFINE P == Places(todo, Owners, None)
               m == [u \in Users |-> <<u, 1>>]
    <2>1. ASSUME NEW u \in Users PROVE <<u, 1>> \in P
        <3>1. u \in Workers /\ todo[u] = Push(call, <<>>)
            <4>1. u \in Workers
                BY DEF Workers, Object!Workers
            <4> QED
                BY <1>2, <4>1
        <3>2. Len(todo[u]) = 1 /\ todo[u][1] = call
            <4>1. Len(<<>>) = 0 /\ Len(Push(call, <<>>)) = 0 + 1 /\ Push(call, <<>>)[1] = call
                BY <1>1, EmptySeq, PushedStack
            <4> QED
                BY <3>1, <4>1
        <3>3. Below(todo[u], 1) = call
            BY <3>2 DEF Below
        <3> QED
            BY <3>1, <3>2, <3>3 DEF Places, Owners
    <2>2. ASSUME NEW p \in P PROVE \E u \in Users : p = <<u, 1>>
        <3> PICK t \in Workers, k \in Nat : p = <<t, k>>
            BY DEF Places
        <3> PICK n \in Nat : n = Len(todo[t])
            BY <1>3 DEF Stacks, Stack
        <3>1. k \in 1 .. n
            BY DEF Places
        <3>2. n + 1 - k \in 1 .. n
            BY <3>1, LengthFrom
        <3>3. t \in Users /\ n + 1 - k = 1 /\ n \in 1 .. n
            BY <1>5, <3>1, <3>2
        <3>4. n = 1
            BY <1>5, <3>3
        <3> QED
            BY <3>3, <3>4
    <2>3. m \in Bijection(Users, P)
        BY <2>1, <2>2 DEF Bijection, Injection, Surjection, IsInjective
    <2> HIDE DEF P, m
    <2>4. Cardinality(P) = Cardinality(Users)
        BY <2>3, ObjectAssumption, FS_Bijection DEF ExistsBijection
    <2>5. Referred = {}
        BY DEF Referred, Object!Init, Timers
    <2>6. Cardinality(Referred) = 0
        BY <2>5, FS_EmptySet
    <2>7. nRef = Cardinality(Users) /\ irps = 0 /\ Cardinality(Users) \in Int
        BY <1>0 DEF Object!Init
    <2> QED
        BY <2>4, <2>6, <2>7 DEF ObjectRefs, Number, P
<1>8. HandleRefs /\ Closing
    <2>1. /\ Number(todo, {"unlock", "io"}, None) = 0 /\ Number(todo, {"lock", "io", "cancel"}, None) = 0
          /\ Number(todo, {"close_handle"}, None) = 0
        BY <1>6
    <2> QED
        BY <2>1 DEF HandleRefs, Closing, Object!Init
<1>9. TimerRefs /\ Timeouts
    <2>1. ASSUME NEW x \in Timers
          PROVE  /\ Number(todo, {"drop"}, x) = 0 /\ Number(todo, {"swap"}, x) = 0
                 /\ Number(todo, {"keep"}, x) = 0 /\ Number(todo, {"delete"}, x) = 0
                 /\ Number(todo, {"on_timer"}, x) = 0
        BY <1>6
    <2>2. ASSUME NEW x \in Timers
          PROVE  /\ Stored(x) = 0 /\ Armed(x) = 0 /\ Queued(x) = 0 /\ tRef[x] = 0 /\ timeouts[x] = 0
                 /\ ~isSet[x] /\ ~cbExecuted[x] /\ queue[x] = "none"
        BY Numbers DEF Object!Init, Stored, Armed, Queued, Timers, None
    <2> QED
        BY <2>1, <2>2 DEF TimerRefs, Timeouts
<1>10. Backing
    BY <1>5 DEF Backing, Supported, Backed
<1>11. Callback
    <2>1. ASSUME NEW t \in Workers, NEW x \in Timers, Calls(todo[t], x) PROVE FALSE
        <3>1. todo[t] \in Stack /\ todo[t] # <<>>
            BY <1>3, <2>1 DEF Stacks, Calls
        <3>2. Len(todo[t]) \in 1 .. Len(todo[t])
            BY <3>1, PoppedStack
        <3> QED
            BY <1>5, <2>1, <3>2 DEF Calls
    <2> QED
        BY <2>1 DEF Callback
<1> QED
    BY <1>4, <1>7, <1>8, <1>9, <1>10, <1>11 DEF ObjectInv

-----------------------------------------------------------------------------
\* What the steps have in common.

\* Callbacks that run go on, and what has been executed has.
GoOn == \A x \in Timers : /\ cbExecuted[x] => cbExecuted'[x]
                          /\ queue[x] = "running" => queue'[x] = "running"

LEMMA StackStep ==
    ASSUME ObjectType, Backing, Callback, NEW t \in Workers, todo[t] # <<>>,
           Head(todo[t])[1] # "executed", GoOn, NEW v \in Stack, Becomes(todo, todo', t, v),
           Supported(v), \A x \in Timers : Calls(v, x) => Calls(Tail(todo[t]), x)
    PROVE  Backing' /\ Callback'
<1>1. Backing'
    BY DEF Backing, Becomes
<1>2. ASSUME NEW u \in Workers, NEW x \in Timers, Calls(todo'[u], x)
      PROVE  u = Clock /\ queue'[x] = "running" /\ (cbExecuted'[x] \/ todo'[u][1] = <<"executed", x>>)
    <2>1. CASE u # t
        <3>1. todo'[u] = todo[u]
            BY <2>1 DEF Becomes
        <3> QED
            BY <1>2, <3>1 DEF Callback, GoOn
    <2>2. CASE u = t
        <3>1. Calls(Tail(todo[t]), x)
            BY <1>2, <2>2 DEF Becomes
        <3>2. /\ todo[t] = Push(Head(todo[t]), Tail(todo[t])) /\ Head(todo[t]) \in Tasks
              /\ Tail(todo[t]) \in Stack /\ Head(todo[t]) = todo[t][1]
            BY NextTask
        <3>3. Calls(todo[t], x)
            BY <3>1, <3>2, CallsPush DEF Calls
        <3>4. t = Clock /\ queue[x] = "running" /\ (cbExecuted[x] \/ todo[t][1] = <<"executed", x>>)
            BY <3>3 DEF Callback
        <3>5. cbExecuted[x]
            BY <3>2, <3>4
        <3> QED
            BY <2>2, <3>4, <3>5 DEF GoOn
    <2> QED
        BY <2>1, <2>2
<1>3. Callback'
    BY <1>2 DEF Callback
<1> QED
    BY <1>1, <1>3

\* A task other than a callback's first or last.
Ordinary(a) == a \in Tasks /\ a[1] \notin {"executed", "returned"}

LEMMA OnTop ==
    ASSUME NEW v \in Stack, NEW a, Ordinary(a), Supported(v), Clear(v), Backed(a, v)
    PROVE  /\ Push(a, v) \in Stack /\ Supported(Push(a, v)) /\ Clear(Push(a, v))
           /\ \A x : Calls(Push(a, v), x) => Calls(v, x)
BY PushedStack, SupportedPush, CallsPush DEF Ordinary

LEMMA Step0 ==
    ASSUME ObjectType, Backing, Callback, NEW t \in Workers, todo[t] # <<>>,
           Head(todo[t])[1] # "executed", GoOn, Object!Then(t, <<>>)
    PROVE  /\ todo' \in Stacks /\ Backing' /\ Callback'
           /\ \A C, x : Number(todo', C, x) = Number(todo, C, x) - Same(Head(todo[t]), C, x)
<1>1. /\ todo' \in Stacks /\ Becomes(todo, todo', t, Tail(todo[t]))
      /\ \A C, x : Number(todo', C, x) = Number(todo, C, x) - Same(Head(todo[t]), C, x)
    <2>1. Replaces(todo, todo', t, <<>>) /\ todo \in Stacks
        BY DEF Replaces, Object!Then, ObjectType
    <2> QED
        BY <2>1, Then0
<1>2. Tail(todo[t]) \in Stack /\ Supported(Tail(todo[t]))
    BY NextTask
<1> QED
    BY <1>1, <1>2, StackStep

LEMMA Step1 ==
    ASSUME ObjectType, Backing, Callback, NEW t \in Workers, todo[t] # <<>>,
           Head(todo[t])[1] # "executed", GoOn, NEW a, Ordinary(a), Object!Then(t, <<a>>),
           Backed(a, Tail(todo[t]))
    PROVE  /\ todo' \in Stacks /\ Backing' /\ Callback'
           /\ \A C, x : Number(todo', C, x)
                        = Number(todo, C, x) - Same(Head(todo[t]), C, x) + Same(a, C, x)
<1>0. a \in Tasks
    BY DEF Ordinary
<1>1. /\ todo' \in Stacks /\ Becomes(todo, todo', t, Push(a, Tail(todo[t])))
      /\ \A C, x : Number(todo', C, x)
                   = Number(todo, C, x) - Same(Head(todo[t]), C, x) + Same(a, C, x)
    <2>1. Replaces(todo, todo', t, <<a>>) /\ todo \in Stacks
        BY DEF Replaces, Object!Then, ObjectType
    <2> QED
        BY <1>0, <2>1, Then1
<1>2. Tail(todo[t]) \in Stack /\ Supported(Tail(todo[t])) /\ Clear(Tail(todo[t]))
    BY NextTask
<1>3. /\ Push(a, Tail(todo[t])) \in Stack /\ Supported(Push(a, Tail(todo[t])))
      /\ \A x : Calls(Push(a, Tail(todo[t])), x) => Calls(Tail(todo[t]), x)
    BY <1>2, OnTop
<1> QED
    BY <1>1, <1>3, StackStep

LEMMA Step2 ==
    ASSUME ObjectType, Backing, Callback, NEW t \in Workers, todo[t] # <<>>,
           Head(todo[t])[1] # "executed", GoOn, NEW a, NEW b, Ordinary(a), Ordinary(b),
           Object!Then(t, <<a, b>>), Backed(b, Tail(todo[t])),
           Backed(a, Push(b, Tail(todo[t])))
    PROVE  /\ todo' \in Stacks /\ Backing' /\ Callback'
           /\ \A C, x : Number(todo', C, x)
                        = Number(todo, C, x) - Same(Head(todo[t]), C, x) + Same(b, C, x) + Same(a, C, x)
<1>0. a \in Tasks /\ b \in Tasks
    BY DEF Ordinary
<1>1. /\ todo' \in Stacks /\ Becomes(todo, todo', t, Push(a, Push(b, Tail(todo[t]))))
      /\ \A C, x : Number(todo', C, x)
                   = Number(todo, C, x) - Same(Head(todo[t]), C, x) + Same(b, C, x) + Same(a, C, x)
    <2>1. Replaces(todo, todo', t, <<a, b>>) /\ todo \in Stacks
        BY DEF Replaces, Object!Then, ObjectType
    <2> QED
        BY <1>0, <2>1, Then2
<1>2. Tail(todo[t]) \in Stack /\ Supported(Tail(todo[t])) /\ Clear(Tail(todo[t]))
    BY NextTask
<1> PICK w \in Stack : w = Push(b, Tail(todo[t]))
    BY <1>0, <1>2, PushedStack
<1>3. Supported(w) /\ Clear(w) /\ \A x : Calls(w, x) => Calls(Tail(todo[t]), x)
    BY <1>2, OnTop
<1>4. Push(a, w) \in Stack /\ Supported(Push(a, w)) /\ \A x : Calls(Push(a, w), x) => Calls(w, x)
    BY <1>3, OnTop
<1> QED
    BY <1>1, <1>3, <1>4, StackStep

\* What a step leaves alone.
NamedOfTimer == {"drop", "swap", "keep", "on_timer", "delete"}
NamedOfHandle == {{"unlock", "io"}, {"lock", "io", "cancel"}, {"close_handle"}}
NotOfTimers(a) == a[1] \notin NamedOfTimer \/ a[2] = None
NotOfHandle(a) == a[1] \notin {"unlock", "io", "lock", "cancel", "close_handle"}

LEMMA SameOfTimers ==
    ASSUME NEW a, NotOfTimers(a), NEW x \in Timers, NEW c \in NamedOfTimer
    PROVE  Same(a, {c}, x) = 0
BY Numbers DEF NotOfTimers, Same

LEMMA SameOfHandle ==
    ASSUME NEW a, NotOfHandle(a), NEW C \in NamedOfHandle
    PROVE  Same(a, C, None) = 0
BY DEF NotOfHandle, NamedOfHandle, Same

LEMMA TimersSame ==
    ASSUME TimerRefs, Timeouts,
           UNCHANGED <<tRef, isSet, cbExecuted, queue, timeouts, pTimer>>,
           \A x \in Timers : \A c \in NamedOfTimer : Number(todo', {c}, x) = Number(todo, {c}, x)
    PROVE  TimerRefs' /\ Timeouts'
<1>1. ASSUME NEW x \in Timers
      PROVE  /\ Number(todo', {"drop"}, x) = Number(todo, {"drop"}, x)
             /\ Number(todo', {"swap"}, x) = Number(todo, {"swap"}, x)
             /\ Number(todo', {"keep"}, x) = Number(todo, {"keep"}, x)
             /\ Number(todo', {"on_timer"}, x) = Number(todo, {"on_timer"}, x)
             /\ Number(todo', {"delete"}, x) = Number(todo, {"delete"}, x)
    BY DEF NamedOfTimer
<1>2. \A x \in Timers : Stored(x)' = Stored(x) /\ Armed(x)' = Armed(x) /\ Queued(x)' = Queued(x)
    BY DEF Stored, Armed, Queued
<1> QED
    BY <1>1, <1>2 DEF TimerRefs, Timeouts

LEMMA HandleSame ==
    ASSUME HandleRefs, Closing, UNCHANGED <<held, started, irps, hFile, up>>,
           \A C \in NamedOfHandle : Number(todo', C, None) = Number(todo, C, None)
    PROVE  HandleRefs' /\ Closing'
<1>1. /\ Number(todo', {"unlock", "io"}, None) = Number(todo, {"unlock", "io"}, None)
      /\ Number(todo', {"lock", "io", "cancel"}, None) = Number(todo, {"lock", "io", "cancel"}, None)
      /\ Number(todo', {"close_handle"}, None) = Number(todo, {"close_handle"}, None)
    BY DEF NamedOfHandle
<1> QED
    BY <1>1 DEF HandleRefs, Closing

-----------------------------------------------------------------------------
\* Each operation keeps the invariant.

PlainNames == {"call", "irp", "lock", "io", "cancel", "release", "close", "rundown", "unlock",
               "close_handle", "set_timeout", "swap"}

LEMMA PlainTask ==
    ASSUME NEW c \in PlainNames
    PROVE  LET a == <<c, None>> IN
           /\ Object!Task(c) = a /\ Ordinary(a) /\ a[1] = c /\ a[2] = None
           /\ NotOfTimers(a)
BY DEF PlainNames, Object!Task, None, Ordinary, Tasks, NotOfTimers

LEMMA AtTask ==
    ASSUME ObjectType, NEW t \in Workers, NEW c, Object!At(t, c)
    PROVE  /\ todo[t] # <<>> /\ Head(todo[t]) \in Tasks /\ Head(todo[t])[1] = c
           /\ Head(todo[t]) = <<c, Head(todo[t])[2]>>
           /\ c \in PlainNames \ {"swap"} => Head(todo[t])[2] = None
           /\ c \notin NamedOfTimer => NotOfTimers(Head(todo[t]))
           /\ Object!Of(t) = Head(todo[t])[2]
<1>1. todo[t] # <<>> /\ Head(todo[t])[1] = c
    BY DEF Object!At
<1>2. Head(todo[t]) \in Tasks
    BY <1>1, PoppedStack DEF ObjectType, Stacks
<1> QED
    BY <1>1, <1>2, TaskShape DEF PlainNames, NotOfTimers, Object!Of

\* The steps from and to tasks that are not counted for a timer.
QuietNames == (PlainNames \ {"swap"}) \cup {"is_set"}
In(c, C) == IF c \in C THEN 1 ELSE 0
TimersStay == UNCHANGED <<tRef, isSet, cbExecuted, queue, timeouts, pTimer>>
Kept == /\ todo' \in Stacks /\ Backing' /\ Callback' /\ TimerRefs' /\ Timeouts'
        /\ Referred' = Referred

LEMMA QuietTask ==
    ASSUME ObjectType, NEW t \in Workers, NEW c \in QuietNames, Object!At(t, c)
    PROVE  /\ todo[t] # <<>> /\ Head(todo[t])[1] = c /\ c # "executed" /\ NotOfTimers(Head(todo[t]))
           /\ \A C : "is_set" \notin C => Same(Head(todo[t]), C, None) = In(c, C)
<1>1. c \notin NamedOfTimer /\ c # "executed"
    BY DEF QuietNames, PlainNames, NamedOfTimer
<1>2. /\ todo[t] # <<>> /\ Head(todo[t])[1] = c /\ NotOfTimers(Head(todo[t]))
      /\ c \in PlainNames \ {"swap"} => Head(todo[t])[2] = None
    BY <1>1, AtTask
<1>3. \A C : "is_set" \notin C => Same(Head(todo[t]), C, None) = In(c, C)
    BY <1>2 DEF Same, In, QuietNames
<1> QED
    BY <1>1, <1>2, <1>3

LEMMA StayGoOn == ASSUME TimersStay PROVE GoOn /\ Referred' = Referred
BY DEF TimersStay, GoOn, Referred

LEMMA PlainIn ==
    ASSUME NEW d \in PlainNames, NEW C
    PROVE  Same(<<d, None>>, C, None) = In(d, C)
BY DEF Same, In

LEMMA StayKept ==
    ASSUME TimersStay, TimerRefs, Timeouts, todo' \in Stacks, Backing', Callback',
           \A x \in Timers : \A c \in NamedOfTimer : Number(todo', {c}, x) = Number(todo, {c}, x)
    PROVE  Kept
<1>1. TimerRefs' /\ Timeouts'
    BY TimersSame DEF TimersStay
<1> QED
    BY <1>1, StayGoOn DEF Kept

LEMMA Quiet0 ==
    ASSUME ObjectInv, NEW t \in Workers, NEW c \in QuietNames, Object!At(t, c), TimersStay,
           Object!Then(t, <<>>)
    PROVE  /\ Kept
           /\ \A C : "is_set" \notin C =>
                /\ Number(todo', C, None) \in Nat /\ Number(todo, C, None) \in Nat
                /\ Number(todo', C, None) = Number(todo, C, None) - In(c, C)
<1> DEFINE h == Head(todo[t])
<1>1. /\ ObjectType /\ TimerRefs /\ Backing /\ Timeouts /\ Callback
    BY DEF ObjectInv
<1>2. /\ todo[t] # <<>> /\ h[1] # "executed" /\ NotOfTimers(h)
      /\ \A C : "is_set" \notin C => Same(h, C, None) = In(c, C)
    BY <1>1, QuietTask
<1>3. GoOn
    BY StayGoOn
<1> HIDE DEF h
<1>4. /\ todo' \in Stacks /\ Backing' /\ Callback'
      /\ \A C, x : Number(todo', C, x) = Number(todo, C, x) - Same(h, C, x)
    BY <1>1, <1>2, <1>3, Step0 DEF h
<1>5. \A C, x : Number(todo, C, x) \in Nat /\ Number(todo', C, x) \in Nat
    BY <1>1, <1>4, Integral DEF ObjectType
<1>6. ASSUME NEW x \in Timers, NEW n \in NamedOfTimer
      PROVE  Number(todo', {n}, x) = Number(todo, {n}, x)
    <2>1. Same(h, {n}, x) = 0
        BY <1>2, SameOfTimers
    <2> QED
        BY <1>4, <1>5, <2>1
<1>7. Kept
    BY <1>1, <1>4, <1>6, StayKept
<1> QED
    BY <1>2, <1>4, <1>5, <1>7

LEMMA Quiet1 ==
    ASSUME ObjectInv, NEW t \in Workers, NEW c \in QuietNames, Object!At(t, c), TimersStay,
           NEW d \in PlainNames, Object!Then(t, <<Object!Task(d)>>),
           Backed(<<d, None>>, Tail(todo[t]))
    PROVE  /\ Kept
           /\ \A C : "is_set" \notin C =>
                /\ Number(todo', C, None) \in Nat /\ Number(todo, C, None) \in Nat
                /\ Number(todo', C, None) = Number(todo, C, None) - In(c, C) + In(d, C)
<1> DEFINE h == Head(todo[t])
           a == <<d, None>>
<1>1. /\ ObjectType /\ TimerRefs /\ Backing /\ Timeouts /\ Callback
    BY DEF ObjectInv
<1>2. /\ todo[t] # <<>> /\ h[1] # "executed" /\ NotOfTimers(h)
      /\ \A C : "is_set" \notin C => Same(h, C, None) = In(c, C)
    BY <1>1, QuietTask
<1>3. /\ Object!Task(d) = a /\ Ordinary(a) /\ NotOfTimers(a)
      /\ \A C : Same(a, C, None) = In(d, C)
    BY PlainTask, PlainIn
<1>4. GoOn
    BY StayGoOn
<1> HIDE DEF h, a
<1>5. /\ todo' \in Stacks /\ Backing' /\ Callback'
      /\ \A C, x : Number(todo', C, x) = Number(todo, C, x) - Same(h, C, x) + Same(a, C, x)
    BY <1>1, <1>2, <1>3, <1>4, Step1 DEF h, a
<1>6. \A C, x : Number(todo, C, x) \in Nat /\ Number(todo', C, x) \in Nat
    BY <1>1, <1>5, Integral DEF ObjectType
<1>7. ASSUME NEW x \in Timers, NEW n \in NamedOfTimer
      PROVE  Number(todo', {n}, x) = Number(todo, {n}, x)
    <2>1. Same(h, {n}, x) = 0 /\ Same(a, {n}, x) = 0
        BY <1>2, <1>3, SameOfTimers
    <2> QED
        BY <1>5, <1>6, <2>1
<1>8. Kept
    BY <1>1, <1>5, <1>7, StayKept
<1> QED
    BY <1>2, <1>3, <1>5, <1>6, <1>8

\* The thread pushes d above e, and both have what they need.
Puts(t, d, e) == Object!Then(t, <<Object!Task(d), Object!Task(e)>>)
Fits(t, d, e) == /\ Backed(<<e, None>>, Tail(todo[t]))
                 /\ Backed(<<d, None>>, Push(<<e, None>>, Tail(todo[t])))

LEMMA Quiet2 ==
    ASSUME ObjectInv, NEW t \in Workers, NEW c \in QuietNames, Object!At(t, c), TimersStay,
           NEW d \in PlainNames, NEW e \in PlainNames,
           Puts(t, d, e), Fits(t, d, e)
    PROVE  /\ Kept
           /\ \A C : "is_set" \notin C =>
                /\ Number(todo', C, None) \in Nat /\ Number(todo, C, None) \in Nat
                /\ Number(todo', C, None) = Number(todo, C, None) - In(c, C) + In(e, C) + In(d, C)
<1> DEFINE h == Head(todo[t])
           a == <<d, None>>
           b == <<e, None>>
<1>1. /\ ObjectType /\ TimerRefs /\ Backing /\ Timeouts /\ Callback
    BY DEF ObjectInv
<1>2. /\ todo[t] # <<>> /\ h[1] # "executed" /\ NotOfTimers(h)
      /\ \A C : "is_set" \notin C => Same(h, C, None) = In(c, C)
    BY <1>1, QuietTask
<1>3. /\ Object!Task(d) = a /\ Ordinary(a) /\ NotOfTimers(a)
      /\ \A C : Same(a, C, None) = In(d, C)
    BY PlainTask, PlainIn
<1>4. /\ Object!Task(e) = b /\ Ordinary(b) /\ NotOfTimers(b)
      /\ \A C : Same(b, C, None) = In(e, C)
    BY PlainTask, PlainIn
<1>5. GoOn
    BY StayGoOn
<1> HIDE DEF h, a, b
<1>6. /\ todo' \in Stacks /\ Backing' /\ Callback'
      /\ \A C, x : Number(todo', C, x) = Number(todo, C, x) - Same(h, C, x) + Same(b, C, x) + Same(a, C, x)
    <2>1. /\ Object!Then(t, <<a, b>>)
          /\ Backed(b, Tail(todo[t])) /\ Backed(a, Push(b, Tail(todo[t])))
        BY <1>3, <1>4 DEF Puts, Fits, a, b
    <2> QED
        BY <1>1, <1>2, <1>3, <1>4, <1>5, <2>1, Step2 DEF h
<1>7. \A C, x : Number(todo, C, x) \in Nat /\ Number(todo', C, x) \in Nat
    BY <1>1, <1>6, Integral DEF ObjectType
<1>8. ASSUME NEW x \in Timers, NEW n \in NamedOfTimer
      PROVE  Number(todo', {n}, x) = Number(todo, {n}, x)
    <2>1. Same(h, {n}, x) = 0 /\ Same(a, {n}, x) = 0 /\ Same(b, {n}, x) = 0
        BY <1>2, <1>3, <1>4, SameOfTimers
    <2> QED
        BY <1>6, <1>7, <2>1
<1>9. Kept
    BY <1>1, <1>6, <1>8, StayKept
<1> QED
    BY <1>2, <1>3, <1>4, <1>6, <1>7, <1>9

\* How many tasks of each kind come or go.
Changes(owners, holders, expected, closers) ==
    /\ Number(todo', Owners, None) = Number(todo, Owners, None) + owners
    /\ Number(todo', {"unlock", "io"}, None) = Number(todo, {"unlock", "io"}, None) + holders
    /\ Number(todo', {"lock", "io", "cancel"}, None)
         = Number(todo, {"lock", "io", "cancel"}, None) + expected
    /\ Number(todo', {"close_handle"}, None) = Number(todo, {"close_handle"}, None) + closers

Needing == {"irp", "lock", "io", "close", "rundown", "unlock", "close_handle", "set_timeout", "swap"}

LEMMA BackedPlain ==
    ASSUME NEW d \in PlainNames, NEW s, d \in Needing => Keeps(s)
    PROVE  Backed(<<d, None>>, s)
BY DEF PlainNames, Needing, Backed

LEMMA HeadKeeps ==
    ASSUME ObjectType, Backing, NEW t \in Workers, NEW c \in Needing \cup {"is_set"}, Object!At(t, c)
    PROVE  Keeps(Tail(todo[t])) /\ Tail(todo[t]) \in Stack
<1>1. todo[t] # <<>> /\ Head(todo[t])[1] = c
    BY AtTask
<1>2. Backed(Head(todo[t]), Tail(todo[t])) /\ Tail(todo[t]) \in Stack /\ Head(todo[t]) \in Tasks
    BY <1>1, NextTask
<1>3. CASE c \in Needing
    BY <1>1, <1>2, <1>3 DEF Backed, Needing
<1>4. CASE c = "is_set"
    <2>1. KeepsTimer(Tail(todo[t]), Head(todo[t])[2])
        BY <1>1, <1>2, <1>4 DEF Backed
    <2> QED
        BY <1>2, <2>1, KeepsPush
<1> QED
    BY <1>3, <1>4

LEMMA KeepsOwner ==
    ASSUME NEW s \in Stack, NEW d \in Owners
    PROVE  Keeps(Push(<<d, None>>, s))
<1>1. <<d, None>> \in Tasks
    BY DEF Tasks, Owners
<1> QED
    BY <1>1, KeepsPush

LEMMA AllKept ==
    ASSUME Kept, ObjectType', ObjectRefs', HandleRefs', Closing'
    PROVE  ObjectInv'
BY DEF Kept, ObjectInv

LEMMA KeptType ==
    ASSUME ObjectInv, Kept, TimersStay, socket' = socket, nRef' \in Int, up' \in BOOLEAN,
           held' \in Int, hFile' \in {"open", "closed"}, irps' \in Nat, started' \in Int,
           calls' \in Nat
    PROVE  ObjectType'
BY DEF ObjectInv, ObjectType, Kept, TimersStay

LEMMA Counts ==
    ASSUME ObjectInv
    PROVE  /\ nRef \in Int /\ held \in Int /\ irps \in Nat /\ started \in Int /\ hFile \in {"open", "closed"}
           /\ up \in BOOLEAN /\ Cardinality(Referred) \in Nat /\ calls \in Nat
           /\ Number(todo, Owners, None) \in Nat
           /\ Number(todo, {"unlock", "io"}, None) \in Nat
           /\ Number(todo, {"lock", "io", "cancel"}, None) \in Nat
           /\ Number(todo, {"close_handle"}, None) \in Nat
           /\ nRef = Number(todo, Owners, None) + irps + Cardinality(Referred)
           /\ held = Number(todo, {"unlock", "io"}, None)
           /\ started = irps + Number(todo, {"lock", "io", "cancel"}, None)
           /\ hFile = "closed" \/ Number(todo, {"close_handle"}, None) > 0 => ~up /\ held = 0
BY Integral, ReferredFinite DEF ObjectInv, ObjectType, ObjectRefs, HandleRefs, Closing

LEMMA NewIrpInv ==
    ASSUME ObjectInv, NEW t \in Workers, Object!NewIrp(t)
    PROVE  ObjectInv'
<1>1. /\ Object!At(t, "irp") /\ Object!Then(t, <<Object!Task("lock")>>) /\ TimersStay
      /\ nRef' = nRef + 1 /\ started' = started + 1
      /\ UNCHANGED <<socket, up, held, hFile, irps, calls>>
    BY DEF Object!NewIrp, Object!timer, TimersStay
<1>2. Backed(<<"lock", None>>, Tail(todo[t]))
    BY <1>1, HeadKeeps, BackedPlain DEF ObjectInv, Needing, PlainNames
<1>3. Kept /\ Changes(1, 0, 1, 0)
    BY <1>1, <1>2, Quiet1 DEF QuietNames, PlainNames, Changes, In, Owners
<1>4. ObjectType' /\ ObjectRefs' /\ HandleRefs' /\ Closing'
    BY <1>1, <1>3, Counts
    DEF ObjectInv, ObjectType, ObjectRefs, HandleRefs, Closing, Kept, Changes, TimersStay
<1> QED
    BY <1>3, <1>4, AllKept

LEMMA CallInv ==
    ASSUME ObjectInv, NEW t \in Workers, Object!Call(t)
    PROVE  ObjectInv'
<1>1. /\ Object!At(t, "call") /\ TimersStay /\ calls' \in Nat
      /\ UNCHANGED <<socket, nRef, up, held, hFile, irps, started>>
    <2>1. calls \in Nat
        BY Counts
    <2> QED
        BY <2>1 DEF Object!Call, Object!timer, Object!object, TimersStay
<1>2. Kept /\ Changes(0, 0, 0, 0)
    <2>1. CASE Object!Then(t, <<Object!Task("release")>>)
        <3>1. Backed(<<"release", None>>, Tail(todo[t]))
            BY BackedPlain DEF Needing, PlainNames
        <3> QED
            BY <1>1, <2>1, <3>1, Quiet1 DEF QuietNames, PlainNames, Changes, In, Owners
    <2>2. ASSUME NEW c \in {"irp", "close", "set_timeout", "swap"},
                 Object!Then(t, <<Object!Task(c), Object!Task("call")>>)
          PROVE  Kept /\ Changes(0, 0, 0, 0)
        <3>1. Backed(<<"call", None>>, Tail(todo[t]))
            BY BackedPlain DEF Needing, PlainNames
        <3>2. Tail(todo[t]) \in Stack
            BY <1>1, AtTask, NextTask DEF ObjectInv
        <3>3. Keeps(Push(<<"call", None>>, Tail(todo[t])))
            BY <3>2, KeepsOwner DEF Owners
        <3>4. Backed(<<c, None>>, Push(<<"call", None>>, Tail(todo[t])))
            BY <3>3, BackedPlain DEF PlainNames
        <3>5. Puts(t, c, "call") /\ Fits(t, c, "call")
            BY <2>2, <3>1, <3>4 DEF Puts, Fits
        <3>6. Kept /\ \A C : "is_set" \notin C =>
                    /\ Number(todo', C, None) \in Nat /\ Number(todo, C, None) \in Nat
                    /\ Number(todo', C, None) = Number(todo, C, None) - In("call", C) + In("call", C) + In(c, C)
            BY <1>1, <3>1, <3>4, <3>5, Quiet2 DEF QuietNames, PlainNames
        <3>7. /\ c \notin Owners /\ c \notin {"unlock", "io"} /\ c \notin {"lock", "io", "cancel"}
              /\ c # "close_handle"
            BY DEF Owners
        <3> QED
            BY <3>6, <3>7 DEF Changes, In, Owners
    <2> QED
        BY <2>1, <2>2 DEF Object!Call
<1>3. ObjectType'
    BY <1>1, <1>2, Counts, KeptType
<1>4. ObjectRefs' /\ HandleRefs' /\ Closing'
    BY <1>1, <1>2, Counts DEF ObjectRefs, HandleRefs, Closing, Kept, Changes
<1> QED
    BY <1>2, <1>3, <1>4, AllKept

LEMMA LockHandleInv ==
    ASSUME ObjectInv, NEW t \in Workers, Object!LockHandle(t)
    PROVE  ObjectInv'
<1>1. /\ Object!At(t, "lock") /\ TimersStay /\ held' = held + (IF up THEN 1 ELSE 0)
      /\ UNCHANGED <<socket, nRef, up, hFile, irps, started, calls>>
    BY DEF Object!LockHandle, Object!timer, TimersStay
<1>2. Keeps(Tail(todo[t]))
    BY <1>1, HeadKeeps DEF ObjectInv, Needing
<1>3. CASE up
    <2>1. Object!Then(t, <<Object!Task("io")>>)
        BY <1>3 DEF Object!LockHandle
    <2>2. Backed(<<"io", None>>, Tail(todo[t]))
        BY <1>2, BackedPlain DEF PlainNames
    <2>3. Kept /\ Changes(0, 1, 0, 0)
        BY <1>1, <2>1, <2>2, Quiet1 DEF QuietNames, PlainNames, Changes, In, Owners
    <2>4. ObjectType' /\ ObjectRefs' /\ HandleRefs' /\ Closing'
        BY <1>1, <1>3, <2>3, Counts
        DEF ObjectInv, ObjectType, ObjectRefs, HandleRefs, Closing, Kept, Changes, TimersStay
    <2> QED
        BY <2>3, <2>4, AllKept
<1>4. CASE ~up
    <2>1. Object!Then(t, <<Object!Task("cancel")>>)
        BY <1>4 DEF Object!LockHandle
    <2>2. Backed(<<"cancel", None>>, Tail(todo[t]))
        BY <1>2, BackedPlain DEF PlainNames
    <2>3. Kept /\ Changes(0, 0, 0, 0)
        BY <1>1, <2>1, <2>2, Quiet1 DEF QuietNames, PlainNames, Changes, In, Owners
    <2>4. ObjectType' /\ ObjectRefs' /\ HandleRefs' /\ Closing'
        BY <1>1, <1>4, <2>3, Counts
        DEF ObjectInv, ObjectType, ObjectRefs, HandleRefs, Closing, Kept, Changes, TimersStay
    <2> QED
        BY <2>3, <2>4, AllKept
<1> QED
    BY <1>3, <1>4

LEMMA SystemCallInv ==
    ASSUME ObjectInv, NEW t \in Workers, Object!SystemCall(t)
    PROVE  ObjectInv'
<1>1. /\ Object!At(t, "io") /\ TimersStay
      /\ UNCHANGED <<socket, nRef, up, held, hFile, started, calls>>
    BY DEF Object!SystemCall, Object!timer, TimersStay
<1>2. Keeps(Tail(todo[t])) /\ Tail(todo[t]) \in Stack
    BY <1>1, HeadKeeps DEF ObjectInv, Needing
<1>3. CASE irps' = irps + 1 /\ Object!Then(t, <<Object!Task("unlock")>>)
    <2>1. Backed(<<"unlock", None>>, Tail(todo[t]))
        BY <1>2, BackedPlain DEF PlainNames
    <2>2. Kept /\ Changes(-1, 0, -1, 0)
        BY <1>1, <1>3, <2>1, Quiet1 DEF QuietNames, PlainNames, Changes, In, Owners
    <2>3. ObjectType' /\ ObjectRefs' /\ HandleRefs' /\ Closing'
        BY <1>1, <1>3, <2>2, Counts
        DEF ObjectInv, ObjectType, ObjectRefs, HandleRefs, Closing, Kept, Changes, TimersStay
    <2> QED
        BY <2>2, <2>3, AllKept
<1>4. CASE irps' = irps /\ Object!Then(t, <<Object!Task("unlock"), Object!Task("cancel")>>)
    <2>1. Backed(<<"cancel", None>>, Tail(todo[t]))
        BY <1>2, BackedPlain DEF PlainNames
    <2>2. Backed(<<"unlock", None>>, Push(<<"cancel", None>>, Tail(todo[t])))
        BY <1>2, KeepsOwner, BackedPlain DEF PlainNames, Owners
    <2>3. Kept /\ Changes(0, 0, 0, 0)
        <3>1. Puts(t, "unlock", "cancel") /\ Fits(t, "unlock", "cancel")
            BY <1>4, <2>1, <2>2 DEF Puts, Fits
        <3>2. Kept /\ \A C : "is_set" \notin C =>
                    /\ Number(todo', C, None) \in Nat /\ Number(todo, C, None) \in Nat
                    /\ Number(todo', C, None)
                         = Number(todo, C, None) - In("io", C) + In("cancel", C) + In("unlock", C)
            BY <1>1, <3>1, Quiet2 DEF QuietNames, PlainNames
        <3> QED
            BY <3>2 DEF Changes, In, Owners
    <2>4. ObjectType' /\ ObjectRefs' /\ HandleRefs' /\ Closing'
        BY <1>1, <1>4, <2>3, Counts
        DEF ObjectInv, ObjectType, ObjectRefs, HandleRefs, Closing, Kept, Changes, TimersStay
    <2> QED
        BY <2>3, <2>4, AllKept
<1> QED
    BY <1>3, <1>4 DEF Object!SystemCall

LEMMA CancelIoInv ==
    ASSUME ObjectInv, NEW t \in Workers, Object!CancelIo(t)
    PROVE  ObjectInv'
<1>1. /\ Object!At(t, "cancel") /\ Object!Then(t, <<Object!Task("release")>>) /\ TimersStay
      /\ started' = started - 1
      /\ UNCHANGED <<socket, nRef, up, held, hFile, irps, calls>>
    BY DEF Object!CancelIo, Object!timer, TimersStay
<1>2. Backed(<<"release", None>>, Tail(todo[t]))
    BY BackedPlain DEF Needing, PlainNames
<1>3. Kept /\ Changes(0, 0, -1, 0)
    BY <1>1, <1>2, Quiet1 DEF QuietNames, PlainNames, Changes, In, Owners
<1>4. ObjectType' /\ ObjectRefs' /\ HandleRefs' /\ Closing'
    BY <1>1, <1>3, Counts
    DEF ObjectInv, ObjectType, ObjectRefs, HandleRefs, Closing, Kept, Changes, TimersStay
<1> QED
    BY <1>3, <1>4, AllKept

LEMMA ReleaseInv ==
    ASSUME ObjectInv, NEW t \in Workers, Object!Release(t)
    PROVE  ObjectInv'
<1>1. /\ Object!At(t, "release") /\ Object!Then(t, <<>>) /\ TimersStay /\ nRef' = nRef - 1
      /\ UNCHANGED <<socket, held, irps, started, calls>>
    BY DEF Object!Release, Object!timer, TimersStay
<1>2. IF nRef = 1 THEN up' = FALSE /\ hFile' = "closed" ELSE UNCHANGED <<up, hFile>>
    BY DEF Object!Release
<1>3. Kept /\ Changes(-1, 0, 0, 0)
    BY <1>1, Quiet0 DEF QuietNames, PlainNames, Changes, In, Owners
<1>4. ObjectType' /\ ObjectRefs' /\ HandleRefs'
    <2>1. up' \in BOOLEAN /\ hFile' \in {"open", "closed"}
        BY <1>2, Zenon DEF ObjectInv, ObjectType
    <2>2. nRef' \in Int
        BY <1>1, Counts
    <2>3. ObjectType'
        BY <1>1, <1>3, <2>1, <2>2, Counts, KeptType
    <2>4. ObjectRefs' /\ HandleRefs'
        BY <1>1, <1>3, Counts DEF ObjectRefs, HandleRefs, Kept, Changes
    <2> QED
        BY <2>3, <2>4
<1>5. Closing'
    <2>1. CASE nRef = 1
        <3>1. (ObjectType /\ ObjectRefs /\ HandleRefs /\ TimerRefs /\ Backing /\ nRef = 0 => held = 0)'
            BY Gone, PTL
        <3>2. nRef' = 0
            BY <1>1, <2>1
        <3>3. held' = 0
            BY <1>3, <1>4, <3>1, <3>2 DEF Kept
        <3> QED
            BY <1>2, <2>1, <3>3 DEF Closing
    <2>2. CASE nRef # 1
        BY <1>1, <1>2, <1>3, <2>2, Counts DEF Closing, Changes
    <2> QED
        BY <2>1, <2>2
<1> QED
    BY <1>3, <1>4, <1>5, AllKept

LEMMA CloseInv ==
    ASSUME ObjectInv, NEW t \in Workers, Object!Close(t)
    PROVE  ObjectInv'
<1>1. /\ Object!At(t, "close") /\ TimersStay /\ held' = held + (IF up THEN 1 ELSE 0)
      /\ UNCHANGED <<socket, nRef, up, hFile, irps, started, calls>>
    BY DEF Object!Close, Object!timer, TimersStay
<1>2. Keeps(Tail(todo[t])) /\ Tail(todo[t]) \in Stack
    BY <1>1, HeadKeeps DEF ObjectInv, Needing
<1>3. CASE up
    <2>1. Object!Then(t, <<Object!Task("rundown"), Object!Task("unlock")>>)
        BY <1>3 DEF Object!Close
    <2>2. Backed(<<"unlock", None>>, Tail(todo[t]))
        BY <1>2, BackedPlain DEF PlainNames
    <2>3. Backed(<<"rundown", None>>, Push(<<"unlock", None>>, Tail(todo[t])))
        <3>1. <<"unlock", None>> \in Tasks
            BY DEF Tasks
        <3> QED
            BY <1>2, <3>1, KeepsPush, BackedPlain DEF PlainNames
    <2>4. Kept /\ Changes(0, 1, 0, 0)
        <3>1. Puts(t, "rundown", "unlock") /\ Fits(t, "rundown", "unlock")
            BY <2>1, <2>2, <2>3 DEF Puts, Fits
        <3>2. Kept /\ \A C : "is_set" \notin C =>
                    /\ Number(todo', C, None) \in Nat /\ Number(todo, C, None) \in Nat
                    /\ Number(todo', C, None)
                         = Number(todo, C, None) - In("close", C) + In("unlock", C) + In("rundown", C)
            BY <1>1, <3>1, Quiet2 DEF QuietNames, PlainNames
        <3> QED
            BY <3>2 DEF Changes, In, Owners
    <2>5. ObjectType' /\ ObjectRefs' /\ HandleRefs' /\ Closing'
        BY <1>1, <1>3, <2>4, Counts
        DEF ObjectInv, ObjectType, ObjectRefs, HandleRefs, Closing, Kept, Changes, TimersStay
    <2> QED
        BY <2>4, <2>5, AllKept
<1>4. CASE ~up
    <2>1. Object!Then(t, <<>>)
        BY <1>4 DEF Object!Close
    <2>2. Kept /\ Changes(0, 0, 0, 0)
        BY <1>1, <2>1, Quiet0 DEF QuietNames, PlainNames, Changes, In, Owners
    <2>3. ObjectType' /\ ObjectRefs' /\ HandleRefs' /\ Closing'
        BY <1>1, <1>4, <2>2, Counts
        DEF ObjectInv, ObjectType, ObjectRefs, HandleRefs, Closing, Kept, Changes, TimersStay
    <2> QED
        BY <2>2, <2>3, AllKept
<1> QED
    BY <1>3, <1>4

LEMMA RundownInv ==
    ASSUME ObjectInv, NEW t \in Workers, Object!Rundown(t)
    PROVE  ObjectInv'
<1>1. /\ Object!At(t, "rundown") /\ Object!Then(t, <<>>) /\ TimersStay /\ up' = FALSE
      /\ UNCHANGED <<socket, nRef, held, hFile, irps, started, calls>>
    BY DEF Object!Rundown, Object!timer, TimersStay
<1>2. Kept /\ Changes(0, 0, 0, 0)
    BY <1>1, Quiet0 DEF QuietNames, PlainNames, Changes, In, Owners
<1>3. ObjectType' /\ ObjectRefs' /\ HandleRefs' /\ Closing'
    <2>1. ObjectType'
        BY <1>1, <1>2, Zenon DEF ObjectInv, ObjectType, Kept, TimersStay
    <2>2. ObjectRefs' /\ HandleRefs' /\ Closing'
        BY <1>1, <1>2, Counts DEF ObjectRefs, HandleRefs, Closing, Kept, Changes
    <2> QED
        BY <2>1, <2>2
<1> QED
    BY <1>2, <1>3, AllKept


LEMMA UnlockHandleInv ==
    ASSUME ObjectInv, NEW t \in Workers, Object!UnlockHandle(t)
    PROVE  ObjectInv'
<1>1. /\ Object!At(t, "unlock") /\ TimersStay /\ held' = held - 1
      /\ UNCHANGED <<socket, nRef, up, hFile, irps, started, calls>>
    BY DEF Object!UnlockHandle, Object!timer, TimersStay
<1>2. Keeps(Tail(todo[t])) /\ Tail(todo[t]) \in Stack
    BY <1>1, HeadKeeps DEF ObjectInv, Needing
<1>3. held > 0 /\ hFile = "open" /\ Number(todo, {"close_handle"}, None) = 0
    <2>1. Head(todo[t])[1] \in {"unlock", "io"} /\ Head(todo[t])[2] = None /\ todo[t] # <<>>
        BY <1>1, AtTask DEF ObjectInv, PlainNames
    <2>2. Number(todo, {"unlock", "io"}, None) > 0
        BY <2>1, NextCounted DEF ObjectInv
    <2> QED
        BY <2>2, Counts
<1>4. CASE ~up /\ held = 1
    <2>1. Object!Then(t, Object!Closers)
        BY <1>4 DEF Object!UnlockHandle
    <2>2. Backed(<<"close_handle", None>>, Tail(todo[t]))
        BY <1>2, BackedPlain DEF PlainNames
    <2>3. Kept /\ Changes(0, -1, 0, 1)
        <3>1. CASE socket
            <4>1. Object!Then(t, <<Object!Task("close_handle")>>)
                BY <2>1, <3>1 DEF Object!Closers
            <4> QED
                BY <1>1, <4>1, <2>2, Quiet1 DEF QuietNames, PlainNames, Changes, In, Owners
        <3>2. CASE ~socket
            <4>1. Object!Then(t, <<Object!Task("swap"), Object!Task("close_handle")>>)
                BY <2>1, <3>2 DEF Object!Closers
            <4>2. Backed(<<"swap", None>>, Push(<<"close_handle", None>>, Tail(todo[t])))
                <5>1. <<"close_handle", None>> \in Tasks
                    BY DEF Tasks
                <5> QED
                    BY <1>2, <5>1, KeepsPush, BackedPlain DEF PlainNames
            <4>3. Puts(t, "swap", "close_handle") /\ Fits(t, "swap", "close_handle")
                BY <4>1, <4>2, <2>2 DEF Puts, Fits
            <4>4. Kept /\ \A C : "is_set" \notin C =>
                    /\ Number(todo', C, None) \in Nat /\ Number(todo, C, None) \in Nat
                    /\ Number(todo', C, None)
                         = Number(todo, C, None) - In("unlock", C) + In("close_handle", C) + In("swap", C)
                BY <1>1, <4>3, Quiet2 DEF QuietNames, PlainNames
            <4> QED
                BY <4>4 DEF Changes, In, Owners
        <3> QED
            BY <3>1, <3>2
    <2>4. ObjectType'
        BY <1>1, <2>3, Counts, KeptType
    <2>5. ObjectRefs' /\ HandleRefs' /\ Closing'
        BY <1>1, <1>4, <2>3, Counts DEF ObjectRefs, HandleRefs, Closing, Kept, Changes
    <2> QED
        BY <2>3, <2>4, <2>5, AllKept
<1>5. CASE ~(~up /\ held = 1)
    <2>1. Object!Then(t, <<>>)
        BY <1>5 DEF Object!UnlockHandle
    <2>2. Kept /\ Changes(0, -1, 0, 0)
        <3>1. Kept /\ \A C : "is_set" \notin C =>
                    /\ Number(todo', C, None) \in Nat /\ Number(todo, C, None) \in Nat
                    /\ Number(todo', C, None) = Number(todo, C, None) - In("unlock", C)
            BY <1>1, <2>1, Quiet0 DEF QuietNames, PlainNames
        <3> QED
            BY <3>1 DEF Changes, In, Owners
    <2>3. ObjectType'
        BY <1>1, <2>2, Counts, KeptType
    <2>4. ObjectRefs' /\ HandleRefs' /\ Closing'
        BY <1>1, <1>3, <2>2, Counts DEF ObjectRefs, HandleRefs, Closing, Kept, Changes
    <2> QED
        BY <2>2, <2>3, <2>4, AllKept
<1> QED
    BY <1>4, <1>5

LEMMA CloseObjectHandleInv ==
    ASSUME ObjectInv, NEW t \in Workers, Object!CloseObjectHandle(t)
    PROVE  ObjectInv'
<1>1. /\ Object!At(t, "close_handle") /\ TimersStay /\ hFile' = "closed"
      /\ Object!Then(t, <<>>) /\ UNCHANGED <<socket, nRef, up, held, irps, started, calls>>
    BY DEF Object!CloseObjectHandle, Object!timer, TimersStay
<1>2. ~up /\ held = 0
    <2>1. Head(todo[t])[1] \in {"close_handle"} /\ Head(todo[t])[2] = None /\ todo[t] # <<>>
        BY <1>1, AtTask DEF ObjectInv, PlainNames
    <2>2. Number(todo, {"close_handle"}, None) > 0
        BY <2>1, NextCounted DEF ObjectInv
    <2> QED
        BY <2>2, Counts
<1>3. Kept /\ Changes(0, 0, 0, -1)
    BY <1>1, Quiet0 DEF QuietNames, PlainNames, Changes, In, Owners
<1>4. ObjectType'
    BY <1>1, <1>3, Counts, KeptType
<1>5. ObjectRefs' /\ HandleRefs' /\ Closing'
    BY <1>1, <1>2, <1>3, Counts DEF ObjectRefs, HandleRefs, Closing, Kept, Changes
<1> QED
    BY <1>3, <1>4, <1>5, AllKept

LEMMA NoTimerLeftInv ==
    ASSUME ObjectInv, NEW t \in Workers, Object!NoTimerLeft(t)
    PROVE  ObjectInv'
<1>1. /\ Object!At(t, "set_timeout") /\ TimersStay /\ Object!Then(t, <<>>)
      /\ UNCHANGED <<socket, nRef, up, held, hFile, irps, started, calls>>
    BY DEF Object!NoTimerLeft, Object!timer, Object!object, TimersStay
<1>2. Kept /\ Changes(0, 0, 0, 0)
    BY <1>1, Quiet0 DEF QuietNames, PlainNames, Changes, In, Owners
<1>3. ObjectType'
    BY <1>1, <1>2, Counts, KeptType
<1>4. ObjectRefs' /\ HandleRefs' /\ Closing'
    BY <1>1, <1>2, Counts DEF ObjectRefs, HandleRefs, Closing, Kept, Changes
<1> QED
    BY <1>2, <1>3, <1>4, AllKept

LEMMA IsSetInv ==
    ASSUME ObjectInv, NEW t \in Workers, Object!IsSet(t)
    PROVE  ObjectInv'
<1>1. /\ Object!At(t, "is_set") /\ TimersStay
      /\ UNCHANGED <<socket, nRef, up, held, hFile, irps, started, calls>>
    BY DEF Object!IsSet, Object!timer, Object!object, TimersStay
<1>2. Kept /\ Changes(0, 0, 0, 0)
    <2>1. CASE Object!Then(t, <<>>)
        BY <1>1, <2>1, Quiet0 DEF QuietNames, PlainNames, Changes, In, Owners
    <2>2. CASE Object!Then(t, <<Object!Task("swap")>>)
        <3>1. Keeps(Tail(todo[t]))
            BY <1>1, HeadKeeps DEF ObjectInv
        <3>2. Backed(<<"swap", None>>, Tail(todo[t]))
            BY <3>1, BackedPlain DEF PlainNames
        <3> QED
            BY <1>1, <2>2, <3>2, Quiet1 DEF QuietNames, PlainNames, Changes, In, Owners
    <2> QED
        <3>1. CASE isSet[Object!Of(t)]
            BY <2>1, <3>1 DEF Object!IsSet
        <3>2. CASE ~isSet[Object!Of(t)]
            BY <2>2, <3>2 DEF Object!IsSet
        <3> QED
            BY <3>1, <3>2
<1>3. ObjectType'
    BY <1>1, <1>2, Counts, KeptType
<1>4. ObjectRefs' /\ HandleRefs' /\ Closing'
    BY <1>1, <1>2, Counts DEF ObjectRefs, HandleRefs, Closing, Kept, Changes
<1> QED
    BY <1>2, <1>3, <1>4, AllKept

\* A thread that had nothing to do.
LEMMA NewStack ==
    ASSUME ObjectType, Backing, Callback, NEW w \in Workers, GoOn, NEW v \in Stack,
           Becomes(todo, todo', w, v), Supported(v), \A x \in Timers : ~Calls(v, x)
    PROVE  Backing' /\ Callback'
<1>1. Backing'
    BY DEF Backing, Becomes
<1>2. ASSUME NEW u \in Workers, NEW x \in Timers, Calls(todo'[u], x)
      PROVE  u = Clock /\ queue'[x] = "running" /\ (cbExecuted'[x] \/ todo'[u][1] = <<"executed", x>>)
    <2>1. u # w
        BY <1>2 DEF Becomes
    <2>2. todo'[u] = todo[u]
        BY <2>1 DEF Becomes
    <2> QED
        BY <1>2, <2>2 DEF Callback, GoOn
<1>3. Callback'
    BY <1>2 DEF Callback
<1> QED
    BY <1>1, <1>3

LEMMA EmptyStack ==
    ASSUME NEW a, Ordinary(a), Backed(a, <<>>)
    PROVE  /\ Push(a, <<>>) \in Stack /\ Supported(Push(a, <<>>)) /\ Clear(Push(a, <<>>))
           /\ \A x : ~Calls(Push(a, <<>>), x)
<1> PICK e : e = <<>>
    OBVIOUS
<1>1. e \in Stack
    BY DEF Stack
<1>2. Supported(e) /\ Clear(e) /\ Backed(a, e) /\ \A x : ~Calls(e, x)
    BY DEF Supported, Clear, Calls
<1>3. /\ Push(a, e) \in Stack /\ Supported(Push(a, e)) /\ Clear(Push(a, e))
      /\ \A x : Calls(Push(a, e), x) => Calls(e, x)
    BY <1>1, <1>2, OnTop
<1> QED
    BY <1>2, <1>3

LEMMA OnIoCompleteInv ==
    ASSUME ObjectInv, NEW w \in Workers, Object!OnIoComplete(w)
    PROVE  ObjectInv'
<1> DEFINE a == <<"release", None>>
           b == <<"close", None>>
<1>0. ObjectType /\ TimerRefs /\ Backing /\ Timeouts /\ Callback /\ todo \in Stacks
    BY DEF ObjectInv, ObjectType
<1>1. /\ todo[w] = <<>> /\ irps > 0 /\ TimersStay
      /\ irps' = irps - 1 /\ started' = started - 1
      /\ UNCHANGED <<socket, nRef, up, held, hFile, calls>>
    BY DEF Object!OnIoComplete, Object!timer, TimersStay
<1>2. /\ Object!Task("release") = a /\ Ordinary(a) /\ NotOfTimers(a)
      /\ Object!Task("close") = b /\ Ordinary(b) /\ NotOfTimers(b)
    BY PlainTask DEF PlainNames
<1>3. Backed(a, <<>>)
    BY BackedPlain DEF PlainNames, Needing
<1> PICK e \in Stack : e = <<>>
    <2>1. <<>> \in Seq(Tasks)
        OBVIOUS
    <2> QED
        BY <2>1 DEF Stack
<1> PICK p \in Stack : p = Push(a, e)
    BY <1>2, <1>3, EmptyStack
<1>4. p = <<a>> /\ Supported(p) /\ Clear(p) /\ \A x \in Timers : ~Calls(p, x)
    <2>1. Supported(p) /\ Clear(p) /\ \A x \in Timers : ~Calls(p, x)
        BY <1>2, <1>3, EmptyStack
    <2>2. a \in Tasks
        BY <1>2 DEF Ordinary
    <2>3. <<a>> \in Seq(Tasks)
        BY <2>2
    <2>4. <<a>> \o <<>> = <<a>>
        BY <2>3, ConcatEmptySeq
    <2> QED
        BY <2>1, <2>4 DEF Push
<1>5. Backed(b, p)
    <2>1. Keeps(p)
        BY <1>2, KeepsOwner DEF Owners
    <2> QED
        BY <2>1, BackedPlain DEF PlainNames
<1> PICK q \in Stack : q = Push(b, p)
    BY <1>2, <1>4, <1>5, OnTop
<1>6. q = <<b>> \o <<a>> /\ Supported(q) /\ \A x \in Timers : ~Calls(q, x)
    BY <1>2, <1>4, <1>5, OnTop DEF Push
<1>7. /\ \A C, x : Number(With(todo, w, p), C, x) = Number(todo, C, x) + Same(a, C, x)
      /\ \A C, x : Number(With(todo, w, q), C, x)
                   = Number(todo, C, x) + Same(a, C, x) + Same(b, C, x)
    <2>1. With(todo, w, e) = todo
        BY <1>0, <1>1, WithSame
    <2>2. a \in Tasks /\ b \in Tasks
        BY <1>2 DEF Ordinary
    <2>3. \A C, x : Number(With(todo, w, p), C, x) = Number(todo, C, x) + Same(a, C, x)
        BY <1>0, <2>1, <2>2, WithPush
    <2>4. \A C, x : Number(With(todo, w, q), C, x) = Number(With(todo, w, p), C, x) + Same(b, C, x)
        BY <1>0, <2>2, WithPush
    <2> QED
        BY <2>3, <2>4
<1>8. todo' = With(todo, w, p) \/ todo' = With(todo, w, q)
    <2>1. PICK c \in {<<>>, <<b>>} : todo' = With(todo, w, c \o <<a>>)
        BY <1>2 DEF Object!OnIoComplete, With
    <2>2. <<>> \o <<a>> = <<a>>
        <3>1. a \in Tasks
            BY <1>2 DEF Ordinary
        <3>2. <<a>> \in Seq(Tasks)
            BY <3>1
        <3> QED
            BY <3>2, ConcatEmptySeq
    <2> QED
        BY <1>4, <1>6, <2>1, <2>2
<1> HIDE DEF a, b
<1>9. /\ todo' \in Stacks /\ Backing' /\ Callback'
      /\ \E n \in {0, 1} : \A C, x : Number(todo', C, x) = Number(todo, C, x) + Same(a, C, x) + n * Same(b, C, x)
    <2>1. GoOn
        BY <1>1, StayGoOn
    <2>2. \A C, x : Number(todo, C, x) \in Nat /\ Same(a, C, x) \in {0, 1} /\ Same(b, C, x) \in {0, 1}
        BY <1>0, Integral
    <2>3. CASE todo' = With(todo, w, p)
        <3>1. todo' \in Stacks /\ Becomes(todo, todo', w, p)
            BY <1>0, <2>3, WithStack
        <3>2. Backing' /\ Callback'
            BY <1>0, <1>4, <2>1, <3>1, NewStack
        <3>3. \A C, x : Number(todo', C, x) = Number(todo, C, x) + Same(a, C, x) + 0 * Same(b, C, x)
            BY <1>7, <2>2, <2>3
        <3> QED
            BY <3>1, <3>2, <3>3
    <2>4. CASE todo' = With(todo, w, q)
        <3>1. todo' \in Stacks /\ Becomes(todo, todo', w, q)
            BY <1>0, <2>4, WithStack
        <3>2. Backing' /\ Callback'
            BY <1>0, <1>6, <2>1, <3>1, NewStack
        <3>3. \A C, x : Number(todo', C, x) = Number(todo, C, x) + Same(a, C, x) + 1 * Same(b, C, x)
            BY <1>7, <2>2, <2>4
        <3> QED
            BY <3>1, <3>2, <3>3
    <2> QED
        BY <1>8, <2>3, <2>4
<1>10. \A C, x : Number(todo, C, x) \in Nat /\ Number(todo', C, x) \in Nat
    BY <1>0, <1>9, Integral
<1> PICK n \in {0, 1} :
        \A C, x : Number(todo', C, x) = Number(todo, C, x) + Same(a, C, x) + n * Same(b, C, x)
    BY <1>9
<1>11. ASSUME NEW C, NEW x, Same(b, C, x) = 0
       PROVE  Number(todo', C, x) = Number(todo, C, x) + Same(a, C, x)
    BY <1>10, <1>11, Integral
<1>12. Kept
    <2>1. ASSUME NEW x \in Timers, NEW m \in NamedOfTimer
          PROVE  Number(todo', {m}, x) = Number(todo, {m}, x)
        <3>1. Same(a, {m}, x) = 0 /\ Same(b, {m}, x) = 0
            BY <1>2, SameOfTimers
        <3> QED
            BY <1>10, <1>11, <3>1
    <2> QED
        BY <1>0, <1>1, <1>9, <2>1, StayKept
<1>13. Changes(1, 0, 0, 0)
    <2>1. /\ Same(a, Owners, None) = 1 /\ Same(a, {"unlock", "io"}, None) = 0
          /\ Same(a, {"lock", "io", "cancel"}, None) = 0 /\ Same(a, {"close_handle"}, None) = 0
          /\ Same(b, Owners, None) = 0 /\ Same(b, {"unlock", "io"}, None) = 0
          /\ Same(b, {"lock", "io", "cancel"}, None) = 0 /\ Same(b, {"close_handle"}, None) = 0
        BY DEF Same, Owners, a, b
    <2> QED
        BY <1>11, <2>1 DEF Changes
<1>14. ObjectType'
    <2>1. irps' \in Nat /\ started' \in Int
        <3>1. irps \in Nat /\ started \in Int
            BY Counts
        <3>2. irps > 0 /\ irps' = irps - 1 /\ started' = started - 1
            BY <1>1
        <3> QED
            BY <3>1, <3>2
    <2>2. nRef' \in Int /\ up' = up /\ held' \in Int /\ hFile' \in {"open", "closed"}
          /\ calls' \in Nat /\ socket' = socket
        BY <1>1, Counts
    <2>3. up' \in BOOLEAN
        BY <2>2, Counts
    <2> QED
        BY <1>1, <1>12, <2>1, <2>2, <2>3, KeptType
<1>15. /\ Number(todo', Owners, None) = Number(todo, Owners, None) + 1
       /\ Number(todo', {"unlock", "io"}, None) = Number(todo, {"unlock", "io"}, None)
       /\ Number(todo', {"lock", "io", "cancel"}, None) = Number(todo, {"lock", "io", "cancel"}, None)
       /\ Number(todo', {"close_handle"}, None) = Number(todo, {"close_handle"}, None)
    BY <1>10, <1>13, Counts DEF Changes
<1>16. ObjectRefs'
    <2>1. nRef' = nRef /\ irps' = irps - 1 /\ Referred' = Referred
        BY <1>1, <1>12 DEF Kept
    <2> QED
        BY <1>15, <2>1, Counts DEF ObjectRefs
<1>17. HandleRefs' /\ Closing'
    BY <1>1, <1>15, Counts DEF HandleRefs, Closing
<1> QED
    BY <1>12, <1>14, <1>16, <1>17, AllKept

-----------------------------------------------------------------------------
\* The steps that change a timer: one of them, y, and no other.
TimerNames == {"keep", "is_set", "stop", "delete", "on_timer", "drop", "executed", "returned"}

LEMMA TimerHead ==
    ASSUME ObjectInv, NEW t \in Workers, NEW c \in TimerNames, Object!At(t, c)
    PROVE  /\ Object!Of(t) \in Timers /\ Head(todo[t]) = <<c, Object!Of(t)>>
           /\ todo[t] # <<>> /\ Tail(todo[t]) \in Stack /\ Head(todo[t]) \in Tasks
           /\ Supported(Tail(todo[t])) /\ Clear(Tail(todo[t]))
           /\ Backed(<<c, Object!Of(t)>>, Tail(todo[t]))
           /\ todo[t] = Push(Head(todo[t]), Tail(todo[t])) /\ Head(todo[t]) = todo[t][1]
<1>1. /\ todo[t] # <<>> /\ Head(todo[t]) \in Tasks /\ Head(todo[t])[1] = c
      /\ Head(todo[t]) = <<c, Head(todo[t])[2]>> /\ Object!Of(t) = Head(todo[t])[2]
    BY AtTask DEF ObjectInv
<1>2. Head(todo[t])[2] \in Timers
    BY <1>1, TaskShape DEF TimerNames
<1>3. /\ Tail(todo[t]) \in Stack /\ Supported(Tail(todo[t])) /\ Clear(Tail(todo[t]))
      /\ Backed(Head(todo[t]), Tail(todo[t])) /\ todo[t] = Push(Head(todo[t]), Tail(todo[t]))
      /\ Head(todo[t]) = todo[t][1]
    BY <1>1, NextTask DEF ObjectInv
<1> QED
    BY <1>1, <1>2, <1>3

\* The task of a timer at the head is counted.
LEMMA HeadCounted ==
    ASSUME ObjectInv, NEW t \in Workers, NEW c \in TimerNames, Object!At(t, c)
    PROVE  Number(todo, {c}, Object!Of(t)) > 0
<1>1. todo[t] # <<>> /\ Head(todo[t])[1] \in {c} /\ Head(todo[t])[2] = Object!Of(t)
    BY AtTask DEF ObjectInv
<1> QED
    BY <1>1, NextCounted DEF ObjectInv

TimerRef(x) ==
    tRef[x] = Number(todo, {"drop"}, x) + Number(todo, {"swap"}, x)
              - Number(todo, {"keep"}, x) + Stored(x) + Armed(x)
Timeout(x) ==
    /\ queue[x] = "none" => /\ timeouts[x] = 0 /\ ~isSet[x] /\ ~cbExecuted[x]
                            /\ Number(todo, {"on_timer"}, x) = 0
                            /\ Number(todo, {"delete"}, x) = 0
    /\ queue[x] # "none" =>
         Armed(x) + Number(todo, {"on_timer"}, x) + timeouts[x] = 1
    /\ Number(todo, {"delete"}, x) + Queued(x) <= 1
    /\ queue[x] = "deleted" => ~isSet[x] /\ Number(todo, {"delete"}, x) = 0
    /\ queue[x] = "armed" => ~cbExecuted[x]
    /\ queue[x] = "returned" => cbExecuted[x]

LEMMA EachTimer ==
    /\ TimerRefs <=> \A x \in Timers : TimerRef(x)
    /\ Timeouts <=> \A x \in Timers : Timeout(x)
BY DEF TimerRefs, Timeouts, TimerRef, Timeout

LEMMA EachTimerNext ==
    /\ TimerRefs' <=> \A x \in Timers : TimerRef(x)'
    /\ Timeouts' <=> \A x \in Timers : Timeout(x)'
BY DEF TimerRefs, Timeouts, TimerRef, Timeout

\* Another timer stays as it is.
Alike(x) == /\ tRef'[x] = tRef[x] /\ isSet'[x] = isSet[x] /\ cbExecuted'[x] = cbExecuted[x]
            /\ queue'[x] = queue[x] /\ timeouts'[x] = timeouts[x]
            /\ (pTimer' = x <=> pTimer = x)
            /\ \A c \in NamedOfTimer : Number(todo', {c}, x) = Number(todo, {c}, x)

LEMMA OtherTimer ==
    ASSUME TimerRefs, Timeouts, NEW x \in Timers, Alike(x)
    PROVE  TimerRef(x)' /\ Timeout(x)'
<1>1. /\ Number(todo', {"drop"}, x) = Number(todo, {"drop"}, x)
      /\ Number(todo', {"swap"}, x) = Number(todo, {"swap"}, x)
      /\ Number(todo', {"keep"}, x) = Number(todo, {"keep"}, x)
      /\ Number(todo', {"on_timer"}, x) = Number(todo, {"on_timer"}, x)
      /\ Number(todo', {"delete"}, x) = Number(todo, {"delete"}, x)
    BY DEF Alike, NamedOfTimer
<1>2. Stored(x)' = Stored(x) /\ Armed(x)' = Armed(x) /\ Queued(x)' = Queued(x)
    BY DEF Alike, Stored, Armed, Queued
<1>3. TimerRef(x) /\ Timeout(x)
    BY EachTimer
<1> QED
    BY <1>1, <1>2, <1>3 DEF TimerRef, Timeout, Alike

LEMMA TimerNumbers ==
    ASSUME ObjectInv, NEW x \in Timers
    PROVE  /\ \A c : Number(todo, {c}, x) \in Nat
           /\ tRef[x] \in Int /\ timeouts[x] \in Nat /\ Stored(x) \in {0, 1}
           /\ Armed(x) \in {0, 1} /\ Queued(x) \in {0, 1}
           /\ TimerRef(x) /\ Timeout(x)
BY Integral, EachTimer DEF ObjectInv, ObjectType, Stored, Armed, Queued

\* What one place more or less does to the count of a timer.
Balanced(x) ==
    /\ tRef'[x] \in Int /\ Stored(x)' \in {0, 1} /\ Armed(x)' \in {0, 1}
    /\ Number(todo', {"drop"}, x) \in Nat /\ Number(todo', {"swap"}, x) \in Nat
    /\ Number(todo', {"keep"}, x) \in Nat
    /\ tRef'[x] - tRef[x]
         = (Number(todo', {"drop"}, x) - Number(todo, {"drop"}, x))
           + (Number(todo', {"swap"}, x) - Number(todo, {"swap"}, x))
           - (Number(todo', {"keep"}, x) - Number(todo, {"keep"}, x))
           + (Stored(x)' - Stored(x)) + (Armed(x)' - Armed(x))

LEMMA Sums ==
    ASSUME NEW R \in Int, NEW R2 \in Int, NEW D \in Int, NEW D2 \in Int, NEW S \in Int, NEW S2 \in Int,
           NEW K \in Int, NEW K2 \in Int, NEW P \in Int, NEW P2 \in Int, NEW A \in Int, NEW A2 \in Int,
           R = D + S - K + P + A,
           R2 - R = (D2 - D) + (S2 - S) - (K2 - K) + (P2 - P) + (A2 - A)
    PROVE  R2 = D2 + S2 - K2 + P2 + A2
OBVIOUS

LEMMA TimerMoves ==
    ASSUME ObjectInv, NEW x \in Timers, Balanced(x)
    PROVE  TimerRef(x)'
<1>1. /\ Number(todo, {"drop"}, x) \in Int /\ Number(todo, {"swap"}, x) \in Int
      /\ Number(todo, {"keep"}, x) \in Int /\ tRef[x] \in Int /\ Stored(x) \in Int /\ Armed(x) \in Int
      /\ TimerRef(x)
    <2>1. /\ \A c : Number(todo, {c}, x) \in Nat
          /\ tRef[x] \in Int /\ Stored(x) \in {0, 1} /\ Armed(x) \in {0, 1} /\ TimerRef(x)
        BY TimerNumbers
    <2>2. /\ Number(todo, {"drop"}, x) \in Nat /\ Number(todo, {"swap"}, x) \in Nat
          /\ Number(todo, {"keep"}, x) \in Nat
        BY <2>1
    <2> QED
        BY <2>1, <2>2
<1>0. /\ Number(todo', {"drop"}, x) \in Int /\ Number(todo', {"swap"}, x) \in Int
      /\ Number(todo', {"keep"}, x) \in Int /\ tRef'[x] \in Int /\ Stored(x)' \in Int
      /\ Armed(x)' \in Int
    BY DEF Balanced
<1>2. PICK D \in Int, D2 \in Int : D = Number(todo, {"drop"}, x) /\ D2 = Number(todo', {"drop"}, x)
    BY <1>0, <1>1
<1>3. PICK S \in Int, S2 \in Int : S = Number(todo, {"swap"}, x) /\ S2 = Number(todo', {"swap"}, x)
    BY <1>0, <1>1
<1>4. PICK K \in Int, K2 \in Int : K = Number(todo, {"keep"}, x) /\ K2 = Number(todo', {"keep"}, x)
    BY <1>0, <1>1
<1>5. PICK P \in Int, P2 \in Int : P = Stored(x) /\ P2 = Stored(x)'
    BY <1>0, <1>1
<1>6. PICK A \in Int, A2 \in Int : A = Armed(x) /\ A2 = Armed(x)'
    BY <1>0, <1>1
<1>7. PICK R \in Int, R2 \in Int : R = tRef[x] /\ R2 = tRef'[x]
    BY <1>0, <1>1
<1>8. R = D + S - K + P + A
    BY <1>1, <1>2, <1>3, <1>4, <1>5, <1>6, <1>7, Zenon DEF TimerRef
<1>9. R2 - R = (D2 - D) + (S2 - S) - (K2 - K) + (P2 - P) + (A2 - A)
    BY <1>2, <1>3, <1>4, <1>5, <1>6, <1>7, Zenon DEF Balanced
<1>10. R2 = D2 + S2 - K2 + P2 + A2
    BY <1>8, <1>9
<1> QED
    BY <1>2, <1>3, <1>4, <1>5, <1>6, <1>7, <1>10, Zenon DEF TimerRef

TimerType ==
    /\ pTimer \in Timers \cup {None}
    /\ tRef \in [Timers -> Int] /\ isSet \in [Timers -> BOOLEAN]
    /\ cbExecuted \in [Timers -> BOOLEAN]
    /\ queue \in [Timers -> {"none", "armed", "running", "returned", "deleted"}]
    /\ timeouts \in [Timers -> Nat]

HandleStays == UNCHANGED <<socket, up, held, hFile, irps, started, calls>>

\* The handle does not depend on the timers.
LEMMA TimerDone ==
    ASSUME ObjectInv, TimerType', HandleStays, todo' \in Stacks, Backing', Callback',
           nRef' \in Int, ObjectRefs', \A x \in Timers : TimerRef(x)' /\ Timeout(x)',
           \A C \in NamedOfHandle : Number(todo', C, None) = Number(todo, C, None)
    PROVE  ObjectInv'
<1>1. TimerRefs' /\ Timeouts'
    BY EachTimerNext
<1>2. HandleRefs' /\ Closing'
    BY HandleSame DEF ObjectInv, HandleStays
<1>3. ObjectType'
    BY DEF ObjectInv, ObjectType, TimerType, HandleStays
<1> QED
    BY <1>1, <1>2, <1>3 DEF ObjectInv

LEMMA OldTimerType == ASSUME ObjectInv PROVE TimerType
BY DEF ObjectInv, ObjectType, TimerType

\* How a task of a timer is counted.
LEMMA TimerTask ==
    ASSUME NEW y \in Timers, NEW c
    PROVE  /\ Same(<<c, y>>, {c}, y) = 1
           /\ \A d : d # c => Same(<<c, y>>, {d}, y) = 0
           /\ \A C : \A x : x # y => Same(<<c, y>>, C, x) = 0
           /\ \A C : Same(<<c, y>>, C, None) = 0
BY Numbers DEF Same, In

\* The references of the object stay.
LEMMA RefsStay ==
    ASSUME ObjectInv, nRef' = nRef, irps' = irps, Referred' = Referred,
           Number(todo', Owners, None) = Number(todo, Owners, None)
    PROVE  nRef' \in Int /\ ObjectRefs'
BY Counts DEF ObjectRefs

\* A timer that is used is referred to.
LEMMA UsedTimer ==
    ASSUME ObjectInv, NEW t \in Workers,
           NEW c \in {"keep", "is_set", "stop", "delete", "on_timer", "drop", "executed"},
           Object!At(t, c)
    PROVE  tRef[Object!Of(t)] > 0
<1>1. todo[t] # <<>> /\ Head(todo[t])[1] = c /\ Head(todo[t])[2] = Object!Of(t)
    BY AtTask DEF ObjectInv
<1> QED
    BY <1>1, NextKept DEF ObjectInv

LEMMA KeepInv ==
    ASSUME ObjectInv, NEW t \in Workers, Object!Keep(t)
    PROVE  ObjectInv'
<1>1. Object!At(t, "keep") /\ "keep" \in TimerNames
    BY DEF Object!Keep, TimerNames
<1> PICK y \in Timers : y = Object!Of(t)
    BY <1>1, TimerHead
<1> DEFINE h == <<"keep", y>>
<1>2. /\ tRef' = [tRef EXCEPT ![y] = @ + 1] /\ Object!Then(t, <<>>) /\ HandleStays /\ nRef' = nRef
      /\ UNCHANGED <<isSet, cbExecuted, queue, timeouts, pTimer>>
    BY DEF Object!Keep, Object!object, HandleStays
<1>3. todo[t] # <<>> /\ Head(todo[t]) = h /\ h[1] # "executed"
    BY <1>1, TimerHead
<1>4. GoOn
    BY <1>2 DEF GoOn
<1>5. /\ Same(h, {"keep"}, y) = 1 /\ \A d : d # "keep" => Same(h, {d}, y) = 0
      /\ \A C : \A x : x # y => Same(h, C, x) = 0
      /\ \A C : Same(h, C, None) = 0
    BY TimerTask, SMTT(20)
<1> HIDE DEF h
<1>6. /\ todo' \in Stacks /\ Backing' /\ Callback'
      /\ \A C, x : Number(todo', C, x) = Number(todo, C, x) - Same(h, C, x)
    BY <1>2, <1>3, <1>4, Step0 DEF ObjectInv
<1>7. \A C, x : Number(todo, C, x) \in Nat /\ Number(todo', C, x) \in Nat
    BY <1>6, Integral DEF ObjectInv, ObjectType
<1>8. /\ \A C : Number(todo', C, None) = Number(todo, C, None)
      /\ \A C : \A x : x # y => Number(todo', C, x) = Number(todo, C, x)
    BY <1>5, <1>6, <1>7
<1>9. tRef \in [Timers -> Int] /\ tRef[y] > 0 /\ TimerType
    BY <1>1, UsedTimer, OldTimerType DEF TimerType
<1>10. TimerType' /\ tRef'[y] = tRef[y] + 1 /\ \A x \in Timers : x # y => tRef'[x] = tRef[x]
    BY <1>2, <1>9 DEF TimerType
<1>11. Referred' = Referred
    BY <1>9, <1>10 DEF Referred
<1>12. TimerRef(y)' /\ Timeout(y)'
    <2>1. Number(todo', {"keep"}, y) = Number(todo, {"keep"}, y) - 1
        BY <1>5, <1>6
    <2>2. \A d : d # "keep" => Number(todo', {d}, y) = Number(todo, {d}, y)
        BY <1>5, <1>6, <1>7
    <2>3. /\ Number(todo', {"drop"}, y) = Number(todo, {"drop"}, y)
          /\ Number(todo', {"swap"}, y) = Number(todo, {"swap"}, y)
          /\ Number(todo', {"keep"}, y) = Number(todo, {"keep"}, y) - 1
          /\ Number(todo', {"on_timer"}, y) = Number(todo, {"on_timer"}, y)
          /\ Number(todo', {"delete"}, y) = Number(todo, {"delete"}, y)
        BY <2>1, <2>2
    <2>4. Stored(y)' = Stored(y) /\ Armed(y)' = Armed(y) /\ Queued(y)' = Queued(y)
        BY <1>2 DEF Stored, Armed, Queued
    <2>5. TimerRef(y)'
        <3>1. Balanced(y)
            BY <1>7, <1>9, <1>10, <2>3, <2>4, TimerNumbers DEF Balanced
        <3> QED
            BY <3>1, TimerMoves
    <2>6. Timeout(y)'
        BY <1>2, <2>3, <2>4, TimerNumbers DEF Timeout
    <2> QED
        BY <2>5, <2>6
<1>13. \A x \in Timers : TimerRef(x)' /\ Timeout(x)'
    <2>1. ASSUME NEW x \in Timers, x # y PROVE TimerRef(x)' /\ Timeout(x)'
        <3>1. Alike(x)
            BY <1>2, <1>8, <1>10, <2>1 DEF Alike
        <3> QED
            BY <3>1, OtherTimer DEF ObjectInv
    <2> QED
        BY <1>12, <2>1
<1>14. nRef' \in Int /\ ObjectRefs'
    BY <1>2, <1>8, <1>11, RefsStay DEF HandleStays
<1> QED
    BY <1>2, <1>6, <1>8, <1>10, <1>13, <1>14, TimerDone

LEMMA OneTimer ==
    ASSUME ObjectInv, NEW y \in Timers, TimerType', HandleStays, todo' \in Stacks, Backing',
           Callback', nRef' \in Int, ObjectRefs', TimerRef(y)', Timeout(y)',
           \A x \in Timers : x # y => Alike(x),
           \A C \in NamedOfHandle : Number(todo', C, None) = Number(todo, C, None)
    PROVE  ObjectInv'
<1>1. ASSUME NEW x \in Timers PROVE TimerRef(x)' /\ Timeout(x)'
    <2>1. CASE x = y
        BY <2>1
    <2>2. CASE x # y
        <3>1. Alike(x)
            BY <2>2
        <3> QED
            BY <3>1, OtherTimer DEF ObjectInv
    <2> QED
        BY <2>1, <2>2
<1> QED
    BY <1>1, TimerDone

LEMMA StopTimerInv ==
    ASSUME ObjectInv, NEW t \in Workers, Object!Stop(t)
    PROVE  ObjectInv'
<1>1. Object!At(t, "stop") /\ "stop" \in TimerNames
    BY DEF Object!Stop, TimerNames
<1> PICK y \in Timers : y = Object!Of(t)
    BY <1>1, TimerHead
<1> DEFINE h == <<"stop", y>>
           a == <<"delete", y>>
<1>2. /\ isSet' = [isSet EXCEPT ![y] = FALSE] /\ HandleStays /\ nRef' = nRef /\ irps' = irps
      /\ UNCHANGED <<tRef, cbExecuted, queue, timeouts, pTimer>>
    BY DEF Object!Stop, Object!object, HandleStays
<1>3. /\ todo[t] # <<>> /\ Head(todo[t]) = h /\ h[1] # "executed"
      /\ Backed(h, Tail(todo[t]))
    BY <1>1, TimerHead
<1>4. GoOn
    BY <1>2 DEF GoOn
<1>5. /\ \A d \in NamedOfTimer : Same(h, {d}, y) = 0
      /\ \A C : \A x : x # y => Same(h, C, x) = 0
      /\ \A C : Same(h, C, None) = 0
    BY TimerTask DEF NamedOfTimer
<1>6. /\ Same(a, {"delete"}, y) = 1 /\ \A d : d # "delete" => Same(a, {d}, y) = 0
      /\ \A C : \A x : x # y => Same(a, C, x) = 0
      /\ \A C : Same(a, C, None) = 0
    BY TimerTask, SMTT(20)
<1>7. Ordinary(a) /\ Backed(a, Tail(todo[t]))
    BY <1>3 DEF Ordinary, Tasks, Backed
<1>8. isSet \in [Timers -> BOOLEAN] /\ TimerType /\ Number(todo, {"delete"}, y) \in Nat
    BY OldTimerType, TimerNumbers DEF TimerType
<1>9. isSet'[y] = FALSE /\ Queued(y)' = 0 /\ \A x \in Timers : x # y => isSet'[x] = isSet[x]
    BY <1>2, <1>8 DEF Queued
<1>10. \A C, x : Number(todo, C, x) \in Nat
    BY Integral DEF ObjectInv, ObjectType
<1> HIDE DEF h, a
<1>11. /\ todo' \in Stacks /\ Backing' /\ Callback'
       /\ \A C : Number(todo', C, None) = Number(todo, C, None)
       /\ \A C : \A x : x # y => Number(todo', C, x) = Number(todo, C, x)
       /\ \A d \in NamedOfTimer : d # "delete" => Number(todo', {d}, y) = Number(todo, {d}, y)
       /\ Number(todo', {"delete"}, y) = Number(todo, {"delete"}, y) + Queued(y)
    <2>1. CASE isSet[y]
        <3>1. Object!Then(t, <<a>>)
            BY <2>1 DEF Object!Stop, a
        <3>2. /\ todo' \in Stacks /\ Backing' /\ Callback'
              /\ \A C, x : Number(todo', C, x) = Number(todo, C, x) - Same(h, C, x) + Same(a, C, x)
            BY <1>3, <1>4, <1>7, <3>1, Step1 DEF ObjectInv
        <3>3. /\ \A C : Number(todo', C, None) = Number(todo, C, None)
              /\ \A C : \A x : x # y => Number(todo', C, x) = Number(todo, C, x)
            BY <1>5, <1>6, <1>10, <3>2
        <3>4. ASSUME NEW d \in NamedOfTimer, d # "delete"
              PROVE  Number(todo', {d}, y) = Number(todo, {d}, y)
            <4>1. Same(h, {d}, y) = 0 /\ Same(a, {d}, y) = 0
                BY <1>5, <1>6, <3>4
            <4> QED
                BY <1>10, <3>2, <4>1
        <3>5. Same(h, {"delete"}, y) = 0 /\ Same(a, {"delete"}, y) = 1
            BY <1>5, <1>6 DEF NamedOfTimer
        <3>6. Number(todo', {"delete"}, y) = Number(todo, {"delete"}, y) + 1
            BY <1>8, <3>2, <3>5
        <3> QED
            BY <2>1, <3>2, <3>3, <3>4, <3>6 DEF Queued
    <2>2. CASE ~isSet[y]
        <3>1. Object!Then(t, <<>>)
            BY <2>2 DEF Object!Stop
        <3>2. /\ todo' \in Stacks /\ Backing' /\ Callback'
              /\ \A C, x : Number(todo', C, x) = Number(todo, C, x) - Same(h, C, x)
            BY <1>3, <1>4, <3>1, Step0 DEF ObjectInv
        <3>3. /\ \A C : Number(todo', C, None) = Number(todo, C, None)
              /\ \A C : \A x : x # y => Number(todo', C, x) = Number(todo, C, x)
            BY <1>5, <1>10, <3>2
        <3>4. \A d \in NamedOfTimer : Number(todo', {d}, y) = Number(todo, {d}, y)
            BY <1>5, <1>10, <3>2
        <3>5. Number(todo', {"delete"}, y) = Number(todo, {"delete"}, y) + 0
            BY <1>8, <3>4 DEF NamedOfTimer
        <3> QED
            BY <2>2, <3>2, <3>3, <3>4, <3>5 DEF Queued
    <2> QED
        BY <2>1, <2>2
<1>12. \A C, x : Number(todo', C, x) \in Nat
    BY <1>11, Integral
<1>13. /\ Number(todo', {"drop"}, y) = Number(todo, {"drop"}, y)
       /\ Number(todo', {"swap"}, y) = Number(todo, {"swap"}, y)
       /\ Number(todo', {"keep"}, y) = Number(todo, {"keep"}, y)
       /\ Number(todo', {"on_timer"}, y) = Number(todo, {"on_timer"}, y)
    BY <1>11 DEF NamedOfTimer
<1>14. Stored(y)' = Stored(y) /\ Armed(y)' = Armed(y) /\ Referred' = Referred
    BY <1>2 DEF Stored, Armed, Referred
<1>15. TimerRef(y)'
    BY <1>2, <1>13, <1>14, TimerNumbers DEF TimerRef
<1>16. Timeout(y)'
    <2>1. Timeout(y) /\ Queued(y) \in {0, 1} /\ (~isSet[y] => Queued(y) = 0)
        BY TimerNumbers DEF Queued
    <2>2. Number(todo', {"delete"}, y) + Queued(y)' <= 1
        BY <1>8, <1>9, <1>11, <2>1 DEF Timeout
    <2>3. queue[y] \in {"none", "deleted"} => Number(todo', {"delete"}, y) = 0
        BY <1>8, <1>11, <2>1 DEF Timeout
    <2> QED
        BY <1>2, <1>9, <1>13, <1>14, <2>1, <2>2, <2>3 DEF Timeout
<1>17. TimerType'
    BY <1>2, <1>8 DEF TimerType
<1>18. nRef' \in Int /\ ObjectRefs'
    BY <1>2, <1>11, <1>14, RefsStay
<1>19. \A x \in Timers : x # y => Alike(x)
    BY <1>2, <1>9, <1>11 DEF Alike
<1> QED
    BY <1>2, <1>11, <1>15, <1>16, <1>17, <1>18, <1>19, OneTimer

LEMMA DeleteTimerInv ==
    ASSUME ObjectInv, NEW t \in Workers, Object!DeleteTimer(t)
    PROVE  ObjectInv'
<1>1. Object!At(t, "delete") /\ "delete" \in TimerNames
    BY DEF Object!DeleteTimer, TimerNames
<1> PICK y \in Timers : y = Object!Of(t)
    BY <1>1, TimerHead
<1> DEFINE h == <<"delete", y>>
           a == <<"on_timer", y>>
           b == <<"drop", y>>
<1>2. /\ queue' = [queue EXCEPT ![y] = IF @ = "armed" THEN "deleted" ELSE @]
      /\ HandleStays /\ nRef' = nRef /\ irps' = irps
      /\ UNCHANGED <<tRef, isSet, cbExecuted, timeouts, pTimer>>
    BY DEF Object!DeleteTimer, Object!object, HandleStays
<1>3. /\ todo[t] # <<>> /\ Head(todo[t]) = h /\ h[1] # "executed"
      /\ Backed(h, Tail(todo[t])) /\ Tail(todo[t]) \in Stack
    BY <1>1, TimerHead
<1>4. TimerType /\ queue \in [Timers -> {"none", "armed", "running", "returned", "deleted"}]
    BY OldTimerType DEF TimerType
<1>5. /\ queue'[y] = (IF queue[y] = "armed" THEN "deleted" ELSE queue[y])
      /\ \A x \in Timers : x # y => queue'[x] = queue[x]
    BY <1>2, <1>4
<1>6. GoOn
    BY <1>2, <1>5 DEF GoOn
<1>7. /\ Same(h, {"delete"}, y) = 1 /\ \A d : d # "delete" => Same(h, {d}, y) = 0
      /\ \A C : \A x : x # y => Same(h, C, x) = 0
      /\ \A C : Same(h, C, None) = 0
    BY TimerTask, SMTT(20)
<1>8. /\ Same(a, {"on_timer"}, y) = 1 /\ \A d : d # "on_timer" => Same(a, {d}, y) = 0
      /\ \A C : \A x : x # y => Same(a, C, x) = 0
      /\ \A C : Same(a, C, None) = 0
    BY TimerTask, SMTT(20)
<1>9. /\ Same(b, {"drop"}, y) = 1 /\ \A d : d # "drop" => Same(b, {d}, y) = 0
      /\ \A C : \A x : x # y => Same(b, C, x) = 0
      /\ \A C : Same(b, C, None) = 0
    BY TimerTask, SMTT(20)
<1>10. Ordinary(a) /\ Ordinary(b) /\ Backed(b, Tail(todo[t]))
    BY DEF Ordinary, Tasks, Backed
<1>11. Backed(a, Push(b, Tail(todo[t])))
    <2>1. KeepsTimer(Push(b, Tail(todo[t])), y)
        BY <1>3, <1>10, KeepsPush DEF Ordinary
    <2> QED
        BY <2>1 DEF Backed
<1>12. \A C, x : Number(todo, C, x) \in Nat
    BY Integral DEF ObjectInv, ObjectType
\* The timer has not been stopped before, and its callback comes if it runs or ran.
<1>13. /\ Number(todo, {"delete"}, y) = 1 /\ Queued(y) = 0 /\ queue[y] \notin {"none", "deleted"}
       /\ queue[y] = "returned" => cbExecuted[y]
       /\ queue[y] = "armed" => ~cbExecuted[y]
       /\ Armed(y) + Number(todo, {"on_timer"}, y) + timeouts[y] = 1
    <2>1. Number(todo, {"delete"}, y) > 0
        BY <1>1, HeadCounted
    <2>2. Timeout(y) /\ Queued(y) \in {0, 1} /\ Number(todo, {"delete"}, y) \in Nat
        BY TimerNumbers
    <2>3. Number(todo, {"delete"}, y) = 1 /\ Queued(y) = 0
        BY <2>1, <2>2 DEF Timeout
    <2>4. queue[y] \notin {"none", "deleted"}
        BY <2>2, <2>3 DEF Timeout
    <2> QED
        BY <2>2, <2>3, <2>4 DEF Timeout
<1> HIDE DEF h, a, b
<1>14. /\ todo' \in Stacks /\ Backing' /\ Callback'
       /\ \A C : Number(todo', C, None) = Number(todo, C, None)
       /\ \A C : \A x : x # y => Number(todo', C, x) = Number(todo, C, x)
       /\ \A d \in {"swap", "keep"} : Number(todo', {d}, y) = Number(todo, {d}, y)
       /\ Number(todo', {"delete"}, y) = 0
       /\ Number(todo', {"on_timer"}, y) = Number(todo, {"on_timer"}, y) + Armed(y)
       /\ Number(todo', {"drop"}, y) = Number(todo, {"drop"}, y) + Armed(y)
    <2>1. CASE queue[y] # "running" /\ ~cbExecuted[y]
        <3>1. Object!Then(t, <<a, b>>)
            BY <2>1 DEF Object!DeleteTimer, a, b
        <3>2. /\ todo' \in Stacks /\ Backing' /\ Callback'
              /\ \A C, x : Number(todo', C, x)
                           = Number(todo, C, x) - Same(h, C, x) + Same(b, C, x) + Same(a, C, x)
            BY <1>3, <1>6, <1>10, <1>11, <3>1, Step2 DEF ObjectInv
        <3>3. /\ \A C : Number(todo', C, None) = Number(todo, C, None)
              /\ \A C : \A x : x # y => Number(todo', C, x) = Number(todo, C, x)
            BY <1>7, <1>8, <1>9, <1>12, <3>2
        <3>4. ASSUME NEW d \in {"swap", "keep"}
              PROVE  Number(todo', {d}, y) = Number(todo, {d}, y)
            <4>1. Same(h, {d}, y) = 0 /\ Same(a, {d}, y) = 0 /\ Same(b, {d}, y) = 0
                BY <1>7, <1>8, <1>9
            <4> QED
                BY <1>12, <3>2, <4>1
        <3>5. queue[y] = "armed" /\ Armed(y) = 1
            BY <1>4, <1>13, <2>1 DEF Armed
        <3>6. Number(todo', {"delete"}, y) = 0
            <4>1. Same(h, {"delete"}, y) = 1 /\ Same(a, {"delete"}, y) = 0 /\ Same(b, {"delete"}, y) = 0
                BY <1>7, <1>8, <1>9
            <4> QED
                BY <1>12, <1>13, <3>2, <4>1
        <3>7. Number(todo', {"on_timer"}, y) = Number(todo, {"on_timer"}, y) + 1
            <4>1. /\ Same(h, {"on_timer"}, y) = 0 /\ Same(a, {"on_timer"}, y) = 1
                  /\ Same(b, {"on_timer"}, y) = 0
                BY <1>7, <1>8, <1>9
            <4> QED
                BY <1>12, <3>2, <4>1
        <3>8. Number(todo', {"drop"}, y) = Number(todo, {"drop"}, y) + 1
            <4>1. Same(h, {"drop"}, y) = 0 /\ Same(a, {"drop"}, y) = 0 /\ Same(b, {"drop"}, y) = 1
                BY <1>7, <1>8, <1>9
            <4> QED
                BY <1>12, <3>2, <4>1
        <3> QED
            BY <3>2, <3>3, <3>4, <3>5, <3>6, <3>7, <3>8
    <2>2. CASE ~(queue[y] # "running" /\ ~cbExecuted[y])
        <3>1. Object!Then(t, <<>>)
            BY <2>2 DEF Object!DeleteTimer
        <3>2. /\ todo' \in Stacks /\ Backing' /\ Callback'
              /\ \A C, x : Number(todo', C, x) = Number(todo, C, x) - Same(h, C, x)
            BY <1>3, <1>6, <3>1, Step0 DEF ObjectInv
        <3>3. /\ \A C : Number(todo', C, None) = Number(todo, C, None)
              /\ \A C : \A x : x # y => Number(todo', C, x) = Number(todo, C, x)
            BY <1>7, <1>12, <3>2
        <3>4. ASSUME NEW d, d # "delete"
              PROVE  Number(todo', {d}, y) = Number(todo, {d}, y)
            <4>1. Same(h, {d}, y) = 0
                BY <1>7, <3>4
            <4> QED
                BY <1>12, <3>2, <4>1
        <3>5. queue[y] # "armed" /\ Armed(y) = 0
            BY <1>13, <2>2 DEF Armed
        <3>6. Number(todo', {"delete"}, y) = 0
            BY <1>7, <1>13, <3>2
        <3>7. Number(todo', {"on_timer"}, y) = Number(todo, {"on_timer"}, y) + 0
            BY <1>12, <3>4
        <3>8. Number(todo', {"drop"}, y) = Number(todo, {"drop"}, y) + 0
            BY <1>12, <3>4
        <3> QED
            BY <3>2, <3>3, <3>4, <3>5, <3>6, <3>7, <3>8
    <2> QED
        BY <2>1, <2>2
<1>15. \A C, x : Number(todo', C, x) \in Nat
    BY <1>14, Integral
<1>16. /\ Stored(y)' = Stored(y) /\ Armed(y)' = 0 /\ Queued(y)' = Queued(y) /\ Referred' = Referred
    BY <1>2, <1>5 DEF Stored, Armed, Queued, Referred
<1>17. TimerRef(y)'
    <2>1. /\ Number(todo', {"swap"}, y) = Number(todo, {"swap"}, y)
          /\ Number(todo', {"keep"}, y) = Number(todo, {"keep"}, y) /\ tRef'[y] = tRef[y]
        BY <1>2, <1>14
    <2>2. /\ \A c : Number(todo, {c}, y) \in Nat
          /\ tRef[y] \in Int /\ Stored(y) \in {0, 1} /\ Armed(y) \in {0, 1} /\ TimerRef(y)
        BY TimerNumbers
    <2>3. PICK A \in Int : A = Armed(y)
        BY <2>2
    <2>4. PICK D \in Int : D = Number(todo, {"drop"}, y)
        BY <1>12
    <2>5. Number(todo', {"drop"}, y) = D + A
        BY <1>14, <2>3, <2>4
    <2>6. PICK R \in Int : R = Number(todo, {"swap"}, y) - Number(todo, {"keep"}, y) + Stored(y)
        BY <1>12, <2>2
    <2>7. tRef[y] = D + R + A
        BY <1>12, <2>2, <2>3, <2>4, <2>6 DEF TimerRef
    <2>8. tRef'[y] = (D + A) + R + 0
        BY <2>1, <2>7
    <2> QED
        BY <1>12, <1>16, <2>1, <2>2, <2>5, <2>6, <2>8 DEF TimerRef
<1>18. Timeout(y)'
    <2>1. Queued(y) = 0 => ~isSet[y]
        BY DEF Queued
    <2>2. /\ Number(todo', {"delete"}, y) + Queued(y)' <= 1 /\ ~isSet'[y]
        BY <1>2, <1>13, <1>14, <1>16, <2>1
    <2>3. Armed(y)' + Number(todo', {"on_timer"}, y) + timeouts'[y] = 1
        BY <1>2, <1>12, <1>13, <1>14, <1>16, TimerNumbers
    <2>4. queue'[y] \notin {"none", "armed"} /\ (queue'[y] = "returned" => cbExecuted'[y])
        BY <1>2, <1>5, <1>13
    <2> QED
        BY <1>14, <2>2, <2>3, <2>4 DEF Timeout
<1>19. TimerType'
    BY <1>2, <1>4, <1>5 DEF TimerType
<1>20. nRef' \in Int /\ ObjectRefs'
    BY <1>2, <1>14, <1>16, RefsStay
<1>21. \A x \in Timers : x # y => Alike(x)
    BY <1>2, <1>5, <1>14 DEF Alike
<1> QED
    BY <1>2, <1>14, <1>17, <1>18, <1>19, <1>20, <1>21, OneTimer

\* A task of the object.
LEMMA ObjectTask ==
    ASSUME NEW c \in PlainNames
    PROVE  /\ Ordinary(<<c, None>>) /\ Object!Task(c) = <<c, None>>
           /\ \A C : \A x \in Timers : Same(<<c, None>>, C, x) = 0
           /\ \A C : c \notin C => Same(<<c, None>>, C, None) = 0
           /\ \A C : c \in C => Same(<<c, None>>, C, None) = 1
BY PlainTask, Numbers DEF Same

LEMMA OnTimerInv ==
    ASSUME ObjectInv, NEW t \in Workers, Object!OnTimer(t)
    PROVE  ObjectInv'
<1>1. Object!At(t, "on_timer") /\ "on_timer" \in TimerNames
    BY DEF Object!OnTimer, TimerNames
<1> PICK y \in Timers : y = Object!Of(t)
    BY <1>1, TimerHead
<1> DEFINE h == <<"on_timer", y>>
           a == <<"swap", None>>
           b == <<"close", None>>
<1>2. /\ timeouts' = [timeouts EXCEPT ![y] = @ + 1]
      /\ Object!Then(t, <<Object!Task("swap"), Object!Task("close")>>)
      /\ HandleStays /\ nRef' = nRef /\ irps' = irps
      /\ UNCHANGED <<tRef, isSet, cbExecuted, queue, pTimer>>
    BY DEF Object!OnTimer, Object!object, HandleStays
<1>3. /\ todo[t] # <<>> /\ Head(todo[t]) = h /\ h[1] # "executed"
      /\ Backed(h, Tail(todo[t])) /\ Tail(todo[t]) \in Stack
    BY <1>1, TimerHead
<1>4. TimerType /\ timeouts \in [Timers -> Nat]
    BY OldTimerType DEF TimerType
<1>5. timeouts'[y] = timeouts[y] + 1 /\ \A x \in Timers : x # y => timeouts'[x] = timeouts[x]
    BY <1>2, <1>4
<1>6. GoOn
    BY <1>2 DEF GoOn
<1>7. /\ Same(h, {"on_timer"}, y) = 1 /\ \A d : d # "on_timer" => Same(h, {d}, y) = 0
      /\ \A C : \A x : x # y => Same(h, C, x) = 0
      /\ \A C : Same(h, C, None) = 0
    BY TimerTask, SMTT(20)
<1>8. /\ Ordinary(a) /\ Object!Task("swap") = a
      /\ \A C : \A x \in Timers : Same(a, C, x) = 0
      /\ \A C : "swap" \notin C => Same(a, C, None) = 0
    BY ObjectTask DEF PlainNames
<1>9. /\ Ordinary(b) /\ Object!Task("close") = b
      /\ \A C : \A x \in Timers : Same(b, C, x) = 0
      /\ \A C : "close" \notin C => Same(b, C, None) = 0
    BY ObjectTask DEF PlainNames
<1>10. Keeps(Tail(todo[t]))
    <2>1. KeepsTimer(Tail(todo[t]), y)
        BY <1>3 DEF Backed
    <2>2. b \in Tasks
        BY <1>9 DEF Ordinary
    <2> QED
        BY <1>3, <2>1, <2>2, KeepsPush
<1>11. Backed(b, Tail(todo[t]))
    BY <1>10 DEF Backed
<1>12. Backed(a, Push(b, Tail(todo[t])))
    <2>1. b \in Tasks
        BY <1>9 DEF Ordinary
    <2>2. Keeps(Push(b, Tail(todo[t])))
        BY <1>3, <1>10, <2>1, KeepsPush
    <2> QED
        BY <2>2 DEF Backed
<1>13. \A C, x : Number(todo, C, x) \in Nat
    BY Integral DEF ObjectInv, ObjectType
<1>14. /\ queue[y] # "none" /\ Number(todo, {"on_timer"}, y) > 0
    <2>1. Number(todo, {"on_timer"}, y) > 0
        BY <1>1, HeadCounted
    <2> QED
        BY <2>1, TimerNumbers DEF Timeout
<1> HIDE DEF h, a, b
<1>15. Object!Then(t, <<a, b>>)
    BY <1>2, <1>8, <1>9
<1>16. /\ todo' \in Stacks /\ Backing' /\ Callback'
       /\ \A C, x : Number(todo', C, x)
                    = Number(todo, C, x) - Same(h, C, x) + Same(b, C, x) + Same(a, C, x)
    BY <1>3, <1>6, <1>8, <1>9, <1>11, <1>12, <1>15, Step2 DEF ObjectInv
<1>17. \A C, x : Number(todo', C, x) \in Nat
    BY <1>16, Integral
<1>18. ASSUME NEW C, "swap" \notin C, "close" \notin C
       PROVE  Number(todo', C, None) = Number(todo, C, None)
    <2>1. Same(h, C, None) = 0 /\ Same(a, C, None) = 0 /\ Same(b, C, None) = 0
        BY <1>7, <1>8, <1>9, <1>18
    <2> QED
        BY <1>13, <1>16, <2>1
<1>19. ASSUME NEW C, NEW x \in Timers, x # y
       PROVE  Number(todo', C, x) = Number(todo, C, x)
    <2>1. Same(h, C, x) = 0 /\ Same(a, C, x) = 0 /\ Same(b, C, x) = 0
        BY <1>7, <1>8, <1>9, <1>19
    <2> QED
        BY <1>13, <1>16, <2>1
<1>20. ASSUME NEW d, d # "on_timer"
       PROVE  Number(todo', {d}, y) = Number(todo, {d}, y)
    <2>1. Same(h, {d}, y) = 0 /\ Same(a, {d}, y) = 0 /\ Same(b, {d}, y) = 0
        BY <1>7, <1>8, <1>9, <1>20
    <2> QED
        BY <1>13, <1>16, <2>1
<1>21. Number(todo', {"on_timer"}, y) = Number(todo, {"on_timer"}, y) - 1
    <2>1. Same(h, {"on_timer"}, y) = 1 /\ Same(a, {"on_timer"}, y) = 0 /\ Same(b, {"on_timer"}, y) = 0
        BY <1>7, <1>8, <1>9
    <2> QED
        BY <1>13, <1>16, <2>1
<1>22. /\ Number(todo', {"drop"}, y) = Number(todo, {"drop"}, y)
       /\ Number(todo', {"swap"}, y) = Number(todo, {"swap"}, y)
       /\ Number(todo', {"keep"}, y) = Number(todo, {"keep"}, y)
       /\ Number(todo', {"delete"}, y) = Number(todo, {"delete"}, y)
    BY <1>20
<1>23. /\ Stored(y)' = Stored(y) /\ Armed(y)' = Armed(y) /\ Queued(y)' = Queued(y)
       /\ Referred' = Referred
    BY <1>2 DEF Stored, Armed, Queued, Referred
<1>24. TimerRef(y)'
    BY <1>2, <1>22, <1>23, TimerNumbers DEF TimerRef
<1>25. Timeout(y)'
    <2>1. Armed(y)' + Number(todo', {"on_timer"}, y) + timeouts'[y] = 1
        BY <1>5, <1>13, <1>14, <1>21, <1>23, TimerNumbers DEF Timeout
    <2> QED
        BY <1>2, <1>14, <1>22, <1>23, <2>1, TimerNumbers DEF Timeout
<1>26. TimerType'
    BY <1>2, <1>4, <1>5 DEF TimerType
<1>27. nRef' \in Int /\ ObjectRefs'
    <2>1. Number(todo', Owners, None) = Number(todo, Owners, None)
        BY <1>18 DEF Owners
    <2> QED
        BY <1>2, <1>23, <2>1, RefsStay
<1>28. \A C \in NamedOfHandle : Number(todo', C, None) = Number(todo, C, None)
    BY <1>18 DEF NamedOfHandle
<1>29. \A x \in Timers : x # y => Alike(x)
    BY <1>2, <1>5, <1>19 DEF Alike
<1> QED
    BY <1>2, <1>16, <1>24, <1>25, <1>26, <1>27, <1>28, <1>29, OneTimer

LEMMA DropInv ==
    ASSUME ObjectInv, NEW t \in Workers, Object!Drop(t)
    PROVE  ObjectInv'
<1>1. Object!At(t, "drop") /\ "drop" \in TimerNames
    BY DEF Object!Drop, TimerNames
<1> PICK y \in Timers : y = Object!Of(t)
    BY <1>1, TimerHead
<1> DEFINE h == <<"drop", y>>
           a == <<"release", None>>
<1>2. /\ tRef' = [tRef EXCEPT ![y] = @ - 1]
      /\ HandleStays /\ nRef' = nRef /\ irps' = irps
      /\ UNCHANGED <<isSet, cbExecuted, queue, timeouts, pTimer>>
    BY DEF Object!Drop, Object!object, HandleStays
<1>3. /\ todo[t] # <<>> /\ Head(todo[t]) = h /\ h[1] # "executed"
    BY <1>1, TimerHead
<1>4. TimerType /\ tRef \in [Timers -> Int] /\ tRef[y] > 0
    BY <1>1, UsedTimer, OldTimerType DEF TimerType
<1>5. tRef'[y] = tRef[y] - 1 /\ \A x \in Timers : x # y => tRef'[x] = tRef[x]
    BY <1>2, <1>4
<1>6. GoOn
    BY <1>2 DEF GoOn
<1>7. /\ Same(h, {"drop"}, y) = 1 /\ \A d : d # "drop" => Same(h, {d}, y) = 0
      /\ \A C : \A x : x # y => Same(h, C, x) = 0
      /\ \A C : Same(h, C, None) = 0
    BY TimerTask, SMTT(20)
<1>8. /\ Ordinary(a) /\ Object!Task("release") = a
      /\ \A C : \A x \in Timers : Same(a, C, x) = 0
      /\ \A C : "release" \notin C => Same(a, C, None) = 0
      /\ \A C : "release" \in C => Same(a, C, None) = 1
    BY ObjectTask DEF PlainNames
<1>9. Backed(a, Tail(todo[t]))
    BY DEF Backed
<1>10. \A C, x : Number(todo, C, x) \in Nat
    BY Integral DEF ObjectInv, ObjectType
<1> HIDE DEF h, a
<1>11. /\ todo' \in Stacks /\ Backing' /\ Callback'
       /\ \A C : "release" \notin C => Number(todo', C, None) = Number(todo, C, None)
       /\ \A C : \A x \in Timers : x # y => Number(todo', C, x) = Number(todo, C, x)
       /\ \A d : d # "drop" => Number(todo', {d}, y) = Number(todo, {d}, y)
       /\ Number(todo', {"drop"}, y) = Number(todo, {"drop"}, y) - 1
       /\ Number(todo', Owners, None) = Number(todo, Owners, None) + (IF tRef[y] = 1 THEN 1 ELSE 0)
    <2>1. CASE tRef[y] = 1
        <3>1. Object!Then(t, <<a>>)
            BY <1>8, <2>1 DEF Object!Drop
        <3>2. /\ todo' \in Stacks /\ Backing' /\ Callback'
              /\ \A C, x : Number(todo', C, x) = Number(todo, C, x) - Same(h, C, x) + Same(a, C, x)
            BY <1>3, <1>6, <1>8, <1>9, <3>1, Step1 DEF ObjectInv
        <3>3. ASSUME NEW C, "release" \notin C
              PROVE  Number(todo', C, None) = Number(todo, C, None)
            <4>1. Same(h, C, None) = 0 /\ Same(a, C, None) = 0
                BY <1>7, <1>8, <3>3
            <4> QED
                BY <1>10, <3>2, <4>1
        <3>4. ASSUME NEW C, NEW x \in Timers, x # y
              PROVE  Number(todo', C, x) = Number(todo, C, x)
            <4>1. Same(h, C, x) = 0 /\ Same(a, C, x) = 0
                BY <1>7, <1>8, <3>4
            <4> QED
                BY <1>10, <3>2, <4>1
        <3>5. ASSUME NEW d, d # "drop"
              PROVE  Number(todo', {d}, y) = Number(todo, {d}, y)
            <4>1. Same(h, {d}, y) = 0 /\ Same(a, {d}, y) = 0
                BY <1>7, <1>8, <3>5
            <4> QED
                BY <1>10, <3>2, <4>1
        <3>6. Number(todo', {"drop"}, y) = Number(todo, {"drop"}, y) - 1
            <4>1. Same(h, {"drop"}, y) = 1 /\ Same(a, {"drop"}, y) = 0
                BY <1>7, <1>8
            <4> QED
                BY <1>10, <3>2, <4>1
        <3>7. Number(todo', Owners, None) = Number(todo, Owners, None) + 1
            <4>1. Same(h, Owners, None) = 0 /\ Same(a, Owners, None) = 1
                BY <1>7, <1>8 DEF Owners
            <4> QED
                BY <1>10, <3>2, <4>1
        <3> QED
            BY <2>1, <3>2, <3>3, <3>4, <3>5, <3>6, <3>7
    <2>2. CASE tRef[y] # 1
        <3>1. Object!Then(t, <<>>)
            BY <2>2 DEF Object!Drop
        <3>2. /\ todo' \in Stacks /\ Backing' /\ Callback'
              /\ \A C, x : Number(todo', C, x) = Number(todo, C, x) - Same(h, C, x)
            BY <1>3, <1>6, <3>1, Step0 DEF ObjectInv
        <3>3. /\ \A C : Number(todo', C, None) = Number(todo, C, None)
              /\ \A C : \A x : x # y => Number(todo', C, x) = Number(todo, C, x)
            BY <1>7, <1>10, <3>2
        <3>4. ASSUME NEW d, d # "drop"
              PROVE  Number(todo', {d}, y) = Number(todo, {d}, y)
            <4>1. Same(h, {d}, y) = 0
                BY <1>7, <3>4
            <4> QED
                BY <1>10, <3>2, <4>1
        <3>5. Number(todo', {"drop"}, y) = Number(todo, {"drop"}, y) - 1
            BY <1>7, <1>10, <3>2
        <3>6. Number(todo', Owners, None) = Number(todo, Owners, None) + 0
            BY <1>10, <3>3
        <3> QED
            BY <2>2, <3>2, <3>3, <3>4, <3>5, <3>6
    <2> QED
        BY <2>1, <2>2
<1>12. \A C, x : Number(todo', C, x) \in Nat
    BY <1>11, Integral
<1>13. /\ Number(todo', {"swap"}, y) = Number(todo, {"swap"}, y)
       /\ Number(todo', {"keep"}, y) = Number(todo, {"keep"}, y)
       /\ Number(todo', {"on_timer"}, y) = Number(todo, {"on_timer"}, y)
       /\ Number(todo', {"delete"}, y) = Number(todo, {"delete"}, y)
    BY <1>11
<1>14. Stored(y)' = Stored(y) /\ Armed(y)' = Armed(y) /\ Queued(y)' = Queued(y)
    BY <1>2 DEF Stored, Armed, Queued
<1>15. TimerRef(y)'
    <2>1. Stored(y) \in {0, 1} /\ Armed(y) \in {0, 1} /\ TimerRef(y)
        BY TimerNumbers
    <2>2. PICK D \in Int : D = Number(todo, {"drop"}, y)
        BY <1>10
    <2>3. PICK R \in Int : R = Number(todo, {"swap"}, y) - Number(todo, {"keep"}, y) + Stored(y) + Armed(y)
        BY <1>10, <2>1
    <2>4. tRef[y] = D + R
        BY <1>10, <2>1, <2>2, <2>3 DEF TimerRef
    <2>5. tRef'[y] = (D - 1) + R
        BY <1>5, <2>4
    <2>6. Number(todo', {"drop"}, y) = D - 1
        BY <1>11, <2>2
    <2> QED
        BY <1>10, <1>13, <1>14, <2>1, <2>3, <2>5, <2>6 DEF TimerRef
<1>16. Timeout(y)'
    BY <1>2, <1>13, <1>14, TimerNumbers DEF Timeout
<1>17. TimerType'
    BY <1>2, <1>4, <1>5 DEF TimerType
\* The timer referred to the object as long as somebody referred to the timer.
<1>18. nRef' \in Int /\ ObjectRefs'
    <2>1. IsFiniteSet(Referred)
        BY ReferredFinite
    <2>2. CASE tRef[y] = 1
        <3>1. y \in Referred /\ Referred' = Referred \ {y}
            BY <1>4, <1>5, <2>2 DEF Referred
        <3>2. Cardinality(Referred') = Cardinality(Referred) - 1
            BY <2>1, <3>1, FS_RemoveElement
        <3> QED
            BY <1>2, <1>11, <2>2, <3>2, Counts DEF ObjectRefs
    <2>3. CASE tRef[y] # 1
        <3>1. tRef'[y] > 0
            BY <1>4, <1>5, <2>3
        <3>2. Referred' = Referred
            BY <1>4, <1>5, <3>1 DEF Referred
        <3>3. Number(todo', Owners, None) = Number(todo, Owners, None)
            BY <1>10, <1>11, <2>3
        <3> QED
            BY <1>2, <3>2, <3>3, RefsStay
    <2> QED
        BY <2>2, <2>3
<1>19. \A C \in NamedOfHandle : Number(todo', C, None) = Number(todo, C, None)
    BY <1>11 DEF NamedOfHandle
<1>20. \A x \in Timers : x # y => Alike(x)
    BY <1>2, <1>5, <1>11 DEF Alike
<1> QED
    BY <1>2, <1>11, <1>15, <1>16, <1>17, <1>18, <1>19, <1>20, OneTimer

\* Whoever swaps takes the reference that _pTimer held.
LEMMA SetNewTimerInv ==
    ASSUME ObjectInv, NEW t \in Workers, Object!SetNewTimer(t)
    PROVE  ObjectInv'
<1> PICK y : y = Object!Of(t)
    OBVIOUS
<1> PICK p \in Timers \cup {None} : p = pTimer
    BY DEF ObjectInv, ObjectType
<1> DEFINE h == <<"swap", y>>
           a == <<"stop", p>>
           b == <<"drop", p>>
<1>1. /\ pTimer' = y /\ HandleStays /\ nRef' = nRef /\ irps' = irps
      /\ UNCHANGED <<tRef, isSet, cbExecuted, queue, timeouts>>
    BY DEF Object!SetNewTimer, Object!timer, HandleStays
<1>2. /\ todo[t] # <<>> /\ Head(todo[t]) = h /\ h \in Tasks /\ h[1] = "swap" /\ h[2] = y
      /\ Tail(todo[t]) \in Stack /\ y \in Timers \cup {None}
    <2>1. Object!At(t, "swap")
        BY DEF Object!SetNewTimer
    <2>2. todo[t] # <<>> /\ Head(todo[t]) = h /\ Head(todo[t]) \in Tasks
        BY <2>1, AtTask DEF ObjectInv
    <2>3. Tail(todo[t]) \in Stack
        BY <2>2, NextTask DEF ObjectInv
    <2>4. h[2] \in Timers \cup {None}
        BY <2>2, TaskShape
    <2> QED
        BY <2>2, <2>3, <2>4
<1>3. GoOn
    BY <1>1 DEF GoOn
<1>4. \A C, x : Number(todo, C, x) \in Nat
    BY Integral DEF ObjectInv, ObjectType
<1>5. /\ \A C : "swap" \notin C => \A x : Same(h, C, x) = 0
      /\ Same(h, {"swap"}, y) = 1 /\ \A C : \A x : x # y => Same(h, C, x) = 0
    BY <1>2 DEF Same
<1>6. p # None => /\ p \in Timers /\ Ordinary(a) /\ Ordinary(b) /\ Backed(b, Tail(todo[t]))
                  /\ Backed(a, Push(b, Tail(todo[t])))
    <2>1. SUFFICES ASSUME p # None
                   PROVE  /\ p \in Timers /\ Ordinary(a) /\ Ordinary(b) /\ Backed(b, Tail(todo[t]))
                          /\ Backed(a, Push(b, Tail(todo[t])))
        OBVIOUS
    <2>2. p \in Timers /\ Ordinary(a) /\ Ordinary(b) /\ Backed(b, Tail(todo[t]))
        BY <2>1 DEF Ordinary, Tasks, Backed
    <2>3. KeepsTimer(Push(b, Tail(todo[t])), p)
        BY <1>2, <2>2, KeepsPush DEF Ordinary
    <2> QED
        BY <2>2, <2>3 DEF Backed
<1>7. /\ \A C : "stop" \notin C => \A x : Same(a, C, x) = 0
      /\ \A C : "drop" \notin C => \A x : Same(b, C, x) = 0
      /\ \A C : \A x : x # p => Same(a, C, x) = 0 /\ Same(b, C, x) = 0
      /\ Same(b, {"drop"}, p) = 1
    BY DEF Same
<1> HIDE DEF h, a, b
<1>8. /\ todo' \in Stacks /\ Backing' /\ Callback'
      /\ \A C : "swap" \notin C /\ "stop" \notin C /\ "drop" \notin C =>
            \A x : Number(todo', C, x) = Number(todo, C, x)
      /\ \A x : Number(todo', {"swap"}, x) = Number(todo, {"swap"}, x) - (IF x = y THEN 1 ELSE 0)
      /\ \A x \in Timers :
            Number(todo', {"drop"}, x) = Number(todo, {"drop"}, x) + (IF x = p THEN 1 ELSE 0)
    <2>1. CASE p = None
        <3>1. Object!Then(t, <<>>)
            BY <2>1 DEF Object!SetNewTimer, None
        <3>2. /\ todo' \in Stacks /\ Backing' /\ Callback'
              /\ \A C, x : Number(todo', C, x) = Number(todo, C, x) - Same(h, C, x)
            BY <1>2, <1>3, <3>1, Step0 DEF ObjectInv
        <3>3. ASSUME NEW C, "swap" \notin C, NEW x
              PROVE  Number(todo', C, x) = Number(todo, C, x)
            <4>1. Same(h, C, x) = 0
                BY <1>5, <3>3
            <4> QED
                BY <1>4, <3>2, <4>1
        <3>4. ASSUME NEW x
              PROVE  Number(todo', {"swap"}, x)
                     = Number(todo, {"swap"}, x) - (IF x = y THEN 1 ELSE 0)
            <4>1. Same(h, {"swap"}, x) = (IF x = y THEN 1 ELSE 0)
                BY <1>5
            <4> QED
                BY <3>2, <4>1
        <3>5. ASSUME NEW x \in Timers
              PROVE  Number(todo', {"drop"}, x)
                     = Number(todo, {"drop"}, x) + (IF x = p THEN 1 ELSE 0)
            <4>1. x # p
                BY <2>1, Numbers
            <4>2. Number(todo', {"drop"}, x) = Number(todo, {"drop"}, x)
                BY <3>3
            <4> QED
                BY <1>4, <4>1, <4>2
        <3> QED
            BY <3>2, <3>3, <3>4, <3>5
    <2>2. CASE p # None
        <3>1. Object!Then(t, <<a, b>>)
            BY <2>2 DEF Object!SetNewTimer, None, a, b
        <3>2. /\ todo' \in Stacks /\ Backing' /\ Callback'
              /\ \A C, x : Number(todo', C, x)
                           = Number(todo, C, x) - Same(h, C, x) + Same(b, C, x) + Same(a, C, x)
            BY <1>2, <1>3, <1>6, <2>2, <3>1, Step2 DEF ObjectInv
        <3>3. ASSUME NEW C, "swap" \notin C, "stop" \notin C, "drop" \notin C, NEW x
              PROVE  Number(todo', C, x) = Number(todo, C, x)
            <4>1. Same(h, C, x) = 0 /\ Same(a, C, x) = 0 /\ Same(b, C, x) = 0
                BY <1>5, <1>7, <3>3
            <4> QED
                BY <1>4, <3>2, <4>1
        <3>4. ASSUME NEW x
              PROVE  Number(todo', {"swap"}, x)
                     = Number(todo, {"swap"}, x) - (IF x = y THEN 1 ELSE 0)
            <4>1. /\ Same(h, {"swap"}, x) = (IF x = y THEN 1 ELSE 0)
                  /\ Same(a, {"swap"}, x) = 0 /\ Same(b, {"swap"}, x) = 0
                BY <1>5, <1>7
            <4> QED
                BY <1>4, <3>2, <4>1
        <3>5. ASSUME NEW x \in Timers
              PROVE  Number(todo', {"drop"}, x)
                     = Number(todo, {"drop"}, x) + (IF x = p THEN 1 ELSE 0)
            <4>1. /\ Same(b, {"drop"}, x) = (IF x = p THEN 1 ELSE 0)
                  /\ Same(a, {"drop"}, x) = 0 /\ Same(h, {"drop"}, x) = 0
                BY <1>5, <1>7
            <4> QED
                BY <1>4, <3>2, <4>1
        <3> QED
            BY <3>2, <3>3, <3>4, <3>5
    <2> QED
        BY <2>1, <2>2
<1>9. ASSUME NEW x \in Timers PROVE TimerRef(x)' /\ Timeout(x)'
    <2>1. /\ Number(todo', {"keep"}, x) = Number(todo, {"keep"}, x)
          /\ Number(todo', {"on_timer"}, x) = Number(todo, {"on_timer"}, x)
          /\ Number(todo', {"delete"}, x) = Number(todo, {"delete"}, x)
        BY <1>8
    <2>2. Armed(x)' = Armed(x) /\ Queued(x)' = Queued(x)
        BY <1>1 DEF Armed, Queued
    <2>3. Timeout(x)'
        BY <1>1, <2>1, <2>2, TimerNumbers DEF Timeout
    <2>4. PICK i \in {0, 1} : i = IF x = y THEN 1 ELSE 0
        OBVIOUS
    <2>5. PICK j \in {0, 1} : j = IF x = p THEN 1 ELSE 0
        OBVIOUS
    <2>6. Stored(x) = j /\ Stored(x)' = i
        BY <1>1, <2>4, <2>5 DEF Stored
    <2>7. PICK D \in Int, S \in Int :
              D = Number(todo, {"drop"}, x) /\ S = Number(todo, {"swap"}, x)
        BY <1>4
    <2>8. Number(todo', {"drop"}, x) = D + j /\ Number(todo', {"swap"}, x) = S - i
        BY <1>8, <2>4, <2>5, <2>7
    <2>9. PICK R \in Int : R = Armed(x) - Number(todo, {"keep"}, x)
        BY <1>4, TimerNumbers
    <2>10. tRef[x] = D + S + j + R
        BY <1>4, <2>6, <2>7, <2>9, TimerNumbers DEF TimerRef
    <2>11. tRef'[x] = (D + j) + (S - i) + i + R
        BY <1>1, <2>4, <2>5, <2>10
    <2>12. TimerRef(x)'
        BY <1>4, <2>1, <2>2, <2>6, <2>8, <2>9, <2>11, TimerNumbers DEF TimerRef
    <2> QED
        BY <2>3, <2>12
<1>10. TimerType'
    BY <1>1, <1>2, OldTimerType DEF TimerType
<1>11. nRef' \in Int /\ ObjectRefs'
    <2>1. Number(todo', Owners, None) = Number(todo, Owners, None)
        BY <1>8 DEF Owners
    <2>2. Referred' = Referred
        BY <1>1 DEF Referred
    <2> QED
        BY <1>1, <2>1, <2>2, RefsStay
<1>12. \A C \in NamedOfHandle : Number(todo', C, None) = Number(todo, C, None)
    BY <1>8 DEF NamedOfHandle
<1> QED
    BY <1>1, <1>8, <1>9, <1>10, <1>11, <1>12, TimerDone

LEMMA Step4 ==
    ASSUME ObjectType, Backing, Callback, NEW t \in Workers, todo[t] # <<>>,
           Head(todo[t])[1] # "executed", GoOn, NEW a, NEW b, NEW c, NEW d,
           Ordinary(a), Ordinary(b), Ordinary(c), Ordinary(d),
           Object!Then(t, <<a, b, c, d>>), Backed(d, Tail(todo[t])),
           Backed(c, Push(d, Tail(todo[t]))), Backed(b, Push(c, Push(d, Tail(todo[t])))),
           Backed(a, Push(b, Push(c, Push(d, Tail(todo[t])))))
    PROVE  /\ todo' \in Stacks /\ Backing' /\ Callback'
           /\ \A C, x : Number(todo', C, x)
                        = Number(todo, C, x) - Same(Head(todo[t]), C, x)
                          + Same(d, C, x) + Same(c, C, x) + Same(b, C, x) + Same(a, C, x)
<1>0. a \in Tasks /\ b \in Tasks /\ c \in Tasks /\ d \in Tasks
    BY DEF Ordinary
<1>1. /\ todo' \in Stacks
      /\ Becomes(todo, todo', t, Push(a, Push(b, Push(c, Push(d, Tail(todo[t]))))))
      /\ \A C, x : Number(todo', C, x)
                   = Number(todo, C, x) - Same(Head(todo[t]), C, x)
                     + Same(d, C, x) + Same(c, C, x) + Same(b, C, x) + Same(a, C, x)
    <2>1. Replaces(todo, todo', t, <<a, b, c, d>>) /\ todo \in Stacks
        BY DEF Replaces, Object!Then, ObjectType
    <2> QED
        BY <1>0, <2>1, Then4
<1> PICK r : r = Tail(todo[t])
    OBVIOUS
<1>2. r \in Stack /\ Supported(r) /\ Clear(r)
    BY NextTask
<1> PICK v \in Stack : v = Push(d, r)
    BY <1>0, <1>2, PushedStack
<1> PICK w \in Stack : w = Push(c, v)
    BY <1>0, PushedStack
<1> PICK y \in Stack : y = Push(b, w)
    BY <1>0, PushedStack
<1>3. Supported(v) /\ Clear(v) /\ \A x : Calls(v, x) => Calls(r, x)
    BY <1>2, OnTop
<1>4. Supported(w) /\ Clear(w) /\ \A x : Calls(w, x) => Calls(v, x)
    BY <1>3, OnTop
<1>5. Supported(y) /\ Clear(y) /\ \A x : Calls(y, x) => Calls(w, x)
    BY <1>4, OnTop
<1>6. Push(a, y) \in Stack /\ Supported(Push(a, y)) /\ \A x : Calls(Push(a, y), x) => Calls(y, x)
    BY <1>5, OnTop
<1> QED
    BY <1>1, <1>3, <1>4, <1>5, <1>6, StackStep

\* The new timer refers to the object.
LEMMA NewReference ==
    ASSUME ObjectInv, NEW x \in Timers, tRef[x] = 0, tRef'[x] > 0,
           \A y \in Timers : y # x => tRef'[y] = tRef[y],
           nRef' = nRef + 1, irps' = irps,
           Number(todo', Owners, None) = Number(todo, Owners, None)
    PROVE  nRef' \in Int /\ ObjectRefs'
<1>1. x \notin Referred /\ Referred' = Referred \cup {x}
    BY DEF Referred
<1>2. Cardinality(Referred') = Cardinality(Referred) + 1
    BY <1>1, ReferredFinite, FS_AddElement
<1> QED
    BY <1>2, Counts DEF ObjectRefs

\* The timer is not there yet.
LEMMA NoTimer ==
    ASSUME ObjectInv, NEW x \in Timers, queue[x] = "none", tRef[x] = 0
    PROVE  /\ timeouts[x] = 0 /\ ~isSet[x] /\ ~cbExecuted[x] /\ Armed(x) = 0 /\ Queued(x) = 0
           /\ Number(todo, {"on_timer"}, x) = 0 /\ Number(todo, {"delete"}, x) = 0
BY TimerNumbers DEF Timeout, Armed, Queued

LEMMA SetTimeoutInv ==
    ASSUME ObjectInv, NEW t \in Workers, Object!SetTimeout(t)
    PROVE  ObjectInv'
<1>1. /\ Object!At(t, "set_timeout") /\ HandleStays /\ nRef' = nRef + 1 /\ irps' = irps
      /\ UNCHANGED <<pTimer, cbExecuted, timeouts>>
    BY DEF Object!SetTimeout, HandleStays
<1> PICK y \in Timers :
        /\ queue[y] = "none" /\ tRef[y] = 0
        /\ \/ /\ tRef' = [tRef EXCEPT ![y] = 2]
              /\ isSet' = [isSet EXCEPT ![y] = TRUE] /\ queue' = [queue EXCEPT ![y] = "armed"]
              /\ Object!Then(t, << <<"keep", y>>, <<"swap", y>>, <<"is_set", y>>, <<"drop", y>> >>)
           \/ /\ tRef' = [tRef EXCEPT ![y] = 1]
              /\ Object!Then(t, << <<"drop", y>> >>)
              /\ UNCHANGED <<isSet, queue>>
    BY DEF Object!SetTimeout, Timers
<1> DEFINE h == <<"set_timeout", None>>
           a == <<"keep", y>>
           b == <<"swap", y>>
           c == <<"is_set", y>>
           d == <<"drop", y>>
<1>2. /\ queue[y] = "none" /\ tRef[y] = 0
      /\ \/ /\ tRef' = [tRef EXCEPT ![y] = 2]
            /\ isSet' = [isSet EXCEPT ![y] = TRUE] /\ queue' = [queue EXCEPT ![y] = "armed"]
            /\ Object!Then(t, <<a, b, c, d>>)
         \/ /\ tRef' = [tRef EXCEPT ![y] = 1]
            /\ Object!Then(t, <<d>>)
            /\ UNCHANGED <<isSet, queue>>
    OBVIOUS
<1>3. todo[t] # <<>> /\ Head(todo[t]) = h /\ h[1] # "executed" /\ Tail(todo[t]) \in Stack
    <2>1. todo[t] # <<>> /\ Head(todo[t]) = h
        BY <1>1, AtTask DEF ObjectInv, PlainNames
    <2> QED
        BY <2>1, NextTask DEF ObjectInv
<1>4. /\ TimerType /\ tRef \in [Timers -> Int] /\ isSet \in [Timers -> BOOLEAN]
      /\ queue \in [Timers -> {"none", "armed", "running", "returned", "deleted"}]
    BY OldTimerType DEF TimerType
<1>5. \A C, x : Number(todo, C, x) \in Nat
    BY Integral DEF ObjectInv, ObjectType
<1>6. /\ timeouts[y] = 0 /\ ~isSet[y] /\ ~cbExecuted[y] /\ Armed(y) = 0 /\ Queued(y) = 0
      /\ Number(todo, {"on_timer"}, y) = 0 /\ Number(todo, {"delete"}, y) = 0
    BY <1>2, NoTimer
<1>7. /\ \A C : "set_timeout" \notin C => Same(h, C, None) = 0
      /\ \A C : \A x \in Timers : Same(h, C, x) = 0
    BY ObjectTask DEF PlainNames
<1>8. /\ Same(a, {"keep"}, y) = 1 /\ \A e : e # "keep" => Same(a, {e}, y) = 0
      /\ \A C : \A x : x # y => Same(a, C, x) = 0
      /\ \A C : Same(a, C, None) = 0
    BY TimerTask, SMTT(20)
<1>9. /\ Same(b, {"swap"}, y) = 1 /\ \A e : e # "swap" => Same(b, {e}, y) = 0
      /\ \A C : \A x : x # y => Same(b, C, x) = 0
      /\ \A C : Same(b, C, None) = 0
    BY TimerTask, SMTT(20)
<1>10. /\ Same(c, {"is_set"}, y) = 1 /\ \A e : e # "is_set" => Same(c, {e}, y) = 0
       /\ \A C : \A x : x # y => Same(c, C, x) = 0
       /\ \A C : Same(c, C, None) = 0
    BY TimerTask, SMTT(20)
<1>11. /\ Same(d, {"drop"}, y) = 1 /\ \A e : e # "drop" => Same(d, {e}, y) = 0
       /\ \A C : \A x : x # y => Same(d, C, x) = 0
       /\ \A C : Same(d, C, None) = 0
    BY TimerTask, SMTT(20)
<1>12. Ordinary(a) /\ Ordinary(b) /\ Ordinary(c) /\ Ordinary(d) /\ Backed(d, Tail(todo[t]))
    BY DEF Ordinary, Tasks, Backed
<1> HIDE DEF h
<1>13. CASE /\ tRef' = [tRef EXCEPT ![y] = 2]
            /\ isSet' = [isSet EXCEPT ![y] = TRUE] /\ queue' = [queue EXCEPT ![y] = "armed"]
            /\ Object!Then(t, <<a, b, c, d>>)
    <2> PICK v \in Stack : v = Push(d, Tail(todo[t]))
        BY <1>3, <1>12, PushedStack DEF Ordinary
    <2> PICK w \in Stack : w = Push(c, v)
        BY <1>12, PushedStack DEF Ordinary
    <2> PICK u \in Stack : u = Push(b, w)
        BY <1>12, PushedStack DEF Ordinary
    <2>1. KeepsTimer(v, y) /\ Keeps(v)
        BY <1>3, <1>12, KeepsPush DEF Ordinary
    <2>2. KeepsTimer(w, y) /\ Keeps(w)
        BY <1>12, <2>1, KeepsPush DEF Ordinary
    <2>3. KeepsTimer(u, y) /\ u # <<>> /\ u[1] = b
        <3>1. b \in Tasks
            BY <1>12 DEF Ordinary
        <3>2. KeepsTimer(u, y)
            BY <2>2, <3>1, KeepsPush
        <3>3. u # <<>> /\ u[1] = b
            BY <3>1, PushedStack
        <3> QED
            BY <3>2, <3>3
    <2>4. Backed(c, v) /\ Backed(b, w) /\ Backed(a, u)
        BY <2>1, <2>2, <2>3 DEF Backed
    <2> HIDE DEF a, b, c, d
    <2>5. /\ tRef'[y] = 2 /\ isSet'[y] = TRUE /\ queue'[y] = "armed"
          /\ \A x \in Timers : x # y =>
                tRef'[x] = tRef[x] /\ isSet'[x] = isSet[x] /\ queue'[x] = queue[x]
        BY <1>4, <1>13
    <2>6. GoOn
        BY <1>1, <1>2, <2>5 DEF GoOn
    <2>7. /\ todo' \in Stacks /\ Backing' /\ Callback'
          /\ \A C, x : Number(todo', C, x)
                       = Number(todo, C, x) - Same(h, C, x)
                         + Same(d, C, x) + Same(c, C, x) + Same(b, C, x) + Same(a, C, x)
        BY <1>3, <1>12, <1>13, <2>4, <2>6, Step4 DEF ObjectInv
    <2>8. ASSUME NEW C, "set_timeout" \notin C
          PROVE  Number(todo', C, None) = Number(todo, C, None)
        <3>1. /\ Same(h, C, None) = 0 /\ Same(a, C, None) = 0 /\ Same(b, C, None) = 0
              /\ Same(c, C, None) = 0 /\ Same(d, C, None) = 0
            BY <1>7, <1>8, <1>9, <1>10, <1>11, <2>8
        <3> QED
            BY <1>5, <2>7, <3>1
    <2>9. ASSUME NEW C, NEW x \in Timers, x # y
          PROVE  Number(todo', C, x) = Number(todo, C, x)
        <3>1. /\ Same(h, C, x) = 0 /\ Same(a, C, x) = 0 /\ Same(b, C, x) = 0
              /\ Same(c, C, x) = 0 /\ Same(d, C, x) = 0
            BY <1>7, <1>8, <1>9, <1>10, <1>11, <2>9
        <3> QED
            BY <1>5, <2>7, <3>1
    <2>10. Number(todo', {"keep"}, y) = Number(todo, {"keep"}, y) + 1
        <3>1. /\ Same(h, {"keep"}, y) = 0 /\ Same(a, {"keep"}, y) = 1 /\ Same(b, {"keep"}, y) = 0
              /\ Same(c, {"keep"}, y) = 0 /\ Same(d, {"keep"}, y) = 0
            BY <1>7, <1>8, <1>9, <1>10, <1>11
        <3> QED
            BY <1>5, <2>7, <3>1
    <2>11. Number(todo', {"swap"}, y) = Number(todo, {"swap"}, y) + 1
        <3>1. /\ Same(h, {"swap"}, y) = 0 /\ Same(a, {"swap"}, y) = 0 /\ Same(b, {"swap"}, y) = 1
              /\ Same(c, {"swap"}, y) = 0 /\ Same(d, {"swap"}, y) = 0
            BY <1>7, <1>8, <1>9, <1>10, <1>11
        <3> QED
            BY <1>5, <2>7, <3>1
    <2>12. Number(todo', {"drop"}, y) = Number(todo, {"drop"}, y) + 1
        <3>1. /\ Same(h, {"drop"}, y) = 0 /\ Same(a, {"drop"}, y) = 0 /\ Same(b, {"drop"}, y) = 0
              /\ Same(c, {"drop"}, y) = 0 /\ Same(d, {"drop"}, y) = 1
            BY <1>7, <1>8, <1>9, <1>10, <1>11
        <3> QED
            BY <1>5, <2>7, <3>1
    <2>13. ASSUME NEW e \in {"on_timer", "delete"}
           PROVE  Number(todo', {e}, y) = Number(todo, {e}, y)
        <3>1. /\ Same(h, {e}, y) = 0 /\ Same(a, {e}, y) = 0 /\ Same(b, {e}, y) = 0
              /\ Same(c, {e}, y) = 0 /\ Same(d, {e}, y) = 0
            BY <1>7, <1>8, <1>9, <1>10, <1>11
        <3> QED
            BY <1>5, <2>7, <3>1
    <2>14. Stored(y)' = Stored(y) /\ Armed(y)' = 1 /\ Queued(y)' = 1
        BY <1>1, <2>5 DEF Stored, Armed, Queued
    <2>15. TimerRef(y)'
        <3>1. Stored(y) \in {0, 1} /\ TimerRef(y)
            BY TimerNumbers
        <3>2. PICK D \in Int, S \in Int :
                  D = Number(todo, {"drop"}, y) /\ S = Number(todo, {"swap"}, y)
            BY <1>5
        <3>3. PICK K \in Int, R \in Int : K = Number(todo, {"keep"}, y) /\ R = Stored(y)
            BY <1>5, <3>1
        <3>4. 0 = D + S - K + R + 0
            BY <1>2, <1>6, <3>1, <3>2, <3>3 DEF TimerRef
        <3>5. 2 = (D + 1) + (S + 1) - (K + 1) + R + 1
            BY <3>4
        <3>6. /\ Number(todo', {"drop"}, y) = D + 1 /\ Number(todo', {"swap"}, y) = S + 1
              /\ Number(todo', {"keep"}, y) = K + 1
            BY <2>10, <2>11, <2>12, <3>2, <3>3
        <3> QED
            BY <2>5, <2>14, <3>3, <3>5, <3>6 DEF TimerRef
    <2>16. Timeout(y)'
        <3>1. Number(todo', {"on_timer"}, y) = 0 /\ Number(todo', {"delete"}, y) = 0
            BY <1>6, <2>13
        <3> QED
            BY <1>1, <1>6, <2>5, <2>14, <3>1 DEF Timeout
    <2>17. TimerType'
        BY <1>1, <1>4, <1>13 DEF TimerType
    <2>18. Number(todo', Owners, None) = Number(todo, Owners, None)
        BY <2>8 DEF Owners
    <2>19. nRef' \in Int /\ ObjectRefs'
        BY <1>1, <1>2, <2>5, <2>18, NewReference
    <2>20. \A C \in NamedOfHandle : Number(todo', C, None) = Number(todo, C, None)
        BY <2>8 DEF NamedOfHandle
    <2>21. \A x \in Timers : x # y => Alike(x)
        BY <1>1, <2>5, <2>9 DEF Alike
    <2> QED
        BY <1>1, <2>7, <2>15, <2>16, <2>17, <2>19, <2>20, <2>21, OneTimer
<1>14. CASE /\ tRef' = [tRef EXCEPT ![y] = 1]
            /\ Object!Then(t, <<d>>)
            /\ UNCHANGED <<isSet, queue>>
    <2> HIDE DEF a, b, c, d
    <2>1. tRef'[y] = 1 /\ \A x \in Timers : x # y => tRef'[x] = tRef[x]
        BY <1>4, <1>14
    <2>2. GoOn
        BY <1>1, <1>14 DEF GoOn
    <2>3. /\ todo' \in Stacks /\ Backing' /\ Callback'
          /\ \A C, x : Number(todo', C, x) = Number(todo, C, x) - Same(h, C, x) + Same(d, C, x)
        BY <1>3, <1>12, <1>14, <2>2, Step1 DEF ObjectInv
    <2>4. ASSUME NEW C, "set_timeout" \notin C
          PROVE  Number(todo', C, None) = Number(todo, C, None)
        <3>1. Same(h, C, None) = 0 /\ Same(d, C, None) = 0
            BY <1>7, <1>11, <2>4
        <3> QED
            BY <1>5, <2>3, <3>1
    <2>5. ASSUME NEW C, NEW x \in Timers, x # y
          PROVE  Number(todo', C, x) = Number(todo, C, x)
        <3>1. Same(h, C, x) = 0 /\ Same(d, C, x) = 0
            BY <1>7, <1>11, <2>5
        <3> QED
            BY <1>5, <2>3, <3>1
    <2>6. Number(todo', {"drop"}, y) = Number(todo, {"drop"}, y) + 1
        <3>1. Same(h, {"drop"}, y) = 0 /\ Same(d, {"drop"}, y) = 1
            BY <1>7, <1>11
        <3> QED
            BY <1>5, <2>3, <3>1
    <2>7. ASSUME NEW e \in {"swap", "keep", "on_timer", "delete"}
          PROVE  Number(todo', {e}, y) = Number(todo, {e}, y)
        <3>1. Same(h, {e}, y) = 0 /\ Same(d, {e}, y) = 0
            BY <1>7, <1>11
        <3> QED
            BY <1>5, <2>3, <3>1
    <2>8. /\ Number(todo', {"swap"}, y) = Number(todo, {"swap"}, y)
          /\ Number(todo', {"keep"}, y) = Number(todo, {"keep"}, y)
          /\ Number(todo', {"on_timer"}, y) = 0 /\ Number(todo', {"delete"}, y) = 0
        BY <1>6, <2>7
    <2>9. Stored(y)' = Stored(y) /\ Armed(y)' = 0 /\ Queued(y)' = 0
        BY <1>1, <1>6, <1>14 DEF Stored, Armed, Queued
    <2>10. TimerRef(y)'
        <3>1. Stored(y) \in {0, 1} /\ TimerRef(y)
            BY TimerNumbers
        <3>2. PICK D \in Int : D = Number(todo, {"drop"}, y)
            BY <1>5
        <3>3. PICK R \in Int : R = Number(todo, {"swap"}, y) - Number(todo, {"keep"}, y) + Stored(y)
            BY <1>5, <3>1
        <3>4. 0 = D + R
            BY <1>2, <1>5, <1>6, <3>1, <3>2, <3>3 DEF TimerRef
        <3>5. 1 = (D + 1) + R
            BY <3>4
        <3> QED
            BY <1>5, <2>1, <2>6, <2>8, <2>9, <3>1, <3>2, <3>3, <3>5 DEF TimerRef
    <2>11. Timeout(y)'
        BY <1>1, <1>2, <1>6, <1>14, <2>8, <2>9 DEF Timeout
    <2>12. TimerType'
        BY <1>1, <1>4, <1>14 DEF TimerType
    <2>13. Number(todo', Owners, None) = Number(todo, Owners, None)
        BY <2>4 DEF Owners
    <2>14. nRef' \in Int /\ ObjectRefs'
        BY <1>1, <1>2, <2>1, <2>13, NewReference
    <2>15. \A C \in NamedOfHandle : Number(todo', C, None) = Number(todo, C, None)
        BY <2>4 DEF NamedOfHandle
    <2>16. \A x \in Timers : x # y => Alike(x)
        BY <1>1, <1>14, <2>1, <2>5 DEF Alike
    <2> QED
        BY <1>1, <2>3, <2>10, <2>11, <2>12, <2>14, <2>15, <2>16, OneTimer
<1> QED
    BY <1>2, <1>13, <1>14

\* The callback's stack, from the bottom.
CallbackOf(y) ==
    << <<"executed", y>>, <<"stop", y>>, <<"on_timer", y>>, <<"drop", y>>, <<"returned", y>> >>
More(y, C, x) ==
    Same(<<"returned", y>>, C, x) + Same(<<"drop", y>>, C, x) + Same(<<"on_timer", y>>, C, x)
    + Same(<<"stop", y>>, C, x) + Same(<<"executed", y>>, C, x)

LEMMA MoreIs ==
    ASSUME NEW y \in Timers
    PROVE  /\ \A C : More(y, C, None) = 0
           /\ \A C : \A x : x # y => More(y, C, x) = 0
           /\ More(y, {"on_timer"}, y) = 1 /\ More(y, {"drop"}, y) = 1
           /\ More(y, {"swap"}, y) = 0 /\ More(y, {"keep"}, y) = 0 /\ More(y, {"delete"}, y) = 0
BY Numbers DEF More, Same

LEMMA CallbackStack ==
    ASSUME NEW y \in Timers
    PROVE  /\ CallbackOf(y) \in Stack /\ Supported(CallbackOf(y))
           /\ CallbackOf(y)[1] = <<"executed", y>>
           /\ \A x : Calls(CallbackOf(y), x) => x = y
           /\ \A f \in Stacks : \A t \in Workers : f[t] = <<>> =>
                 \A C, x : Number(With(f, t, CallbackOf(y)), C, x) = Number(f, C, x) + More(y, C, x)
<1> DEFINE a == <<"executed", y>>
           b == <<"stop", y>>
           c == <<"on_timer", y>>
           d == <<"drop", y>>
           e == <<"returned", y>>
<1>1. a \in Tasks /\ b \in Tasks /\ c \in Tasks /\ d \in Tasks /\ e \in Tasks
    BY DEF Tasks
<1>2. /\ a[1] = "executed" /\ a[2] = y /\ b[1] = "stop" /\ b[2] = y /\ c[1] = "on_timer" /\ c[2] = y
      /\ d[1] = "drop" /\ d[2] = y /\ e[1] = "returned" /\ e[2] = y
    OBVIOUS
<1>3. CallbackOf(y) = Push(a, Push(b, Push(c, Push(d, Push(e, <<>>)))))
    <2> HIDE DEF a, b, c, d, e
    <2>1. <<a, b, c, d, e>> = Push(a, Push(b, Push(c, Push(d, Push(e, <<>>)))))
        BY <1>1, FiveTasks
    <2>2. CallbackOf(y) = <<a, b, c, d, e>>
        BY DEF CallbackOf, a, b, c, d, e
    <2> QED
        BY <2>1, <2>2
<1> PICK o \in Stack : o = <<>>
    <2>1. <<>> \in Seq(Tasks)
        OBVIOUS
    <2> QED
        BY <2>1 DEF Stack
<1> PICK p \in Stack : p = Push(e, o)
    BY <1>1, PushedStack
<1> PICK q \in Stack : q = Push(d, p)
    BY <1>1, PushedStack
<1> PICK r \in Stack : r = Push(c, q)
    BY <1>1, PushedStack
<1> PICK s \in Stack : s = Push(b, r)
    BY <1>1, PushedStack
<1> PICK v \in Stack : v = Push(a, s)
    BY <1>1, PushedStack
<1>4. p # <<>> /\ q # <<>> /\ r # <<>> /\ s # <<>> /\ v[1] = a
    <2> HIDE DEF a, b, c, d, e
    <2>1. p # <<>> /\ q # <<>>
        BY <1>1, PushedStack
    <2>2. r # <<>> /\ s # <<>>
        BY <1>1, PushedStack
    <2>3. v[1] = a
        BY <1>1, PushedStack
    <2> QED
        BY <2>1, <2>2, <2>3
<1>5. /\ \A x : Calls(p, x) <=> e = <<"returned", x>>
      /\ \A x : Calls(q, x) <=> Calls(p, x)
      /\ \A x : Calls(r, x) <=> Calls(q, x)
      /\ \A x : Calls(s, x) <=> Calls(r, x)
      /\ \A x : Calls(v, x) <=> Calls(s, x)
    BY <1>1, <1>4, CallsPush
<1>6. Calls(s, y) /\ \A x : Calls(v, x) => x = y
    <2>1. Calls(s, y)
        BY <1>5
    <2>2. \A x : e = <<"returned", x>> => x = y
        OBVIOUS
    <2>3. \A x : Calls(v, x) => x = y
        BY <1>5, <2>2
    <2> QED
        BY <2>1, <2>3
<1>7. KeepsTimer(q, y) /\ KeepsTimer(r, y) /\ KeepsTimer(s, y)
    <2>1. KeepsTimer(q, y)
        BY <1>1, KeepsPush
    <2>2. KeepsTimer(r, y)
        BY <1>1, <2>1, KeepsPush
    <2>3. KeepsTimer(s, y)
        BY <1>1, <2>2, KeepsPush
    <2> QED
        BY <2>1, <2>2, <2>3
<1>8. Supported(o) /\ Clear(o)
    BY DEF Supported, Clear
<1>9. Backed(e, o)
    BY DEF Backed
<1>10. Backed(d, p)
    BY DEF Backed
<1>11. Backed(c, q) /\ Backed(b, r)
    BY <1>7 DEF Backed
<1>12. Backed(a, s)
    BY <1>4, <1>6, <1>7 DEF Backed, Calls
<1> HIDE DEF a, b, c, d, e
<1>13. Supported(p) /\ Clear(p)
    BY <1>1, <1>2, <1>8, <1>9, SupportedPush
<1>14. Supported(q) /\ Clear(q)
    BY <1>1, <1>2, <1>10, <1>13, SupportedPush
<1>15. Supported(r) /\ Clear(r)
    BY <1>1, <1>2, <1>11, <1>14, SupportedPush
<1>16. Supported(s) /\ Clear(s)
    BY <1>1, <1>2, <1>11, <1>15, SupportedPush
<1>17. Supported(v)
    BY <1>1, <1>12, <1>16, SupportedPush
<1>18. ASSUME NEW f \in Stacks, NEW t \in Workers, f[t] = <<>>, NEW C, NEW x
       PROVE  Number(With(f, t, v), C, x)
              = Number(f, C, x) + Same(e, C, x) + Same(d, C, x) + Same(c, C, x)
                + Same(b, C, x) + Same(a, C, x)
    <2>1. With(f, t, o) = f
        BY <1>18, WithSame
    <2>2. Number(With(f, t, p), C, x) = Number(f, C, x) + Same(e, C, x)
        BY <1>1, <2>1, WithPush
    <2>3. Number(With(f, t, q), C, x) = Number(With(f, t, p), C, x) + Same(d, C, x)
        BY <1>1, WithPush
    <2>4. Number(With(f, t, r), C, x) = Number(With(f, t, q), C, x) + Same(c, C, x)
        BY <1>1, WithPush
    <2>5. Number(With(f, t, s), C, x) = Number(With(f, t, r), C, x) + Same(b, C, x)
        BY <1>1, WithPush
    <2>6. Number(With(f, t, v), C, x) = Number(With(f, t, s), C, x) + Same(a, C, x)
        BY <1>1, WithPush
    <2> QED
        BY <2>2, <2>3, <2>4, <2>5, <2>6
<1>19. v = CallbackOf(y)
    BY <1>3
<1>20. ASSUME NEW f \in Stacks, NEW t \in Workers, f[t] = <<>>, NEW C, NEW x
       PROVE  Number(With(f, t, v), C, x) = Number(f, C, x) + More(y, C, x)
    <2>1. /\ Same(e, C, x) \in {0, 1} /\ Same(d, C, x) \in {0, 1} /\ Same(c, C, x) \in {0, 1}
          /\ Same(b, C, x) \in {0, 1} /\ Same(a, C, x) \in {0, 1} /\ Number(f, C, x) \in Nat
        BY Integral
    <2>2. Number(With(f, t, v), C, x)
          = Number(f, C, x) + (Same(e, C, x) + Same(d, C, x) + Same(c, C, x)
                               + Same(b, C, x) + Same(a, C, x))
        BY <1>18, <1>20, <2>1
    <2> QED
        BY <2>2 DEF More, a, b, c, d, e
<1> QED
    BY <1>4, <1>6, <1>17, <1>19, <1>20 DEF a

LEMMA FireInv ==
    ASSUME ObjectInv, Object!Fire
    PROVE  ObjectInv'
<1>1. PICK y \in Timers :
          /\ queue[y] = "armed" /\ queue' = [queue EXCEPT ![y] = "running"]
          /\ todo' = With(todo, Clock, CallbackOf(y))
    BY DEF Object!Fire, Timers, With, CallbackOf
<1>2. /\ HandleStays /\ nRef' = nRef /\ irps' = irps /\ todo[Clock] = <<>> /\ Clock \in Workers
      /\ UNCHANGED <<tRef, isSet, cbExecuted, timeouts, pTimer>>
    BY DEF Object!Fire, Object!object, HandleStays, Workers, Object!Workers
<1>3. /\ TimerType /\ todo \in Stacks
      /\ queue \in [Timers -> {"none", "armed", "running", "returned", "deleted"}]
    BY OldTimerType DEF TimerType, ObjectInv, ObjectType
<1>4. queue[y] = "armed" /\ queue'[y] = "running" /\ \A x \in Timers : x # y => queue'[x] = queue[x]
    BY <1>1, <1>3
<1>5. PICK v \in Stack : v = CallbackOf(y)
    BY CallbackStack
<1>6. Supported(v) /\ v[1] = <<"executed", y>> /\ \A x : Calls(v, x) => x = y
    BY <1>5, CallbackStack
<1>7. todo' = With(todo, Clock, v)
    BY <1>1, <1>5
<1>8. todo' \in Stacks /\ Becomes(todo, todo', Clock, v)
    BY <1>2, <1>3, <1>7, WithStack
<1>9. \A C, x : Number(todo', C, x) = Number(todo, C, x) + More(y, C, x)
    BY <1>2, <1>3, <1>5, <1>7, CallbackStack
<1>10. Backing'
    BY <1>6, <1>8 DEF ObjectInv, Backing, Becomes
<1>11. Callback'
    <2>1. ASSUME NEW u \in Workers, NEW x \in Timers, Calls(todo'[u], x)
          PROVE  /\ u = Clock /\ queue'[x] = "running"
                 /\ cbExecuted'[x] \/ todo'[u][1] = <<"executed", x>>
        <3>1. u = Clock
            <4>1. SUFFICES ASSUME u # Clock PROVE FALSE
                OBVIOUS
            <4>2. todo'[u] = todo[u]
                BY <1>8, <4>1 DEF Becomes
            <4> QED
                BY <2>1, <4>1, <4>2 DEF ObjectInv, Callback
        <3>2. todo'[u] = v
            BY <1>8, <3>1 DEF Becomes
        <3>3. x = y
            BY <1>6, <2>1, <3>2
        <3> QED
            BY <1>4, <1>6, <3>1, <3>2, <3>3
    <2> QED
        BY <2>1 DEF Callback
<1>12. \A C, x : Number(todo, C, x) \in Nat
    BY <1>3, Integral
<1>13. /\ \A C : Number(todo', C, None) = Number(todo, C, None)
       /\ \A C : \A x : x # y => Number(todo', C, x) = Number(todo, C, x)
    BY <1>9, <1>12, MoreIs
<1>14. /\ Number(todo', {"on_timer"}, y) = Number(todo, {"on_timer"}, y) + 1
       /\ Number(todo', {"drop"}, y) = Number(todo, {"drop"}, y) + 1
    BY <1>9, MoreIs
<1>15. /\ Number(todo', {"swap"}, y) = Number(todo, {"swap"}, y)
       /\ Number(todo', {"keep"}, y) = Number(todo, {"keep"}, y)
       /\ Number(todo', {"delete"}, y) = Number(todo, {"delete"}, y)
    <2>1. /\ Number(todo', {"swap"}, y) = Number(todo, {"swap"}, y) + 0
          /\ Number(todo', {"keep"}, y) = Number(todo, {"keep"}, y) + 0
          /\ Number(todo', {"delete"}, y) = Number(todo, {"delete"}, y) + 0
        BY <1>9, MoreIs
    <2>2. /\ Number(todo, {"swap"}, y) \in Nat /\ Number(todo, {"keep"}, y) \in Nat
          /\ Number(todo, {"delete"}, y) \in Nat
        BY <1>12
    <2> QED
        BY <2>1, <2>2
<1>16. /\ Stored(y)' = Stored(y) /\ Armed(y) = 1 /\ Armed(y)' = 0 /\ Queued(y)' = Queued(y)
       /\ Referred' = Referred
    BY <1>2, <1>4 DEF Stored, Armed, Queued, Referred
\* The reference that the armed timer held is the callback's.
<1>17. TimerRef(y)'
    <2>1. Stored(y) \in {0, 1} /\ TimerRef(y)
        BY TimerNumbers
    <2>2. PICK D \in Int : D = Number(todo, {"drop"}, y)
        BY <1>12
    <2>3. PICK S \in Int, K \in Int, P \in Int :
              S = Number(todo, {"swap"}, y) /\ K = Number(todo, {"keep"}, y) /\ P = Stored(y)
        BY <1>12, <2>1
    <2>4. tRef[y] = D + S - K + P + 1
        BY <1>16, <2>1, <2>2, <2>3 DEF TimerRef
    <2>5. tRef'[y] = (D + 1) + S - K + P + 0
        BY <1>2, <2>4
    <2> QED
        BY <1>14, <1>15, <1>16, <2>2, <2>3, <2>5 DEF TimerRef
<1>18. Timeout(y)'
    <2>1. Armed(y)' + Number(todo', {"on_timer"}, y) + timeouts'[y] = 1
        BY <1>2, <1>4, <1>12, <1>14, <1>16, TimerNumbers DEF Timeout
    <2>2. Number(todo', {"delete"}, y) + Queued(y)' <= 1
        BY <1>15, <1>16, TimerNumbers DEF Timeout
    <2> QED
        BY <1>4, <2>1, <2>2 DEF Timeout
<1>19. TimerType'
    BY <1>1, <1>2, <1>3 DEF TimerType
<1>20. nRef' \in Int /\ ObjectRefs'
    BY <1>2, <1>13, <1>16, RefsStay
<1>21. \A x \in Timers : x # y => Alike(x)
    BY <1>2, <1>4, <1>13 DEF Alike
<1> QED
    BY <1>2, <1>8, <1>10, <1>11, <1>13, <1>17, <1>18, <1>19, <1>20, <1>21, OneTimer

LEMMA ExecutedInv ==
    ASSUME ObjectInv, NEW t \in Workers, Object!Executed(t)
    PROVE  ObjectInv'
<1>1. Object!At(t, "executed") /\ "executed" \in TimerNames
    BY DEF Object!Executed, TimerNames
<1>2. PICK y \in Timers : y = Object!Of(t)
    BY <1>1, TimerHead
<1> DEFINE h == <<"executed", y>>
<1>3. /\ cbExecuted' = [cbExecuted EXCEPT ![y] = TRUE] /\ Object!Then(t, <<>>)
      /\ HandleStays /\ nRef' = nRef /\ irps' = irps
      /\ UNCHANGED <<tRef, isSet, queue, timeouts, pTimer>>
    BY <1>2 DEF Object!Executed, Object!object, HandleStays
<1>4. PICK r \in Stack : r = Tail(todo[t])
    BY <1>1, TimerHead
<1>5. /\ todo[t] # <<>> /\ Head(todo[t]) = h /\ h \in Tasks /\ Backed(h, r) /\ Supported(r)
      /\ todo[t] = Push(h, r)
    BY <1>1, <1>2, <1>4, TimerHead
<1>6. r # <<>> /\ r[Len(r)] = <<"returned", y>>
    BY <1>5 DEF Backed
<1>7. Calls(todo[t], y) /\ \A x : Calls(r, x) => x = y
    <2>1. Calls(r, y)
        BY <1>6 DEF Calls
    <2>2. Calls(todo[t], y)
        BY <1>5, <1>6, <2>1, CallsPush
    <2> QED
        BY <1>6, <2>2 DEF Calls
<1>8. t = Clock /\ queue[y] = "running"
    BY <1>7 DEF ObjectInv, Callback
<1>9. TimerType /\ cbExecuted \in [Timers -> BOOLEAN] /\ todo \in Stacks
    BY OldTimerType DEF TimerType, ObjectInv, ObjectType
<1>10. cbExecuted'[y] = TRUE /\ \A x \in Timers : x # y => cbExecuted'[x] = cbExecuted[x]
    BY <1>3, <1>9
<1>11. /\ \A d \in NamedOfTimer : Same(h, {d}, y) = 0
       /\ \A C : \A x : x # y => Same(h, C, x) = 0
       /\ \A C : Same(h, C, None) = 0
    BY TimerTask DEF NamedOfTimer
<1> HIDE DEF h
<1>12. /\ todo' \in Stacks /\ Becomes(todo, todo', t, r)
       /\ \A C, x : Number(todo', C, x) = Number(todo, C, x) - Same(h, C, x)
    <2>1. Replaces(todo, todo', t, <<>>)
        BY <1>3 DEF Replaces, Object!Then
    <2>2. /\ todo' \in Stacks /\ Becomes(todo, todo', t, Tail(todo[t]))
          /\ \A C, x : Number(todo', C, x) = Number(todo, C, x) - Same(Head(todo[t]), C, x)
        <3>1. todo[t] # <<>>
            BY <1>5
        <3> QED
            BY <1>9, <2>1, <3>1, Then0
    <2>3. Head(todo[t]) = h /\ Tail(todo[t]) = r
        BY <1>4, <1>5
    <2> QED
        BY <2>2, <2>3
<1>13. Backing'
    BY <1>5, <1>12 DEF ObjectInv, Backing, Becomes
<1>14. Callback'
    <2>1. ASSUME NEW u \in Workers, NEW x \in Timers, Calls(todo'[u], x)
          PROVE  /\ u = Clock /\ queue'[x] = "running"
                 /\ cbExecuted'[x] \/ todo'[u][1] = <<"executed", x>>
        <3>1. u = t
            <4>1. SUFFICES ASSUME u # t PROVE FALSE
                OBVIOUS
            <4>2. todo'[u] = todo[u]
                BY <1>12, <4>1 DEF Becomes
            <4> QED
                BY <1>8, <2>1, <4>1, <4>2 DEF ObjectInv, Callback
        <3>2. todo'[u] = r
            BY <1>12, <3>1 DEF Becomes
        <3>3. x = y
            BY <1>7, <2>1, <3>2
        <3>4. queue'[x] = "running"
            BY <1>3, <1>8, <3>3
        <3> QED
            BY <1>8, <1>10, <3>1, <3>3, <3>4
    <2> QED
        BY <2>1 DEF Callback
<1>15. \A C, x : Number(todo, C, x) \in Nat
    BY <1>9, Integral
<1>16. /\ \A C : Number(todo', C, None) = Number(todo, C, None)
       /\ \A C : \A x : x # y => Number(todo', C, x) = Number(todo, C, x)
    BY <1>11, <1>12, <1>15
<1>17. \A d \in NamedOfTimer : Number(todo', {d}, y) = Number(todo, {d}, y)
    BY <1>11, <1>12, <1>15
<1>18. /\ Number(todo', {"drop"}, y) = Number(todo, {"drop"}, y)
       /\ Number(todo', {"swap"}, y) = Number(todo, {"swap"}, y)
       /\ Number(todo', {"keep"}, y) = Number(todo, {"keep"}, y)
       /\ Number(todo', {"on_timer"}, y) = Number(todo, {"on_timer"}, y)
       /\ Number(todo', {"delete"}, y) = Number(todo, {"delete"}, y)
    BY <1>17 DEF NamedOfTimer
<1>19. /\ Stored(y)' = Stored(y) /\ Armed(y)' = Armed(y) /\ Queued(y)' = Queued(y)
       /\ Referred' = Referred
    BY <1>3 DEF Stored, Armed, Queued, Referred
<1>20. TimerRef(y)'
    BY <1>3, <1>18, <1>19, TimerNumbers DEF TimerRef
<1>21. Timeout(y)'
    BY <1>3, <1>8, <1>10, <1>18, <1>19, TimerNumbers DEF Timeout
<1>22. TimerType'
    BY <1>3, <1>9, <1>10 DEF TimerType
<1>23. nRef' \in Int /\ ObjectRefs'
    BY <1>3, <1>16, <1>19, RefsStay
<1>24. \A x \in Timers : x # y => Alike(x)
    BY <1>3, <1>10, <1>16 DEF Alike
<1> QED
    BY <1>3, <1>12, <1>13, <1>14, <1>16, <1>20, <1>21, <1>22, <1>23, <1>24, OneTimer

LEMMA ReturnedInv ==
    ASSUME ObjectInv, NEW t \in Workers, Object!Returned(t)
    PROVE  ObjectInv'
<1>1. Object!At(t, "returned") /\ "returned" \in TimerNames
    BY DEF Object!Returned, TimerNames
<1>2. PICK y \in Timers : y = Object!Of(t)
    BY <1>1, TimerHead
<1> DEFINE h == <<"returned", y>>
<1>3. /\ queue' = [queue EXCEPT ![y] = "returned"] /\ Object!Then(t, <<>>)
      /\ HandleStays /\ nRef' = nRef /\ irps' = irps
      /\ UNCHANGED <<tRef, isSet, cbExecuted, timeouts, pTimer>>
    BY <1>2 DEF Object!Returned, Object!object, HandleStays
<1>4. PICK r \in Stack : r = Tail(todo[t])
    BY <1>1, TimerHead
<1>5. /\ todo[t] # <<>> /\ Head(todo[t]) = h /\ h \in Tasks /\ Backed(h, r) /\ Supported(r)
      /\ todo[t] = Push(h, r) /\ todo[t][1] = h
    BY <1>1, <1>2, <1>4, TimerHead
<1>6. r = <<>>
    BY <1>5 DEF Backed
<1>7. Calls(todo[t], y) /\ \A x : ~Calls(r, x)
    <2>1. Calls(todo[t], y)
        BY <1>5, <1>6, CallsPush
    <2> QED
        BY <1>6, <2>1 DEF Calls
<1>8. t = Clock /\ queue[y] = "running" /\ cbExecuted[y]
    <2>1. t = Clock /\ queue[y] = "running" /\ (cbExecuted[y] \/ todo[t][1] = <<"executed", y>>)
        BY <1>7 DEF ObjectInv, Callback
    <2> QED
        BY <1>5, <2>1
<1>9. /\ TimerType /\ todo \in Stacks
      /\ queue \in [Timers -> {"none", "armed", "running", "returned", "deleted"}]
    BY OldTimerType DEF TimerType, ObjectInv, ObjectType
<1>10. queue'[y] = "returned" /\ \A x \in Timers : x # y => queue'[x] = queue[x]
    BY <1>3, <1>9
<1>11. /\ \A d \in NamedOfTimer : Same(h, {d}, y) = 0
       /\ \A C : \A x : x # y => Same(h, C, x) = 0
       /\ \A C : Same(h, C, None) = 0
    BY TimerTask DEF NamedOfTimer
<1> HIDE DEF h
<1>12. /\ todo' \in Stacks /\ Becomes(todo, todo', t, r)
       /\ \A C, x : Number(todo', C, x) = Number(todo, C, x) - Same(h, C, x)
    <2>1. Replaces(todo, todo', t, <<>>)
        BY <1>3 DEF Replaces, Object!Then
    <2>2. /\ todo' \in Stacks /\ Becomes(todo, todo', t, Tail(todo[t]))
          /\ \A C, x : Number(todo', C, x) = Number(todo, C, x) - Same(Head(todo[t]), C, x)
        <3>1. todo[t] # <<>>
            BY <1>5
        <3> QED
            BY <1>9, <2>1, <3>1, Then0
    <2>3. Head(todo[t]) = h /\ Tail(todo[t]) = r
        BY <1>4, <1>5
    <2> QED
        BY <2>2, <2>3
<1>13. Backing'
    BY <1>5, <1>12 DEF ObjectInv, Backing, Becomes
\* No other thread runs timers.
<1>14. Callback'
    <2>1. ASSUME NEW u \in Workers, NEW x \in Timers, Calls(todo'[u], x) PROVE FALSE
        <3>1. CASE u = t
            BY <1>7, <1>12, <2>1, <3>1 DEF Becomes
        <3>2. CASE u # t
            <4>1. todo'[u] = todo[u]
                BY <1>12, <3>2 DEF Becomes
            <4> QED
                BY <1>8, <2>1, <3>2, <4>1 DEF ObjectInv, Callback
        <3> QED
            BY <3>1, <3>2
    <2> QED
        BY <2>1 DEF Callback
<1>15. \A C, x : Number(todo, C, x) \in Nat
    BY <1>9, Integral
<1>16. /\ \A C : Number(todo', C, None) = Number(todo, C, None)
       /\ \A C : \A x : x # y => Number(todo', C, x) = Number(todo, C, x)
    BY <1>11, <1>12, <1>15
<1>17. \A d \in NamedOfTimer : Number(todo', {d}, y) = Number(todo, {d}, y)
    BY <1>11, <1>12, <1>15
<1>18. /\ Number(todo', {"drop"}, y) = Number(todo, {"drop"}, y)
       /\ Number(todo', {"swap"}, y) = Number(todo, {"swap"}, y)
       /\ Number(todo', {"keep"}, y) = Number(todo, {"keep"}, y)
       /\ Number(todo', {"on_timer"}, y) = Number(todo, {"on_timer"}, y)
       /\ Number(todo', {"delete"}, y) = Number(todo, {"delete"}, y)
    BY <1>17 DEF NamedOfTimer
<1>19. /\ Stored(y)' = Stored(y) /\ Armed(y)' = Armed(y) /\ Queued(y)' = Queued(y)
       /\ Referred' = Referred
    BY <1>3, <1>8, <1>10 DEF Stored, Armed, Queued, Referred
<1>20. TimerRef(y)'
    BY <1>3, <1>18, <1>19, TimerNumbers DEF TimerRef
<1>21. Timeout(y)'
    BY <1>3, <1>8, <1>10, <1>18, <1>19, TimerNumbers DEF Timeout
<1>22. TimerType'
    BY <1>3, <1>9, <1>10 DEF TimerType
<1>23. nRef' \in Int /\ ObjectRefs'
    BY <1>3, <1>16, <1>19, RefsStay
<1>24. \A x \in Timers : x # y => Alike(x)
    BY <1>3, <1>10, <1>16 DEF Alike
<1> QED
    BY <1>3, <1>12, <1>13, <1>14, <1>16, <1>20, <1>21, <1>22, <1>23, <1>24, OneTimer

-----------------------------------------------------------------------------
\* All of them, and nothing else, change an object.
LEMMA ObjectStep ==
    ASSUME ObjectInv, Object!Next
    PROVE  ObjectInv'
<1>1. CASE Object!Fire
    BY <1>1, FireInv
<1>2. ASSUME NEW t \in Workers, Object!Step(t) PROVE ObjectInv'
    <2>1. CASE Object!Call(t)
        BY <2>1, CallInv
    <2>2. CASE Object!NewIrp(t)
        BY <2>2, NewIrpInv
    <2>3. CASE Object!LockHandle(t)
        BY <2>3, LockHandleInv
    <2>4. CASE Object!SystemCall(t)
        BY <2>4, SystemCallInv
    <2>5. CASE Object!CancelIo(t)
        BY <2>5, CancelIoInv
    <2>6. CASE Object!Release(t)
        BY <2>6, ReleaseInv
    <2>7. CASE Object!Close(t)
        BY <2>7, CloseInv
    <2>8. CASE Object!Rundown(t)
        BY <2>8, RundownInv
    <2>9. CASE Object!UnlockHandle(t)
        BY <2>9, UnlockHandleInv
    <2>10. CASE Object!CloseObjectHandle(t)
        BY <2>10, CloseObjectHandleInv
    <2>11. CASE Object!SetTimeout(t)
        BY <2>11, SetTimeoutInv
    <2>12. CASE Object!NoTimerLeft(t)
        BY <2>12, NoTimerLeftInv
    <2>13. CASE Object!Keep(t)
        BY <2>13, KeepInv
    <2>14. CASE Object!SetNewTimer(t)
        BY <2>14, SetNewTimerInv
    <2>15. CASE Object!IsSet(t)
        BY <2>15, IsSetInv
    <2>16. CASE Object!Stop(t)
        BY <2>16, StopTimerInv
    <2>17. CASE Object!DeleteTimer(t)
        BY <2>17, DeleteTimerInv
    <2>18. CASE Object!OnTimer(t)
        BY <2>18, OnTimerInv
    <2>19. CASE Object!Drop(t)
        BY <2>19, DropInv
    <2>20. CASE Object!Executed(t)
        BY <2>20, ExecutedInv
    <2>21. CASE Object!Returned(t)
        BY <2>21, ReturnedInv
    <2> QED
        BY <1>2, <2>1, <2>2, <2>3, <2>4, <2>5, <2>6, <2>7, <2>8, <2>9, <2>10, <2>11, <2>12,
           <2>13, <2>14, <2>15, <2>16, <2>17, <2>18, <2>19, <2>20, <2>21 DEF Object!Step
<1>3. ASSUME NEW w \in Workers, Object!OnIoComplete(w) PROVE ObjectInv'
    BY <1>3, OnIoCompleteInv
<1> QED
    BY <1>1, <1>2, <1>3 DEF Object!Next, Workers

LEMMA ObjectStays ==
    ASSUME ObjectInv, UNCHANGED Object!vars
    PROVE  ObjectInv'
<1>1. /\ UNCHANGED <<socket, nRef, up, held, hFile, irps, started, pTimer>>
      /\ UNCHANGED <<tRef, isSet, cbExecuted, queue, timeouts>> /\ UNCHANGED <<todo, calls>>
    BY DEF Object!vars, Object!object, Object!timer
<1>2. /\ \A C, x : Number(todo', C, x) = Number(todo, C, x)
      /\ Referred' = Referred
    BY <1>1 DEF Referred
<1>3. ObjectType' /\ Backing' /\ Callback'
    <2>1. ObjectType'
        BY <1>1 DEF ObjectInv, ObjectType
    <2>2. Backing'
        BY <1>1 DEF ObjectInv, Backing
    <2>3. Callback'
        BY <1>1 DEF ObjectInv, Callback
    <2> QED
        BY <2>1, <2>2, <2>3
<1>4. ObjectRefs'
    BY <1>1, <1>2 DEF ObjectInv, ObjectRefs
<1>5. HandleRefs' /\ Closing'
    BY <1>1, <1>2, HandleSame DEF ObjectInv
<1>6. TimerRefs' /\ Timeouts'
    BY <1>1, <1>2, TimersSame DEF ObjectInv
<1> QED
    BY <1>3, <1>4, <1>5, <1>6 DEF ObjectInv

\* Every object keeps its books: references, holders and operations are as many as
\* the requests, tasks and timers that need them.
THEOREM ObjectBooks == Object!Spec => []ObjectInv
<1>1. Object!Init => ObjectInv
    BY ObjectInit
<1>2. ObjectInv /\ [Object!Next]_(Object!vars) => ObjectInv'
    BY ObjectStep, ObjectStays
<1> QED
    BY <1>1, <1>2, PTL DEF Object!Spec

\* Whatever a thread does next, the object, the timer and the handle it does it to
\* are there, and the object goes with no request, timer or protection left.
THEOREM ObjectSafe == Object!Spec => []NothingUsedAfterFree
BY ObjectBooks, InvIsSafe, PTL

\* The callback of a timer and who stops it agree on one call of OnTimer: a timeout
\* is not lost, and does not come twice.
THEOREM TimeoutOnce == Object!Spec => []OneTimeout
BY ObjectBooks, InvIsOnce, PTL
=============================================================================
