------------------------------ MODULE RingBuffer ------------------------------
(***************************************************************************)
(* ZRingBuffer (asio/CiclicBuffer): bytes are written into a ring by one   *)
(* asynchronous write after another and read out of it by one asynchronous *)
(* read after another, with no lock.  Offset and size of the data are one  *)
(* 64-bit word; a completed operation changes it by compare and exchange   *)
(* and, by the sizes before and after, continues its own chain and starts  *)
(* the other one again if that had stopped.  The word may have changed     *)
(* when the next operation begins with what it was.                        *)
(*                                                                         *)
(* The operations belong to the class that is derived from it: a Begin     *)
(* fails, or it completes once, on any thread, with some of the bytes; 0   *)
(* ends the chain.  mem is what the bytes of the ring are: the number of   *)
(* the byte in the stream.                                                 *)
(***************************************************************************)
EXTENDS Integers, FiniteSets

CONSTANTS Threads,      \* threads that call Start, EndRead, EndWrite
          Size,         \* _Size
          MinRead,      \* GetMinReadBufferSize()
          MinWrite,     \* GetMinWriteBufferSize()
          MaxBytes      \* bound on the length of the stream

\* The __debugbreak of Start.
ASSUME SizeAssumption ==
    /\ Size \in Nat /\ MinRead \in Nat \ {0} /\ MinWrite \in Nat \ {0}
    /\ MinRead + MinWrite <= Size + 1
ASSUME ThreadsAssumption == IsFiniteSet(Threads)
ASSUME BoundAssumption == MaxBytes \in Nat

VARIABLES
    readOffset, dataSize,   \* the word _v
    ioCount,                \* _ioCount
    pc,                     \* per thread: where it is in Start, EndRead, EndWrite
    bytes,                  \* per thread: the argument of EndRead, EndWrite
    offset1, size1,         \* per thread: the word it has set
    reading, writing,       \* is an operation in flight
    readAt, readLen,        \* the part of the ring the read has
    writeAt, writeLen,      \* and the write
    over,                   \* the chains that have ended with 0 bytes
    asked,                  \* Stop was called
    stops,                  \* calls of OnIoStop
    mem, out                \* the bytes of the ring; how many have been read

word == <<readOffset, dataSize>>
locals == <<bytes, offset1, size1>>
read == <<reading, readAt, readLen>>
write == <<writing, writeAt, writeLen>>
vars == <<word, ioCount, pc, locals, read, write, over, asked, stops, mem, out>>

Cells == 0 .. Size - 1
CanRead(d) == d >= MinRead
CanWrite(d) == Size - d >= MinWrite

\* x % _Size, of a sum of an offset and at most _Size.
Wrap(x) == IF x < Size THEN x ELSE x - Size

\* How far c comes after a, around the ring; the cells BuildBuffers gives.
Dist(a, c) == IF c >= a THEN c - a ELSE c - a + Size
Part(a, len) == {c \in Cells : Dist(a, c) < len}

EndWritePcs == {"EndWrite", "w:ReadAsync", "w:WriteAsync"}
EndReadPcs == {"EndRead", "r:WriteAsync", "r:ReadAsync"}
Inside == {t \in Threads : pc[t] \in EndWritePcs \cup EndReadPcs \cup {"EndIo"}}

TypeOK ==
    /\ readOffset \in Cells /\ dataSize \in 0 .. Size /\ ioCount \in Nat
    /\ pc \in [Threads -> EndWritePcs \cup EndReadPcs \cup {"idle", "Start", "EndIo"}]
    /\ bytes \in [Threads -> 0 .. Size]
    /\ offset1 \in [Threads -> Cells] /\ size1 \in [Threads -> 0 .. Size]
    /\ reading \in BOOLEAN /\ readAt \in Cells /\ readLen \in 0 .. Size
    /\ writing \in BOOLEAN /\ writeAt \in Cells /\ writeLen \in 0 .. Size
    /\ over \subseteq {"read", "write"} /\ asked \in BOOLEAN /\ stops \in Nat
    /\ mem \in [Cells -> Nat] /\ out \in Nat

\* Start has set the word and the count, which the owner holds until Stop.
Init ==
    /\ readOffset = 0 /\ dataSize = 0 /\ ioCount = 1
    /\ \E s \in Threads : pc = [t \in Threads |-> IF t = s THEN "Start" ELSE "idle"]
    /\ bytes = [t \in Threads |-> 0]
    /\ offset1 = [t \in Threads |-> 0] /\ size1 = [t \in Threads |-> 0]
    /\ reading = FALSE /\ readAt = 0 /\ readLen = 0
    /\ writing = FALSE /\ writeAt = 0 /\ writeLen = 0
    /\ over = {} /\ asked = FALSE /\ stops = 0
    /\ mem = [c \in Cells |-> 0] /\ out = 0

Goto(t, l) == pc' = [pc EXCEPT ![t] = l]

-----------------------------------------------------------------------------
\* ReadAsync with the word t has set: the operation begins, or cannot (EndRead(0)
\* and its EndIo undo StartIo).
ReadAsync(t) ==
    \/ /\ CanRead(size1[t])
       /\ reading' = TRUE /\ readAt' = offset1[t] /\ readLen' = size1[t]
       /\ ioCount' = ioCount + 1
       /\ UNCHANGED over
    \/ CanRead(size1[t]) /\ over' = over \cup {"read"} /\ UNCHANGED <<read, ioCount>>
    \/ ~CanRead(size1[t]) /\ UNCHANGED <<read, ioCount, over>>

WriteAsync(t) ==
    \/ /\ CanWrite(size1[t])
       /\ writing' = TRUE
       /\ writeAt' = Wrap(offset1[t] + size1[t]) /\ writeLen' = Size - size1[t]
       /\ ioCount' = ioCount + 1
       /\ UNCHANGED over
    \/ CanWrite(size1[t]) /\ over' = over \cup {"write"} /\ UNCHANGED <<write, ioCount>>
    \/ ~CanWrite(size1[t]) /\ UNCHANGED <<write, ioCount, over>>

\* Start goes on.
Start(t) ==
    /\ pc[t] = "Start"
    /\ WriteAsync(t)
    /\ Goto(t, "idle")
    /\ UNCHANGED <<word, locals, read, asked, stops, mem, out>>

-----------------------------------------------------------------------------
\* The write in flight completes: EndWrite is called.
WriteCompletes(t) ==
    /\ pc[t] = "idle" /\ writing
    /\ \E n \in 0 .. writeLen :
         /\ out + dataSize + n <= MaxBytes
         /\ bytes' = [bytes EXCEPT ![t] = n]
    /\ writing' = FALSE
    /\ Goto(t, "EndWrite")
    /\ UNCHANGED <<word, ioCount, offset1, size1, read, writeAt, writeLen, over, asked, stops,
                   mem, out>>

\* EndWrite: no bytes, the chain is over; else the exchange, which finds whether
\* the reads have stopped.
EndWrite_NoStart(t) ==  \* mutant: the reads are started by what the size is now
    /\ pc[t] = "EndWrite"
    /\ IF bytes[t] = 0
       THEN /\ over' = over \cup {"write"} /\ Goto(t, "EndIo")
            /\ UNCHANGED <<dataSize, offset1, size1, mem>>
       ELSE /\ dataSize' = dataSize + bytes[t]
            /\ offset1' = [offset1 EXCEPT ![t] = readOffset]
            /\ size1' = [size1 EXCEPT ![t] = dataSize + bytes[t]]
            /\ mem' = [c \in Cells |->
                 IF c \in Part(Wrap(readOffset + dataSize), bytes[t])
                 THEN out + Dist(readOffset, c) ELSE mem[c]]
            /\ Goto(t, IF CanRead(dataSize + bytes[t]) THEN "w:WriteAsync" ELSE "w:ReadAsync")
            /\ UNCHANGED over
    /\ UNCHANGED <<readOffset, ioCount, bytes, read, write, asked, stops, out>>

EndWrite(t) ==
    /\ pc[t] = "EndWrite"
    /\ IF bytes[t] = 0
       THEN /\ over' = over \cup {"write"} /\ Goto(t, "EndIo")
            /\ UNCHANGED <<dataSize, offset1, size1, mem>>
       ELSE /\ dataSize' = dataSize + bytes[t]
            /\ offset1' = [offset1 EXCEPT ![t] = readOffset]
            /\ size1' = [size1 EXCEPT ![t] = dataSize + bytes[t]]
            /\ mem' = [c \in Cells |->
                 IF c \in Part(Wrap(readOffset + dataSize), bytes[t])
                 THEN out + Dist(readOffset, c) ELSE mem[c]]
            /\ Goto(t, IF CanRead(dataSize) THEN "w:WriteAsync" ELSE "w:ReadAsync")
            /\ UNCHANGED over
    /\ UNCHANGED <<readOffset, ioCount, bytes, read, write, asked, stops, out>>

EndWriteStarts(t) ==
    /\ pc[t] = "w:ReadAsync"
    /\ ReadAsync(t)
    /\ Goto(t, "w:WriteAsync")
    /\ UNCHANGED <<word, locals, write, asked, stops, mem, out>>

EndWriteGoesOn(t) ==
    /\ pc[t] = "w:WriteAsync"
    /\ WriteAsync(t)
    /\ Goto(t, "EndIo")
    /\ UNCHANGED <<word, locals, read, asked, stops, mem, out>>

-----------------------------------------------------------------------------
\* The read in flight completes: EndRead is called.
ReadCompletes(t) ==
    /\ pc[t] = "idle" /\ reading
    /\ \E n \in 0 .. readLen : bytes' = [bytes EXCEPT ![t] = n]
    /\ reading' = FALSE
    /\ Goto(t, "EndRead")
    /\ UNCHANGED <<word, ioCount, offset1, size1, readAt, readLen, write, over, asked, stops,
                   mem, out>>

EndRead_FreesFirst(t) ==    \* mutant: the offset is not part of the exchanged word
    /\ pc[t] = "EndRead"
    /\ IF bytes[t] = 0
       THEN /\ over' = over \cup {"read"} /\ Goto(t, "EndIo")
            /\ UNCHANGED <<word, offset1, size1, out>>
       ELSE /\ readOffset' = readOffset
            /\ dataSize' = dataSize - bytes[t] /\ out' = out + bytes[t]
            /\ offset1' = [offset1 EXCEPT ![t] = Wrap(readOffset + bytes[t])]
            /\ size1' = [size1 EXCEPT ![t] = dataSize - bytes[t]]
            /\ Goto(t, IF CanWrite(dataSize) THEN "r:ReadAsync" ELSE "r:WriteAsync")
            /\ UNCHANGED over
    /\ UNCHANGED <<ioCount, bytes, read, write, asked, stops, mem>>

EndRead(t) ==
    /\ pc[t] = "EndRead"
    /\ IF bytes[t] = 0
       THEN /\ over' = over \cup {"read"} /\ Goto(t, "EndIo")
            /\ UNCHANGED <<word, offset1, size1, out>>
       ELSE /\ readOffset' = Wrap(readOffset + bytes[t])
            /\ dataSize' = dataSize - bytes[t] /\ out' = out + bytes[t]
            /\ offset1' = [offset1 EXCEPT ![t] = Wrap(readOffset + bytes[t])]
            /\ size1' = [size1 EXCEPT ![t] = dataSize - bytes[t]]
            /\ Goto(t, IF CanWrite(dataSize) THEN "r:ReadAsync" ELSE "r:WriteAsync")
            /\ UNCHANGED over
    /\ UNCHANGED <<ioCount, bytes, read, write, asked, stops, mem>>

EndReadStarts(t) ==
    /\ pc[t] = "r:WriteAsync"
    /\ WriteAsync(t)
    /\ Goto(t, "r:ReadAsync")
    /\ UNCHANGED <<word, locals, read, asked, stops, mem, out>>

EndReadGoesOn(t) ==
    /\ pc[t] = "r:ReadAsync"
    /\ ReadAsync(t)
    /\ Goto(t, "EndIo")
    /\ UNCHANGED <<word, locals, write, asked, stops, mem, out>>

-----------------------------------------------------------------------------
\* EndIo: the last one calls OnIoStop.
Count_Early == stops' = stops + (IF ioCount = 2 THEN 1 ELSE 0) /\ ioCount' = ioCount - 1
Count == stops' = stops + (IF ioCount = 1 THEN 1 ELSE 0) /\ ioCount' = ioCount - 1

EndIo(t) ==
    /\ pc[t] = "EndIo"
    /\ Count
    /\ bytes' = [bytes EXCEPT ![t] = 0]
    /\ offset1' = [offset1 EXCEPT ![t] = 0] /\ size1' = [size1 EXCEPT ![t] = 0]
    /\ Goto(t, "idle")
    /\ UNCHANGED <<word, read, write, over, asked, mem, out>>

\* The owner calls Stop, once, after Start.
Stop ==
    /\ ~asked /\ \A t \in Threads : pc[t] # "Start"
    /\ asked' = TRUE
    /\ Count
    /\ UNCHANGED <<word, pc, locals, read, write, over, mem, out>>

Step(t) ==
    \/ Start(t) \/ EndWrite(t) \/ EndWriteStarts(t) \/ EndWriteGoesOn(t)
    \/ EndRead(t) \/ EndReadStarts(t) \/ EndReadGoesOn(t) \/ EndIo(t)

Next ==
    \/ \E t \in Threads : WriteCompletes(t) \/ ReadCompletes(t) \/ Step(t)
    \/ Stop

Spec == Init /\ [][Next]_vars

-----------------------------------------------------------------------------
\* The bytes come out in the order they went in: the part a read has holds the
\* next bytes of the stream, and the write in flight has no byte of it, although
\* both began with a word that may have changed.
BytesInOrder ==
    /\ reading => \A c \in Part(readAt, readLen) : mem[c] = out + Dist(readAt, c)
    /\ reading /\ writing => Part(readAt, readLen) \cap Part(writeAt, writeLen) = {}

\* Nobody waits for nobody: when no thread is in a call, bytes that can be read
\* are being read and room that can be written is being written, unless that
\* chain has ended; so the ring stands still only when one of them has ended.
AllIdle == \A t \in Threads : pc[t] = "idle"
NeverStalls ==
    AllIdle =>
        /\ CanRead(dataSize) => reading \/ "read" \in over
        /\ CanWrite(dataSize) => writing \/ "write" \in over
        /\ reading \/ writing \/ over # {}

\* OnIoStop is called once, after Stop, when nothing is in flight and no thread
\* is inside; and StartIo never finds the count at 0 (its __debugbreak).
StopsOnce ==
    /\ stops <= 1
    /\ stops = 1 => asked /\ ~reading /\ ~writing /\ AllIdle
    /\ Inside # {} \/ ~asked => ioCount > 0
=============================================================================
