-------------------------- MODULE ReassemblyProof --------------------------
(***************************************************************************)
(* Proofs about Reassembly for any number of messages, buffers, fragments  *)
(* and receiving threads, any width of the message number, and a network   *)
(* that loses, duplicates and reorders.                                    *)
(*                                                                         *)
(* The program does not record which fragments of a buffer have been       *)
(* copied AND counted: m_bits says that a thread claimed the place,        *)
(* m_cbNeed how many bytes are missing.  The inductive invariant supplies  *)
(* it: C[i] is that set for buffer i, bound by \E, so that it is a witness *)
(* chosen anew in every step and no variable of the model.                 *)
(*   Base     types; the packets are ones SendMsg makes; no two buffers    *)
(*            have one message number.  Unconditional.                     *)
(*   Safe(C)  C[i] is within the bits; its places hold bytes of messages   *)
(*            with the buffer's number; cbNeed is the length less C[i]; a  *)
(*            thread between the bit and the count owns one place outside  *)
(*            C[i]; and who is in OnUserData has a complete buffer to      *)
(*            itself.                                                      *)
(*   Counted(C) the balance: of every fragment, the copies that arrived    *)
(*            are at least the deliveries, the threads that still carry    *)
(*            one and the buffer that holds one, together.                 *)
(* Safe and Counted are claimed until get gives a buffer away under its    *)
(* user (stolen): the hole the properties of Reassembly name as well.      *)
(*                                                                         *)
(* A 16-bit number cannot tell a message from the one sent 65536 later.    *)
(* NumberKept needs no premise and speaks of numbers; MessageKept speaks   *)
(* of messages, as long as no two whose packets the receiver has at the    *)
(* same time have one number (NumbersDiffer); RaceIsIntact discharges that *)
(* premise where no more messages are sent than there are numbers.         *)
(***************************************************************************)
EXTENDS MCReassembly, SequenceTheorems, FiniteSetTheorems, WellFoundedInduction, TLAPS

-----------------------------------------------------------------------------
\* Numbers, sets and sequences.

\* Quotient and rest are unique.
LEMMA DivUnique ==
    ASSUME NEW m \in Nat \ {0}, NEW q \in Nat, NEW r \in 0 .. m - 1
    PROVE  (q * m + r) % m = r /\ (q * m + r) \div m = q
OBVIOUS

\* Every number has them.
LEMMA DivMod ==
    ASSUME NEW m \in Nat \ {0}, NEW c \in Nat
    PROVE  \E q \in Nat, r \in 0 .. m - 1 : c = q * m + r /\ r = c % m
<1>1. PICK q \in Nat : q = c \div m
  OBVIOUS
<1>2. q * m <= c /\ c < q * m + m /\ c % m = c - q * m
  BY <1>1
<1>3. PICK p \in Int : p = q * m
  OBVIOUS
<1>4. PICK r \in 0 .. m - 1 : r = c - p
  BY <1>2, <1>3
<1>5. c = q * m + r
  BY <1>3, <1>4
<1> QED
  BY <1>2, <1>3, <1>4, <1>5

\* Reducing before or after the increment is the same.
LEMMA ModSucc ==
    ASSUME NEW m \in Nat \ {0}, NEW c \in Nat
    PROVE  ((c % m) + 1) % m = (c + 1) % m
<1> PICK q \in Nat, r \in 0 .. m - 1 : c = q * m + r /\ r = c % m
    BY DivMod
<1>1. CASE r + 1 < m
    <2>1. r + 1 \in 0 .. m - 1 /\ 0 * m + (r + 1) = r + 1
      BY <1>1
    <2>2. c + 1 = q * m + (r + 1)
      OBVIOUS
    <2>3. (q * m + (r + 1)) % m = r + 1
      BY <2>1, DivUnique
    <2>4. (0 * m + (r + 1)) % m = r + 1
      BY <2>1, DivUnique
    <2> QED
      BY <2>1, <2>2, <2>3, <2>4
<1>2. CASE r + 1 = m
    <2>0. (q + 1) * m = q * m + m
      OBVIOUS
    <2>1. c + 1 = (q + 1) * m + 0 /\ 0 \in 0 .. m - 1 /\ q + 1 \in Nat
      BY <1>2, <2>0
    <2>2. ((q + 1) * m + 0) % m = 0
      BY <2>1, DivUnique
    <2>3. 1 * m + 0 = m
      OBVIOUS
    <2>4. (1 * m + 0) % m = 0
      BY DivUnique
    <2> QED
      BY <1>2, <2>1, <2>2, <2>3, <2>4
<1> QED
  BY <1>1, <1>2

\* The numbers 1 .. m have different rests.
LEMMA SmallNumbersDiffer ==
    ASSUME NEW m \in Nat \ {0}, NEW a \in 1 .. m, NEW b \in 1 .. m, a % m = b % m
    PROVE  a = b
OBVIOUS

\* The fragments of a length are those that begin inside it.
LEMMA RoundUp ==
    ASSUME NEW m \in Nat \ {0}, NEW n \in Nat, NEW len \in Nat
    PROVE  n < (len + m - 1) \div m <=> n * m < len
OBVIOUS

\* A byte is in fragment n when it lies in the n-th interval.
LEMMA ByteOf ==
    ASSUME NEW m \in Nat \ {0}, NEW n \in Nat, NEW b \in Nat
    PROVE  b \div m = n <=> n * m <= b /\ b < n * m + m
<1>1. PICK q \in Nat, r \in 0 .. m - 1 : b = q * m + r /\ r = b % m
  BY DivMod
<1>2. b \div m = q
  BY <1>1, DivUnique
<1>3. b - n * m \in 0 .. m - 1 => (n * m + (b - n * m)) \div m = n
  <2>1. SUFFICES ASSUME b - n * m \in 0 .. m - 1 PROVE (n * m + (b - n * m)) \div m = n
    OBVIOUS
  <2>2. PICK r2 \in 0 .. m - 1 : r2 = b - n * m
    BY <2>1
  <2>3. (n * m + r2) \div m = n
    BY DivUnique
  <2> QED
    BY <2>2, <2>3
<1>4. n * m \in Int
  OBVIOUS
<1>5. n * m + (b - n * m) = b
  BY <1>4
<1> QED
  BY <1>1, <1>2, <1>3, <1>4, <1>5

\* The smaller of two.
LEMMA MinOfTwo ==
    ASSUME NEW a \in Int, NEW b \in Int
    PROVE  Min({a, b}) = IF a <= b THEN a ELSE b
<1>1. \E x \in {a, b} : \A y \in {a, b} : x =< y
  OBVIOUS
<1>2. Min({a, b}) \in {a, b} /\ \A y \in {a, b} : Min({a, b}) =< y
  BY <1>1, Zenon DEF Min
<1> QED
  BY <1>2

\* A nonempty set of buffers has a first one, and Min finds it.
LEMMA MinIsMember ==
    ASSUME NEW N \in Nat, NEW S \in SUBSET (1 .. N), S # {}
    PROVE  Min(S) \in S
<1> DEFINE Below(k) == {x \in S : x <= k}
<1> DEFINE T == {X \in SUBSET S : \E k \in S : X = Below(k)}
<1>1. IsFiniteSet(S)
  <2>1. IsFiniteSet(1 .. N)
    BY FS_Interval
  <2> QED
    BY <2>1, FS_Subset
<1>2. IsWellFoundedOn(StrictSubsetOrdering(S), FiniteSubsetsOf(S))
  BY FS_StrictSubsetOrderingWellFounded
<1>3. T \subseteq FiniteSubsetsOf(S) /\ T # {}
  <2>1. PICK k \in S : TRUE
    OBVIOUS
  <2>2. Below(k) \in T
    BY <2>1
  <2>4. T \subseteq SUBSET S
    OBVIOUS
  <2>5. FiniteSubsetsOf(S) = SUBSET S
    BY <1>1, FS_FiniteSubsetsOfFinite
  <2> HIDE DEF T
  <2> QED
    BY <2>2, <2>4, <2>5
<1>4. PICK X \in T : \A Y \in T : <<Y, X>> \notin StrictSubsetOrdering(S)
  <2> HIDE DEF T
  <2> QED
    BY <1>2, <1>3, WFMin
<1>5. PICK k \in S : X = Below(k)
  BY <1>4
<1>6. ASSUME NEW y \in S PROVE k =< y
  <2>1. SUFFICES ASSUME y < k PROVE FALSE
    BY <1>6
  <2>0. \A x \in S : x \in Int
    OBVIOUS
  <2>a. Below(y) \in T
    <3>1. Below(y) \in SUBSET S
      OBVIOUS
    <3>2. \E j \in S : Below(y) = Below(j)
      BY <1>6
    <3> HIDE DEF Below
    <3> QED
      BY <3>1, <3>2
  <2>b. Below(y) \subseteq X
    <3>1. \A x \in S : x <= y => x <= k
      BY <1>5, <1>6, <2>0, <2>1
    <3> QED
      BY <1>5, <3>1
  <2>c. k \in X /\ k \notin Below(y)
    BY <1>5, <1>6, <2>0, <2>1
  <2>2. Below(y) \in T /\ Below(y) \subseteq X /\ k \in X /\ k \notin Below(y)
    BY <2>a, <2>b, <2>c
  <2>3. <<Below(y), X>> \in StrictSubsetOrdering(S)
    BY <2>2, <1>4 DEF StrictSubsetOrdering
  <2> QED
    BY <2>2, <2>3, <1>4
<1>7. \E x \in S : \A y \in S : x =< y
  BY <1>5, <1>6
<1> QED
  BY <1>7, Zenon DEF Min

\* Taking an element out of a sequence, or putting one in, leaves the others.
LEMMA RemoveAtType ==
    ASSUME NEW S, NEW s \in Seq(S), NEW i \in 1 .. Len(s)
    PROVE  RemoveAt(s, i) \in Seq(S)
<1>1. \A j \in 1 .. Len(s) : s[j] \in S
  BY ElementOfSeq
<1>2. Len(s) \in Nat
  BY LenProperties
<1>3. SubSeq(s, 1, i - 1) \in Seq(S)
  <2>1. \A j \in 1 .. i - 1 : s[j] \in S
    BY <1>1, <1>2
  <2>2. i - 1 \in Int /\ 1 \in Int
    BY <1>2
  <2> QED
    BY <2>1, <2>2, SubSeqProperties, Zenon
<1>4. SubSeq(s, i + 1, Len(s)) \in Seq(S)
  <2>1. \A j \in i + 1 .. Len(s) : s[j] \in S
    BY <1>1, <1>2
  <2>2. i + 1 \in Int /\ Len(s) \in Int
    BY <1>2
  <2> QED
    BY <2>1, <2>2, SubSeqProperties, Zenon
<1>5. SubSeq(s, 1, i - 1) \o SubSeq(s, i + 1, Len(s)) \in Seq(S)
  BY <1>3, <1>4, ConcatProperties, Zenon
<1> QED
  BY <1>5, Zenon DEF RemoveAt

LEMMA InsertAtType ==
    ASSUME NEW S, NEW s \in Seq(S), NEW i \in 1 .. Len(s), NEW e \in S
    PROVE  InsertAt(s, i, e) \in Seq(S)
<1>1. \A j \in 1 .. Len(s) : s[j] \in S
  BY ElementOfSeq
<1>2. Len(s) \in Nat
  BY LenProperties
<1>3. SubSeq(s, 1, i - 1) \in Seq(S)
  <2>1. \A j \in 1 .. i - 1 : s[j] \in S
    BY <1>1, <1>2
  <2>2. i - 1 \in Int /\ 1 \in Int
    BY <1>2
  <2> QED
    BY <2>1, <2>2, SubSeqProperties, Zenon
<1>4. SubSeq(s, i, Len(s)) \in Seq(S)
  <2>1. \A j \in i .. Len(s) : s[j] \in S
    BY <1>1, <1>2
  <2>2. i \in Int /\ Len(s) \in Int
    BY <1>2
  <2> QED
    BY <2>1, <2>2, SubSeqProperties, Zenon
<1>5. <<e>> \in Seq(S)
  OBVIOUS
<1>6. SubSeq(s, 1, i - 1) \o <<e>> \in Seq(S)
  BY <1>3, <1>5, ConcatProperties, Zenon
<1>7. SubSeq(s, 1, i - 1) \o <<e>> \o SubSeq(s, i, Len(s)) \in Seq(S)
  BY <1>4, <1>6, ConcatProperties, Zenon
<1> QED
  BY <1>7, Zenon DEF InsertAt

-----------------------------------------------------------------------------
\* Messages, their numbers and their fragments.

\* How many bytes of a message are in none of the fragments in S.
Left(len, S) == {b \in 0 .. len - 1 : b \div FragSize \notin S}
Missing(len, S) == Cardinality(Left(len, S))
Bytes(len, n) == {b \in 0 .. len - 1 : b \div FragSize = n}

LEMMA Sizes ==
    /\ FragSize \in Nat \ {0} /\ MaxFrags \in Nat \ {0} /\ NumSlots \in Nat \ {0}
    /\ MMod \in Nat \ {0} /\ TickMod \in Nat \ {0}
    /\ MsgLens \in Seq(Nat) /\ Header \in Nat /\ Len(MsgLens) \in Nat
    /\ \A k \in 1 .. Len(MsgLens) : MsgLens[k] \in Nat
<1>1. MsgLens \in Seq(Nat)
  BY MessagesAssumption
<1>2. Len(MsgLens) \in Nat /\ \A k \in 1 .. Len(MsgLens) : MsgLens[k] \in Nat
  BY <1>1
<1> QED
  BY <1>1, <1>2, MessagesAssumption, SizesAssumption

LEMMA Bounds ==
    /\ MaxLoss \in Nat /\ MaxDup \in Nat /\ MaxTime \in Nat
    /\ 0 .. MaxTime \subseteq 0 .. TickMod - 1
<1>1. MaxLoss \in Nat /\ MaxDup \in Nat /\ MaxTime \in Nat /\ MaxTime < TickMod
  BY BoundsAssumption
<1> QED
  BY <1>1, Sizes

LEMMA FragsAreThere ==
    ASSUME NEW len \in Nat
    PROVE  /\ Frags(len) \in Nat \ {0}
           /\ \A n \in Nat : n < Frags(len) <=> n * FragSize < len \/ (len = 0 /\ n = 0)
<1>1. CASE len = 0
  <2>1. \A n \in Nat : ~(n * FragSize < 0)
    BY Sizes
  <2> QED
    BY <1>1, <2>1 DEF Frags
<1>2. CASE len # 0
  <2>1. Frags(len) = (len + FragSize - 1) \div FragSize
    BY <1>2 DEF Frags
  <2>2. \A n \in Nat : n < Frags(len) <=> n * FragSize < len
    BY <2>1, RoundUp, Sizes
  <2>3. Frags(len) \in Int
    <3>1. len + FragSize - 1 \in Nat
      BY Sizes
    <3> QED
      BY <2>1, <3>1, Sizes
  <2>4. 0 < Frags(len)
    BY <1>2, <2>2, Sizes
  <2> QED
    BY <1>2, <2>2, <2>3, <2>4
<1> QED
  BY <1>1, <1>2

LEMMA FragLenIs ==
    ASSUME NEW len \in Nat, NEW n \in Nat, n < Frags(len)
    PROVE  /\ FragLen(len, n) \in 0 .. FragSize
           /\ FragLen(len, n) = IF len - n * FragSize <= FragSize
                                THEN len - n * FragSize ELSE FragSize
           /\ len > 0 => FragLen(len, n) > 0
           /\ n * FragSize \in Nat
           /\ len - n * FragSize \in Nat
<1>1. PICK p \in Nat : p = n * FragSize
  BY Sizes
<1>2. p < len \/ (len = 0 /\ n = 0)
  BY <1>1, FragsAreThere
<1>3. n = 0 => p = 0
  BY <1>1, Sizes
<1>4. len - p \in Nat /\ (len > 0 => len - p > 0)
  BY <1>2, <1>3
<1>5. FragLen(len, n) = IF len - p <= FragSize THEN len - p ELSE FragSize
  BY <1>1, <1>4, Sizes, MinOfTwo DEF FragLen
<1> QED
  BY <1>1, <1>4, <1>5, Sizes

\* A message that is not refused has at most as many fragments as m_bits has bits.
LEMMA ShortEnough ==
    ASSUME NEW k \in Msgs, NEW n \in Nat, n < Frags(MsgLens[k])
    PROVE  n \in FragNo
<1> DEFINE len == MsgLens[k]
<1>1. len \in Nat /\ ~(MaxFrags * FragSize < Header + len)
  BY Sizes DEF Msgs, TooLong
<1>2. n * FragSize < len \/ (len = 0 /\ n = 0)
  BY <1>1, FragsAreThere
<1> HIDE DEF len
<1>3. PICK p \in Nat, q \in Nat : p = n * FragSize /\ q = MaxFrags * FragSize
  BY Sizes
<1>4. p < q \/ n = 0
  <2>1. ~(q < Header + len) /\ (p < len \/ n = 0)
    BY <1>1, <1>2, <1>3
  <2>2. len \in Nat /\ Header \in Nat
    BY <1>1, Sizes
  <2> QED
    BY <2>1, <2>2
<1>5. n < MaxFrags
  <2>1. n >= MaxFrags => n * FragSize >= MaxFrags * FragSize
    BY Sizes
  <2> QED
    BY <1>3, <1>4, <2>1, Sizes
<1> QED
  BY <1>5, Sizes DEF FragNo

LEMMA NumberType ==
    ASSUME NEW k \in Nat
    PROVE  /\ IsFiniteSet(Accepted(k)) /\ Cardinality(Accepted(k)) \in Nat
           /\ Number(k) \in 0 .. MMod - 1
<1>1. IsFiniteSet(1 .. k)
  BY FS_Interval
<1>2. Accepted(k) \in SUBSET (1 .. k)
  BY DEF Accepted
<1>3. IsFiniteSet(Accepted(k)) /\ Cardinality(Accepted(k)) \in Nat
  BY <1>1, <1>2, FS_Subset, FS_CardinalityType
<1>4. \A c \in Nat : c % MMod \in 0 .. MMod - 1
  BY Sizes
<1> QED
  BY <1>3, <1>4 DEF Number

LEMMA AcceptedNext ==
    ASSUME NEW k \in Nat
    PROVE  /\ TooLong(MsgLens[k + 1]) => Accepted(k + 1) = Accepted(k)
           /\ ~TooLong(MsgLens[k + 1]) =>
                /\ Accepted(k + 1) = Accepted(k) \cup {k + 1}
                /\ Cardinality(Accepted(k + 1)) = Cardinality(Accepted(k)) + 1
<1>1. 1 .. k + 1 = (1 .. k) \cup {k + 1} /\ k + 1 \notin 1 .. k
  OBVIOUS
<1>2. TooLong(MsgLens[k + 1]) => Accepted(k + 1) = Accepted(k)
  BY <1>1 DEF Accepted
<1>3. ~TooLong(MsgLens[k + 1]) => Accepted(k + 1) = Accepted(k) \cup {k + 1}
  BY <1>1 DEF Accepted
<1>4. k + 1 \notin Accepted(k)
  BY DEF Accepted
<1>5. Cardinality(Accepted(k) \cup {k + 1}) = Cardinality(Accepted(k)) + 1
  BY <1>4, NumberType, FS_AddElement
<1> QED
  BY <1>2, <1>3, <1>5

\* SendUserData's counter is the number of the message it sends.
LEMMA NumberNext ==
    ASSUME NEW k \in Nat
    PROVE  /\ TooLong(MsgLens[k + 1]) => Number(k + 1) = Number(k)
           /\ ~TooLong(MsgLens[k + 1]) => Number(k + 1) = NextM(Number(k))
<1>1. TooLong(MsgLens[k + 1]) => Number(k + 1) = Number(k)
  BY AcceptedNext DEF Number
<1>2. PICK c \in Nat : c = Cardinality(Accepted(k))
  BY NumberType
<1>3. (c + 1) % MMod = NextM(c % MMod)
  BY ModSucc, Sizes DEF NextM
<1>4. ~TooLong(MsgLens[k + 1]) => Number(k + 1) = NextM(Number(k))
  BY <1>2, <1>3, AcceptedNext DEF Number
<1> QED
  BY <1>1, <1>4

\* The first MMod messages have different numbers.
LEMMA NumbersDifferAtFirst ==
    ASSUME Len(MsgLens) <= MMod, NEW j \in Msgs, NEW k \in Msgs, Number(j) = Number(k)
    PROVE  j = k
<1> DEFINE Count(i) == Cardinality(Accepted(i))
<1>1. \A i \in Msgs : i \in 1 .. Len(MsgLens) /\ i \in Nat /\ i \in Accepted(i)
  BY Sizes DEF Msgs, Accepted
<1>2. ASSUME NEW i \in Msgs PROVE Count(i) \in 1 .. MMod
  <2>1. Accepted(i) \in SUBSET (1 .. Len(MsgLens))
    BY <1>1 DEF Accepted
  <2>2. IsFiniteSet(1 .. Len(MsgLens)) /\ Cardinality(1 .. Len(MsgLens)) = Len(MsgLens)
    <3>1. PICK l \in Nat : l = Len(MsgLens)
      BY Sizes
    <3>2. IsFiniteSet(1 .. l) /\ Cardinality(1 .. l) = l
      BY FS_Interval
    <3> QED
      BY <3>1, <3>2
  <2>3. Count(i) <= Len(MsgLens)
    <3>1. Cardinality(Accepted(i)) <= Cardinality(1 .. Len(MsgLens))
      BY <2>1, <2>2, FS_Subset, Zenon
    <3> QED
      BY <2>2, <3>1
  <2>4. Count(i) \in Nat /\ Count(i) # 0
    BY <1>1, NumberType, FS_EmptySet
  <2> QED
    BY <2>3, <2>4, Sizes
<1>3. ASSUME NEW a \in Msgs, NEW b \in Msgs, a < b PROVE Count(a) # Count(b)
  <2>1. Accepted(a) \in SUBSET Accepted(b)
    BY <1>1, <1>3 DEF Accepted
  <2>2. b \in Accepted(b) /\ b \notin Accepted(a)
    BY <1>1, <1>3 DEF Accepted
  <2>3. IsFiniteSet(Accepted(b))
    BY <1>1, NumberType
  <2> QED
    BY <2>1, <2>2, <2>3, FS_Subset
<1>4. Count(j) % MMod = Count(k) % MMod
  BY DEF Number
<1>5. Count(j) = Count(k)
  <2> HIDE DEF Count
  <2> QED
    BY <1>2, <1>4, SmallNumbersDiffer, Sizes
<1> QED
  BY <1>1, <1>3, <1>5

-----------------------------------------------------------------------------
\* The count of missing bytes.

LEMMA LeftFinite ==
    ASSUME NEW len \in Nat, NEW S
    PROVE  IsFiniteSet(Left(len, S)) /\ Missing(len, S) \in Nat
<1>1. IsFiniteSet(0 .. len - 1)
  BY FS_Interval
<1>2. Left(len, S) \in SUBSET (0 .. len - 1)
  BY DEF Left
<1> QED
  BY <1>1, <1>2, FS_Subset, FS_CardinalityType DEF Missing

LEMMA MissingAtFirst ==
    ASSUME NEW len \in Nat
    PROVE  Missing(len, {}) = len
<1>1. Left(len, {}) = 0 .. len - 1
  BY DEF Left
<1>2. Cardinality(0 .. len - 1) = len
  BY FS_Interval
<1> QED
  BY <1>1, <1>2 DEF Missing

LEMMA BytesOfFragment ==
    ASSUME NEW len \in Nat, NEW n \in Nat, n < Frags(len)
    PROVE  /\ IsFiniteSet(Bytes(len, n)) /\ Cardinality(Bytes(len, n)) = FragLen(len, n)
           /\ len > 0 => n * FragSize \in Bytes(len, n)
<1>1. PICK p \in Nat : p = n * FragSize
  BY Sizes
<1>2. PICK f \in Nat : f = FragLen(len, n)
  BY FragLenIs
<1>3. /\ f = IF len - p <= FragSize THEN len - p ELSE FragSize
      /\ len - p \in Nat /\ (len > 0 => f > 0)
  BY <1>1, <1>2, FragLenIs
<1>4. \A b \in Nat : b \div FragSize = n <=> p <= b /\ b < p + FragSize
  BY <1>1, ByteOf, Sizes
<1>5. \A b : b \in Bytes(len, n) <=> b \in p .. p + f - 1
  <2>1. \A b : b \in Bytes(len, n) <=> b \in Nat /\ b < len /\ p <= b /\ b < p + FragSize
    BY <1>4 DEF Bytes
  <2>2. PICK F \in Nat : F = FragSize
    BY Sizes
  <2>3. /\ p + f <= len /\ p + f <= p + F
        /\ p + f = len \/ p + f = p + F
    BY <1>3, <2>2
  <2>4. \A b \in Nat : b < len /\ b < p + F <=> b < p + f
    BY <2>3
  <2>5. \A b : b \in p .. p + f - 1 <=> b \in Nat /\ p <= b /\ b < p + f
    OBVIOUS
  <2>6. \A b : b \in Bytes(len, n) <=> b \in Nat /\ p <= b /\ b < len /\ b < p + F
    BY <2>1, <2>2, Zenon
  <2>7. \A b : b \in Bytes(len, n) <=> b \in Nat /\ p <= b /\ b < p + f
    BY <2>4, <2>6
  <2> QED
    BY <2>5, <2>7
<1>6. Bytes(len, n) = p .. p + f - 1
  BY <1>5
<1>7. IsFiniteSet(p .. p + f - 1) /\ Cardinality(p .. p + f - 1) = f
  BY FS_Interval
<1> QED
  BY <1>1, <1>2, <1>3, <1>6, <1>7

\* One more fragment, so many bytes less.
LEMMA MissingLess ==
    ASSUME NEW len \in Nat, NEW n \in Nat, n < Frags(len), NEW S, n \notin S
    PROVE  /\ Missing(len, S \cup {n}) = Missing(len, S) - FragLen(len, n)
           /\ Bytes(len, n) \subseteq Left(len, S)
<1>1. /\ Left(len, S) = Left(len, S \cup {n}) \cup Bytes(len, n)
      /\ Left(len, S \cup {n}) \cap Bytes(len, n) = {}
      /\ Bytes(len, n) \subseteq Left(len, S)
  BY DEF Left, Bytes
<1>2. IsFiniteSet(Left(len, S \cup {n})) /\ IsFiniteSet(Bytes(len, n))
  BY LeftFinite, BytesOfFragment
<1>3. Cardinality(Left(len, S)) =
         Cardinality(Left(len, S \cup {n})) + Cardinality(Bytes(len, n)) - Cardinality({})
  BY <1>1, <1>2, FS_Union
<1>4. Cardinality({}) = 0
  BY FS_EmptySet
<1>5. Missing(len, S) \in Nat /\ Missing(len, S \cup {n}) \in Nat
  BY LeftFinite
<1>6. FragLen(len, n) \in Nat
  BY FragLenIs
<1>7. Cardinality(Bytes(len, n)) = FragLen(len, n)
  BY BytesOfFragment
<1>8. Missing(len, S) = Missing(len, S \cup {n}) + FragLen(len, n)
  BY <1>3, <1>4, <1>5, <1>6, <1>7 DEF Missing
<1> QED
  BY <1>1, <1>5, <1>6, <1>8

\* When one fragment is all that is missing, every other fragment is there.
LEMMA NothingElseMissing ==
    ASSUME NEW len \in Nat, NEW n \in Nat, n < Frags(len), NEW S, n \notin S,
           len = 0 \/ Missing(len, S) = FragLen(len, n)
    PROVE  0 .. Frags(len) - 1 \subseteq S \cup {n}
<1>1. SUFFICES ASSUME NEW m \in Nat, m < Frags(len), m # n, m \notin S PROVE FALSE
  BY FragsAreThere
<1>2. len > 0
  <2>1. len = 0 => Frags(len) = 1
    BY DEF Frags
  <2> QED
    BY <1>1, <2>1
<1>3. Bytes(len, n) \in SUBSET Left(len, S)
  BY MissingLess
<1>4. Cardinality(Bytes(len, n)) = Cardinality(Left(len, S))
  BY <1>2, BytesOfFragment DEF Missing
<1>5. Bytes(len, n) = Left(len, S)
  BY <1>3, <1>4, LeftFinite, FS_Subset, Zenon
<1>6. m * FragSize \in Bytes(len, m)
  BY <1>1, <1>2, BytesOfFragment
<1>7. m * FragSize \in Left(len, S) /\ m * FragSize \notin Bytes(len, n)
  BY <1>1, <1>6 DEF Left, Bytes
<1> QED
  BY <1>5, <1>7

-----------------------------------------------------------------------------
\* What holds whether or not a buffer was given away under its user.

\* The packets SendMsg can make.
Packets ==
    {p \in Packet : /\ p.M = Number(p.msg) /\ p.len = MsgLens[p.msg]
                    /\ p.N < Frags(p.len) /\ p.cb = FragLen(p.len, p.N)}

Marked == {"copy", "tick", "count"}     \* its bit is set, its bytes not yet counted
Using  == Marked \cup {"bit", "user"}   \* inside OnData, with a buffer

NetOk  == /\ net \in Seq(Packets) /\ sending \in [Senders -> Packets \cup {NoPacket}]
          /\ m_M = Number(sent)
HandOk == \A t \in Threads : /\ pc[t] # "idle" => pkt[t] \in Packets
                             /\ pc[t] \in Using => mine[t] \in Slots
\* No two buffers are for the same number.
Unique == \A i, j \in Slots : i # j /\ slot[i].M = slot[j].M => slot[i].M = NoM

Base == TypeOK /\ NetOk /\ HandOk /\ Unique

SlotType == [bits : SUBSET FragNo, M : 0 .. NoM, cbMsg : Nat, cbNeed : Int,
             tick : 0 .. TickMod - 1, buf : [FragNo -> Msgs \cup {0}]]
Meets == {"none", "new", "same", "other"}
PCs == {"idle", "lock", "get", "bit", "copy", "tick", "count", "user", "fail"}

LEMMA PacketIs ==
    ASSUME NEW p \in Packets
    PROVE  /\ p \in Packet /\ p.msg \in Msgs /\ p.len = MsgLens[p.msg] /\ p.len \in Nat
           /\ p.N \in FragNo /\ p.N \in Nat /\ p.N < Frags(p.len)
           /\ p.cb = FragLen(p.len, p.N) /\ p.cb \in 0 .. FragSize /\ p.cb \in Nat
           /\ p.M = Number(p.msg) /\ p.M \in 0 .. MMod - 1 /\ p.M # NoM
<1>1. /\ p \in Packet /\ p.msg \in Msgs /\ p.len = MsgLens[p.msg] /\ p.len \in Nat
      /\ p.N \in Nat /\ p.N < Frags(p.len) /\ p.M = Number(p.msg) /\ p.M \in 0 .. MMod - 1
      /\ p.cb = FragLen(p.len, p.N) /\ p.cb \in 0 .. FragSize /\ p.cb \in Nat
  BY Sizes DEF Packets, Packet
<1>2. p.N \in FragNo
  BY <1>1, ShortEnough
<1>3. p.M # NoM
  BY <1>1, Sizes DEF NoM
<1> QED
  BY <1>1, <1>2, <1>3

LEMMA SlotsAreTyped ==
    ASSUME TypeOK
    PROVE  /\ slot \in [Slots -> SlotType] /\ DOMAIN slot = Slots
           /\ \A i \in Slots : /\ slot[i].bits \in SUBSET FragNo /\ slot[i].M \in 0 .. NoM
                               /\ slot[i].cbMsg \in Nat /\ slot[i].cbNeed \in Int
                               /\ slot[i].buf \in [FragNo -> Msgs \cup {0}]
<1>1. slot \in [Slots -> SlotType]
  BY DEF TypeOK, SlotType
<1> QED
  BY <1>1 DEF SlotType

\* The parts of TypeOK an action of the receiver can disturb.
RecvTypes ==
    /\ slot \in [Slots -> SlotType] /\ pc \in [Threads -> PCs]
    /\ pkt \in [Threads -> Packet \cup {NoPacket}]
    /\ mine \in [Threads -> Slots \cup {NoSlot}]

LEMMA TypeParts ==
    TypeOK <=>
    /\ sent \in 0 .. Len(MsgLens) /\ m_M \in 0 .. MMod - 1
    /\ sending \in [Senders -> Packet \cup {NoPacket}]
    /\ net \in Seq(Packet) /\ damaged \subseteq Msgs
    /\ lost \in 0 .. MaxLoss /\ dups \in 0 .. MaxDup /\ now \in 0 .. MaxTime
    /\ open \in BOOLEAN /\ stolen \in BOOLEAN /\ refused \in BOOLEAN
    /\ met \in [Msgs -> Meets]
    /\ m_lock \in Threads \cup {NoPacket}
    /\ RecvTypes
    /\ tick \in [Threads -> 0 .. MaxTime]
    /\ delivered \in [Msgs -> Nat] /\ arrived \in [Msgs -> [FragNo -> Nat]]
BY DEF TypeOK, RecvTypes, SlotType, PCs, Meets

LEMMA BaseInit == Init => Base
<1> SUFFICES ASSUME Init PROVE Base
  OBVIOUS
<1>1. TypeOK
  <2>1. slot \in [Slots -> SlotType]
    <3>1. PICK f \in [Slots -> {[bits |-> {}, M |-> NoM, cbMsg |-> 0, cbNeed |-> 0, tick |-> i,
                            buf |-> [n \in FragNo |-> 0]] : i \in InitTicks}] : slot = f
      BY DEF Init
    <3>2. {[bits |-> {}, M |-> NoM, cbMsg |-> 0, cbNeed |-> 0, tick |-> i,
            buf |-> [n \in FragNo |-> 0]] : i \in InitTicks} \subseteq SlotType
      BY Sizes, TicksAssumption DEF SlotType, NoM
    <3> QED
      BY <3>1, <3>2
  <2>2. RecvTypes
    <3>1. pc = [t \in Threads |-> "idle"] /\ "idle" \in PCs
      BY DEF Init, PCs
    <3>2. pkt = [t \in Threads |-> NoPacket] /\ mine = [t \in Threads |-> NoSlot]
      BY DEF Init
    <3> QED
      BY <2>1, <3>1, <3>2 DEF RecvTypes
  <2>3. net \in Seq(Packet) /\ sending \in [Senders -> Packet \cup {NoPacket}]
    BY DEF Init
  <2>4. /\ sent \in 0 .. Len(MsgLens) /\ m_M \in 0 .. MMod - 1 /\ damaged \subseteq Msgs
        /\ lost \in 0 .. MaxLoss /\ dups \in 0 .. MaxDup /\ now \in 0 .. MaxTime
    <3>1. MaxLoss \in Nat /\ MaxDup \in Nat /\ MaxTime \in Nat
      BY Bounds
    <3>2. sent = 0 /\ m_M = 0 /\ damaged = {} /\ lost = 0 /\ dups = 0 /\ now = 0
      BY DEF Init
    <3> QED
      BY <3>1, <3>2, Sizes
  <2>5. /\ open \in BOOLEAN /\ stolen \in BOOLEAN /\ refused \in BOOLEAN
        /\ met \in [Msgs -> Meets] /\ m_lock \in Threads \cup {NoPacket}
        /\ tick \in [Threads -> 0 .. MaxTime]
        /\ delivered \in [Msgs -> Nat] /\ arrived \in [Msgs -> [FragNo -> Nat]]
    <3>1. /\ open = TRUE /\ m_lock = NoPacket /\ stolen = FALSE /\ refused = FALSE
          /\ met = [k \in Msgs |-> "none"]
          /\ tick = [t \in Threads |-> 0]
          /\ arrived = [k \in Msgs |-> [n \in FragNo |-> 0]]
          /\ delivered = [k \in Msgs |-> 0]
      BY DEF Init
    <3>2. 0 \in 0 .. MaxTime
      BY Bounds
    <3>3. tick \in [Threads -> 0 .. MaxTime] /\ delivered \in [Msgs -> Nat]
      BY <3>1, <3>2
    <3>4. arrived \in [Msgs -> [FragNo -> Nat]]
      BY <3>1
    <3>5. met \in [Msgs -> Meets]
      BY <3>1 DEF Meets
    <3> QED
      BY <3>1, <3>3, <3>4, <3>5
  <2> QED
    BY <2>2, <2>3, <2>4, <2>5, TypeParts
<1>2. NetOk
  <2>1. Accepted(0) = {}
    BY DEF Accepted
  <2>2. Number(0) = 0
    <3>1. Cardinality(Accepted(0)) = 0
      BY <2>1, FS_EmptySet
    <3>2. 0 % MMod = 0
      BY Sizes
    <3> QED
      BY <3>1, <3>2 DEF Number
  <2>3. net = <<>> /\ m_M = 0 /\ sent = 0 /\ sending = [s \in Senders |-> NoPacket]
    BY DEF Init
  <2>4. <<>> \in Seq(Packets)
    OBVIOUS
  <2> QED
    BY <2>2, <2>3, <2>4 DEF NetOk
<1>3. HandOk
  BY DEF Init, HandOk, Using, Marked
<1>4. Unique
  <2>1. \A i \in Slots : slot[i] \in {[bits |-> {}, M |-> NoM, cbMsg |-> 0, cbNeed |-> 0, tick |-> j,
                            buf |-> [n \in FragNo |-> 0]] : j \in InitTicks}
    BY DEF Init
  <2> QED
    BY <2>1 DEF Unique
<1> QED
  BY <1>1, <1>2, <1>3, <1>4 DEF Base

\* What SendMsg sends is such a packet, from the first to the last fragment.
LEMMA FragmentIsPacket ==
    ASSUME NEW k \in Msgs, NEW n \in Nat, n < Frags(MsgLens[k])
    PROVE  Fragment(k, Number(k), n) \in Packets
<1>1. MsgLens[k] \in Nat /\ k \in Nat
  BY Sizes DEF Msgs
<1>2. FragLen(MsgLens[k], n) \in 0 .. FragSize
  BY <1>1, FragLenIs
<1>3. Number(k) \in 0 .. MMod - 1
  BY <1>1, NumberType
<1> QED
  BY <1>1, <1>2, <1>3 DEF Fragment, Packets, Packet

LEMMA FollowingIsPacket ==
    ASSUME NEW p \in Packets
    PROVE  Following(p) \in Packets \cup {NoPacket}
<1>1. p.msg \in Msgs /\ p.len = MsgLens[p.msg] /\ p.N \in Nat /\ p.M = Number(p.msg)
  BY PacketIs
<1>2. p.N + 1 < Frags(p.len) => Fragment(p.msg, p.M, p.N + 1) \in Packets
  BY <1>1, FragmentIsPacket
<1> QED
  BY <1>2 DEF Following

LEMMA BaseSend ==
    ASSUME Base, NEW s \in Senders, SendUserData(s) \/ SendMsg(s) \/ SendFails(s)
    PROVE  Base'
<1>0. UNCHANGED <<dups, now, recvVars>>
  BY DEF SendUserData, SendMsg, SendFails
<1>p. /\ sending \in [Senders -> Packets \cup {NoPacket}] /\ net \in Seq(Packets)
      /\ m_M = Number(sent)
  BY DEF Base, NetOk
<1>1. CASE SendUserData(s)
  <2>0. sent \in Nat /\ sent < Len(MsgLens) /\ sent' = sent + 1
    BY <1>1, Sizes DEF Base, TypeOK, SendUserData
  <2>1. UNCHANGED <<net, lost, damaged>>
    BY <1>1 DEF SendUserData
  <2>3. m_M' = Number(sent') /\ sending' \in [Senders -> Packets \cup {NoPacket}]
    <3>1. CASE TooLong(MsgLens[sent + 1])
      <4>1. UNCHANGED <<m_M, sending>>
        BY <1>1, <3>1 DEF SendUserData
      <4> QED
        BY <1>p, <2>0, <3>1, <4>1, NumberNext
    <3>2. CASE ~TooLong(MsgLens[sent + 1])
      <4>1. PICK k \in Msgs : k = sent + 1
        BY <2>0, <3>2, Sizes DEF Msgs
      <4>2. m_M' = NextM(m_M) /\ sending' = [sending EXCEPT ![s] = Fragment(k, m_M', 0)]
        BY <1>1, <3>2, <4>1 DEF SendUserData
      <4>3. m_M' = Number(k)
        BY <1>p, <2>0, <3>2, <4>1, <4>2, NumberNext
      <4>4. MsgLens[k] \in Nat /\ 0 < Frags(MsgLens[k])
        <5>1. MsgLens[k] \in Nat
          BY Sizes DEF Msgs
        <5> QED
          BY <5>1, FragsAreThere
      <4>5. Fragment(k, m_M', 0) \in Packets
        BY <4>3, <4>4, FragmentIsPacket
      <4> QED
        BY <1>p, <2>0, <4>1, <4>2, <4>3, <4>5
    <3> QED
      BY <3>1, <3>2
  <2>4. sent' \in 0 .. Len(MsgLens) /\ m_M' \in 0 .. MMod - 1
    BY <2>0, <2>3, NumberType, Sizes
  <2>5. NetOk'
    BY <1>p, <2>1, <2>3 DEF NetOk
  <2>6. TypeOK'
    <3>1. sending' \in [Senders -> Packet \cup {NoPacket}]
      BY <2>3 DEF Packets
    <3> QED
      BY <1>0, <2>1, <2>4, <3>1 DEF Base, TypeOK, recvVars, history
  <2> QED
    BY <1>0, <2>5, <2>6 DEF Base, HandOk, Unique, recvVars
<1>2. CASE SendMsg(s)
  <2>1. /\ sending[s] # NoPacket /\ net' = Append(net, sending[s])
        /\ sending' = [sending EXCEPT ![s] = Following(sending[s])]
        /\ UNCHANGED <<sent, m_M, lost, damaged>>
    BY <1>2 DEF SendMsg
  <2>2. PICK p \in Packets : p = sending[s]
    BY <1>p, <2>1
  <2>3. net' \in Seq(Packets) /\ sending' \in [Senders -> Packets \cup {NoPacket}]
    BY <1>p, <2>1, <2>2, FollowingIsPacket
  <2>4. NetOk'
    BY <1>p, <2>1, <2>3 DEF NetOk
  <2>5. TypeOK'
    <3>1. Packets \subseteq Packet
      BY DEF Packets
    <3>2. net' \in Seq(Packet) /\ sending' \in [Senders -> Packet \cup {NoPacket}]
      BY <2>3, <3>1, SeqMonotonic
    <3> QED
      BY <1>0, <2>1, <3>2 DEF Base, TypeOK, recvVars, history
  <2> QED
    BY <1>0, <2>4, <2>5 DEF Base, HandOk, Unique, recvVars
<1>3. CASE SendFails(s)
  <2>1. /\ lost < MaxLoss /\ lost' = lost + 1 /\ sending[s] # NoPacket
        /\ damaged' = damaged \cup {sending[s].msg}
        /\ sending' = [sending EXCEPT ![s] = NoPacket]
        /\ UNCHANGED <<sent, m_M, net>>
    BY <1>3 DEF SendFails
  <2>2. PICK p \in Packets : p = sending[s]
    BY <1>p, <2>1
  <2>3. damaged' \subseteq Msgs /\ lost' \in 0 .. MaxLoss
    BY <2>1, <2>2, PacketIs, Bounds DEF Base, TypeOK
  <2>4. sending' \in [Senders -> Packets \cup {NoPacket}]
    BY <1>p, <2>1
  <2>5. NetOk'
    BY <1>p, <2>1, <2>4 DEF NetOk
  <2>6. TypeOK'
    <3>1. sending' \in [Senders -> Packet \cup {NoPacket}]
      BY <2>4 DEF Packets
    <3> QED
      BY <1>0, <2>1, <2>3, <3>1 DEF Base, TypeOK, recvVars, history
  <2> QED
    BY <1>0, <2>5, <2>6 DEF Base, HandOk, Unique, recvVars
<1> QED
  BY <1>1, <1>2, <1>3

\* Losing, duplicating and receiving a packet leave packets on the wire.
LEMMA NetSteps ==
    ASSUME Base, NEW i \in DOMAIN net
    PROVE  /\ RemoveAt(net, i) \in Seq(Packets) /\ InsertAt(net, i, net[i]) \in Seq(Packets)
           /\ RemoveAt(net, i) \in Seq(Packet) /\ InsertAt(net, i, net[i]) \in Seq(Packet)
           /\ net[i] \in Packets
<1>1. net \in Seq(Packets)
  BY DEF Base, NetOk
<1>2. i \in 1 .. Len(net) /\ net[i] \in Packets
  BY <1>1
<1>3. RemoveAt(net, i) \in Seq(Packets) /\ InsertAt(net, i, net[i]) \in Seq(Packets)
  BY <1>1, <1>2, RemoveAtType, InsertAtType, Zenon
<1>4. Packets \subseteq Packet
  BY DEF Packets
<1> QED
  BY <1>2, <1>3, <1>4, SeqMonotonic, Zenon

LEMMA BaseNet == Base /\ (Lose \/ Duplicate \/ Clock) => Base'
<1> SUFFICES ASSUME Base, Lose \/ Duplicate \/ Clock PROVE Base'
  OBVIOUS
<1>1. UNCHANGED <<sent, m_M, sending, recvVars>>
  BY DEF Lose, Duplicate, Clock, netVars
<1>2. /\ net' \in Seq(Packets) /\ net' \in Seq(Packet) /\ damaged' \subseteq Msgs
      /\ lost' \in 0 .. MaxLoss /\ dups' \in 0 .. MaxDup /\ now' \in 0 .. MaxTime
  <2>0. net \in Seq(Packets) /\ net \in Seq(Packet) /\ damaged \subseteq Msgs
    BY DEF Base, TypeOK, NetOk
  <2>1. CASE Lose
    <3>1. PICK i \in DOMAIN net : net' = RemoveAt(net, i) /\ damaged' = damaged \cup {net[i].msg}
      BY <2>1 DEF Lose
    <3>2. net' \in Seq(Packets) /\ net' \in Seq(Packet) /\ net[i] \in Packets
      BY <3>1, NetSteps
    <3>3. damaged' \subseteq Msgs
      BY <2>0, <3>1, <3>2, PacketIs
    <3>4. lost' \in 0 .. MaxLoss /\ UNCHANGED <<dups, now>>
      BY <2>1, Bounds DEF Lose, Base, TypeOK
    <3> QED
      BY <3>2, <3>3, <3>4 DEF Base, TypeOK
  <2>2. CASE Duplicate
    <3>1. PICK i \in DOMAIN net : net' = InsertAt(net, i, net[i])
      BY <2>2 DEF Duplicate
    <3>2. net' \in Seq(Packets) /\ net' \in Seq(Packet)
      BY <3>1, NetSteps
    <3>4. dups' \in 0 .. MaxDup /\ UNCHANGED <<lost, now, damaged>>
      BY <2>2, Bounds DEF Duplicate, Base, TypeOK
    <3> QED
      BY <3>2, <3>4, <2>0 DEF Base, TypeOK
  <2>3. CASE Clock
    <3>4. now' \in 0 .. MaxTime /\ UNCHANGED <<lost, dups, damaged, net>>
      BY <2>3, Bounds DEF Clock, Base, TypeOK, netVars
    <3> QED
      BY <3>4, <2>0 DEF Base, TypeOK
  <2> QED
    BY <2>1, <2>2, <2>3
<1>3. TypeOK'
  BY <1>1, <1>2 DEF Base, TypeOK, recvVars, history
<1>4. NetOk' /\ HandOk' /\ Unique'
  BY <1>1, <1>2 DEF Base, NetOk, HandOk, Unique, recvVars
<1> QED
  BY <1>3, <1>4 DEF Base

-----------------------------------------------------------------------------
\* What each step of a receiving thread does, place by place.

Others(t) == \A u \in Threads \ {t} :
                pc'[u] = pc[u] /\ pkt'[u] = pkt[u] /\ mine'[u] = mine[u]
Elsewhere(i) == \A j \in Slots \ {i} : slot'[j] = slot[j]

LEMMA Ready ==
    ASSUME Base, NEW t \in Threads
    PROVE  /\ RecvTypes /\ pc[t] \in PCs /\ mine[t] \in Slots \cup {NoSlot}
           /\ DOMAIN pc = Threads /\ DOMAIN pkt = Threads /\ DOMAIN mine = Threads
           /\ pc[t] # "idle" => pkt[t] \in Packets
           /\ pc[t] \in Using => mine[t] \in Slots
BY TypeParts DEF Base, RecvTypes, HandOk

LEMMA GotoDoes ==
    ASSUME Base, NEW t \in Threads, NEW l \in PCs, Goto(t, l)
    PROVE  /\ pc' \in [Threads -> PCs] /\ pc'[t] = l
           /\ \A u \in Threads \ {t} : pc'[u] = pc[u]
BY Ready DEF Goto, RecvTypes

LEMMA DoneDoes ==
    ASSUME Base, NEW t \in Threads, Done(t), UNCHANGED slot
    PROVE  /\ pc'[t] = "idle" /\ mine'[t] = NoSlot /\ Others(t) /\ RecvTypes'
<1>1. Goto(t, "idle") /\ "idle" \in PCs
  BY DEF Done, PCs
<1>2. /\ pc' \in [Threads -> PCs] /\ pc'[t] = "idle"
      /\ \A u \in Threads \ {t} : pc'[u] = pc[u]
  BY <1>1, GotoDoes
<1>3. /\ pkt' \in [Threads -> Packet \cup {NoPacket}]
      /\ mine' \in [Threads -> Slots \cup {NoSlot}]
      /\ mine'[t] = NoSlot
      /\ \A u \in Threads \ {t} : pkt'[u] = pkt[u] /\ mine'[u] = mine[u]
  BY Ready DEF Done, RecvTypes
<1> QED
  BY <1>2, <1>3, Ready DEF Others, RecvTypes

\* The threads' places are the same when only pc of t moves.
LEMMA GotoKeeps ==
    ASSUME Base, NEW t \in Threads, NEW l \in PCs, Goto(t, l), UNCHANGED <<pkt, mine>>
    PROVE  /\ pc' \in [Threads -> PCs] /\ pc'[t] = l /\ Others(t)
           /\ pkt'[t] = pkt[t] /\ mine'[t] = mine[t]
BY GotoDoes DEF Others

LEMMA OnDataDoes ==
    ASSUME Base, NEW t \in Threads, OnData(t)
    PROVE  /\ pc[t] = "lock" /\ pc'[t] = "get" /\ Others(t) /\ RecvTypes'
           /\ UNCHANGED <<netVars, now, open, slot, pkt, mine, delivered, history>>
           /\ TypeOK'
<1>1. /\ pc[t] = "lock" /\ Goto(t, "get") /\ "get" \in PCs
      /\ UNCHANGED <<netVars, now, open, slot, pkt, mine, delivered, history>>
  BY DEF OnData, PCs
<1>2. pc' \in [Threads -> PCs] /\ pc'[t] = "get" /\ Others(t)
  BY <1>1, GotoKeeps
<1>3. RecvTypes'
  BY <1>1, <1>2, Ready DEF RecvTypes
<1>4. m_lock' \in Threads \cup {NoPacket} /\ tick' \in [Threads -> 0 .. MaxTime]
  BY TypeParts DEF OnData, Base
<1>5. TypeOK'
  BY <1>1, <1>3, <1>4 DEF Base, netVars, history, TypeOK, RecvTypes, SlotType, PCs
<1> QED
  BY <1>1, <1>2, <1>3, <1>5

\* The message has a buffer.
GetFinds(t) ==
    \E i \in Slots :
        /\ slot[i].M = pkt[t].M /\ slot[i].cbMsg = pkt[t].len
        /\ pc'[t] = "bit" /\ mine'[t] = i
        /\ UNCHANGED <<pkt, slot, stolen>>

\* It has none, or one of another length: the packet is dropped.
GetDrops(t) == pc'[t] = "idle" /\ mine'[t] = NoSlot /\ UNCHANGED <<slot, stolen>>

\* It is given one.
GetAssigns(t) ==
    \E i \in Slots :
        /\ \A j \in Slots : slot[j].M # pkt[t].M
        /\ slot'[i].M = pkt[t].M /\ slot'[i].cbMsg = pkt[t].len
        /\ slot'[i].cbNeed = pkt[t].len
        /\ slot'[i].bits = slot[i].bits /\ slot'[i].buf = slot[i].buf
        /\ Elsewhere(i)
        /\ stolen' = (stolen \/ InUse(t, i))
        /\ pc'[t] = "bit" /\ mine'[t] = i /\ pkt' = pkt

LEMMA AssignDoes ==
    ASSUME Base, NEW i \in Slots, NEW p \in Packets, Assign(i, p)
    PROVE  /\ slot' \in [Slots -> SlotType]
           /\ slot'[i].M = p.M /\ slot'[i].cbMsg = p.len /\ slot'[i].cbNeed = p.len
           /\ slot'[i].bits = slot[i].bits /\ slot'[i].buf = slot[i].buf
           /\ Elsewhere(i)
<1>1. slot \in [Slots -> SlotType]
  BY SlotsAreTyped DEF Base
<1>2. slot' = [slot EXCEPT ![i] = [@ EXCEPT !.M = p.M, !.cbMsg = p.len, !.cbNeed = p.len]]
  BY DEF Assign
<1>3. p.M \in 0 .. NoM /\ p.len \in Nat /\ p.len \in Int
  BY PacketIs, Sizes DEF NoM
<1>4. slot'[i] = [slot[i] EXCEPT !.M = p.M, !.cbMsg = p.len, !.cbNeed = p.len]
  BY <1>1, <1>2
<1>5. slot'[i] \in SlotType
  BY <1>1, <1>3, <1>4 DEF SlotType
<1>6. Elsewhere(i)
  BY <1>1, <1>2 DEF Elsewhere
<1>7. slot' \in [Slots -> SlotType]
  BY <1>1, <1>2, <1>4, <1>5
<1>8. /\ slot'[i].M = p.M /\ slot'[i].cbMsg = p.len /\ slot'[i].cbNeed = p.len
      /\ slot'[i].bits = slot[i].bits /\ slot'[i].buf = slot[i].buf
  BY <1>1, <1>4 DEF SlotType
<1> QED
  BY <1>6, <1>7, <1>8

LEMMA MineMoves ==
    ASSUME Base, NEW t \in Threads, NEW i \in Slots, mine' = [mine EXCEPT ![t] = i],
           Goto(t, "bit"), UNCHANGED pkt
    PROVE  /\ pc' \in [Threads -> PCs] /\ mine' \in [Threads -> Slots \cup {NoSlot}]
           /\ pc'[t] = "bit" /\ mine'[t] = i /\ Others(t)
<1>1. "bit" \in PCs
  BY DEF PCs
<1>2. /\ pc' \in [Threads -> PCs] /\ pc'[t] = "bit"
      /\ \A u \in Threads \ {t} : pc'[u] = pc[u]
  BY <1>1, GotoDoes
<1> QED
  BY <1>2, Ready DEF Others, RecvTypes

LEMMA GetDoes ==
    ASSUME Base, NEW t \in Threads, Get(t)
    PROVE  /\ pc[t] = "get" /\ Others(t) /\ RecvTypes' /\ TypeOK'
           /\ UNCHANGED <<netVars, now, open, delivered, arrived, refused>>
           /\ GetFinds(t) \/ GetDrops(t) \/ GetAssigns(t)
<1> DEFINE matching == {i \in Slots : slot[i].M = pkt[t].M}
<1>0. /\ pc[t] = "get" /\ m_lock' = NoPacket /\ tick' = [tick EXCEPT ![t] = 0]
      /\ met' = [met EXCEPT ![pkt[t].msg] = IF @ # "none" THEN @ ELSE WhatItMeets(t, matching)]
      /\ UNCHANGED <<netVars, now, open, delivered, arrived, refused>>
      /\ \/ matching # {} /\ Found(t, Min(matching))
         \/ matching = {} /\ Candidates(t) # {} /\
                /\ Assign(Min(Candidates(t)), pkt[t])
                /\ stolen' = (stolen \/ InUse(t, Min(Candidates(t))))
                /\ mine' = [mine EXCEPT ![t] = Min(Candidates(t))]
                /\ Goto(t, "bit")
                /\ UNCHANGED pkt
         \/ Done(t) /\ UNCHANGED <<slot, stolen>>
  BY Zenon DEF Get
<1> DEFINE Goal == /\ Others(t) /\ RecvTypes' /\ stolen' \in BOOLEAN
                   /\ GetFinds(t) \/ GetDrops(t) \/ GetAssigns(t)
<1>b. stolen \in BOOLEAN
  BY DEF Base, TypeOK
<1>p. pkt[t] \in Packets
  BY <1>0, Ready
<1>s. NumSlots \in Nat /\ Slots = 1 .. NumSlots
  BY Sizes DEF Slots
<1>1. ASSUME matching # {}, Found(t, Min(matching)) PROVE Goal
  <2>1. PICK i \in matching : i = Min(matching)
    <3>1. matching \in SUBSET (1 .. NumSlots)
      BY <1>s
    <3> HIDE DEF matching
    <3> QED
      BY <1>1, <1>s, <3>1, MinIsMember
  <2>2. i \in Slots /\ slot[i].M = pkt[t].M
    BY <2>1
  <2>3. Found(t, i) /\ UNCHANGED <<slot, stolen>>
    BY <1>1, <2>1 DEF Found
  <2>4. ASSUME slot[i].cbMsg = pkt[t].len PROVE Goal
    <3>1. Goto(t, "bit") /\ mine' = [mine EXCEPT ![t] = i] /\ UNCHANGED pkt
      BY <2>3, <2>4 DEF Found
    <3>2. /\ pc' \in [Threads -> PCs] /\ mine' \in [Threads -> Slots \cup {NoSlot}]
          /\ pc'[t] = "bit" /\ mine'[t] = i /\ Others(t)
      BY <2>2, <3>1, MineMoves
    <3>3. RecvTypes'
      BY <2>3, <3>1, <3>2, Ready DEF RecvTypes
    <3>4. GetFinds(t)
      BY <2>2, <2>3, <2>4, <3>1, <3>2 DEF GetFinds
    <3> QED
      BY <3>2, <3>3, <3>4, <2>3, <1>b
  <2>5. ASSUME slot[i].cbMsg # pkt[t].len PROVE Goal
    <3>1. Done(t)
      BY <2>3, <2>5 DEF Found
    <3>2. Others(t) /\ RecvTypes' /\ GetDrops(t)
      BY <2>3, <3>1, DoneDoes DEF GetDrops
    <3> QED
      BY <2>3, <3>2, <1>b
  <2> QED
    BY <2>4, <2>5
<1>2. ASSUME matching = {}, Candidates(t) # {}, Assign(Min(Candidates(t)), pkt[t]),
             stolen' = (stolen \/ InUse(t, Min(Candidates(t)))),
             mine' = [mine EXCEPT ![t] = Min(Candidates(t))],
             Goto(t, "bit"), UNCHANGED pkt
      PROVE  Goal
  <2>1. PICK i \in Slots : i = Min(Candidates(t))
    <3>1. Candidates(t) \in SUBSET (1 .. NumSlots)
      BY <1>s DEF Candidates, Empty, Oldest
    <3>2. Min(Candidates(t)) \in Candidates(t)
      BY <1>2, <1>s, <3>1, MinIsMember
    <3> QED
      BY <1>s, <3>1, <3>2
  <2>2. /\ Assign(i, pkt[t]) /\ stolen' = (stolen \/ InUse(t, i))
        /\ mine' = [mine EXCEPT ![t] = i] /\ Goto(t, "bit") /\ UNCHANGED pkt
    BY <1>2, <2>1
  <2>3. /\ slot' \in [Slots -> SlotType]
        /\ slot'[i].M = pkt[t].M /\ slot'[i].cbMsg = pkt[t].len /\ slot'[i].cbNeed = pkt[t].len
        /\ slot'[i].bits = slot[i].bits /\ slot'[i].buf = slot[i].buf
        /\ Elsewhere(i)
    BY <1>p, <2>2, AssignDoes
  <2>4. /\ pc' \in [Threads -> PCs] /\ mine' \in [Threads -> Slots \cup {NoSlot}]
        /\ pc'[t] = "bit" /\ mine'[t] = i /\ Others(t)
    BY <2>2, MineMoves
  <2>5. \A j \in Slots : slot[j].M # pkt[t].M
    BY <1>2
  <2>6. GetAssigns(t)
    BY <2>2, <2>3, <2>4, <2>5, Zenon DEF GetAssigns
  <2>7. RecvTypes'
    BY <2>2, <2>3, <2>4, Ready DEF RecvTypes
  <2>8. stolen' \in BOOLEAN
    BY <2>2, <1>b
  <2> QED
    BY <2>4, <2>6, <2>7, <2>8
<1>3. ASSUME Done(t), UNCHANGED <<slot, stolen>> PROVE Goal
  BY <1>3, <1>b, DoneDoes DEF GetDrops
<1>4. Goal
  <2> HIDE DEF Goal, matching
  <2> QED
    BY <1>0, <1>1, <1>2, <1>3
<1>5. /\ m_lock' \in Threads \cup {NoPacket} /\ tick' \in [Threads -> 0 .. MaxTime]
      /\ met' \in [Msgs -> {"none", "new", "same", "other"}]
  <2>1. WhatItMeets(t, matching) \in {"none", "new", "same", "other"}
    BY DEF WhatItMeets
  <2>2. PICK w \in {"none", "new", "same", "other"} : w = WhatItMeets(t, matching)
    BY <2>1
  <2>3. met' = [met EXCEPT ![pkt[t].msg] = IF @ # "none" THEN @ ELSE w]
    BY <1>0, <2>2
  <2>4. met' \in [Msgs -> {"none", "new", "same", "other"}]
    BY <2>3 DEF Base, TypeOK
  <2> QED
    BY <1>0, <2>4, Bounds DEF Base, TypeOK
<1>6. TypeOK'
  BY <1>0, <1>4, <1>5 DEF Base, netVars, history, TypeOK, RecvTypes, SlotType, PCs
<1> QED
  BY <1>0, <1>4, <1>6

\* A packet for a connection that is still open reaches the thread.
RecvTakes(t) ==
    \E p \in Packets :
        /\ pc'[t] = "lock" /\ pkt'[t] = p
        /\ arrived' = [arrived EXCEPT ![p.msg][p.N] = @ + 1]

LEMMA OnRecvDoes ==
    ASSUME Base, NEW t \in Threads, OnRecv(t)
    PROVE  /\ pc[t] = "idle" /\ Others(t) /\ RecvTypes' /\ TypeOK' /\ net' \in Seq(Packets)
           /\ UNCHANGED <<sent, m_M, sending, lost, dups, damaged, now, open, m_lock, slot, tick,
                          mine, delivered, met, refused, stolen>>
           /\ RecvTakes(t) \/ UNCHANGED <<pc, pkt, arrived>>
<1>1. PICK i \in DOMAIN net :
        /\ net' = RemoveAt(net, i)
        /\ IF open
           THEN /\ Goto(t, "lock")
                /\ pkt' = [pkt EXCEPT ![t] = net[i]]
                /\ arrived' = [arrived EXCEPT ![net[i].msg][net[i].N] = @ + 1]
           ELSE UNCHANGED <<pc, pkt, arrived>>
  BY DEF OnRecv, Reachable
<1>2. /\ pc[t] = "idle"
      /\ UNCHANGED <<sent, m_M, sending, lost, dups, damaged, now, open, m_lock, slot, tick,
                     mine, delivered, met, refused, stolen>>
  BY DEF OnRecv
<1>3. net' \in Seq(Packets) /\ net' \in Seq(Packet)
  BY <1>1, NetSteps
<1>4. PICK p \in Packets : p = net[i]
  BY NetSteps
<1>5. ASSUME open
      PROVE  Others(t) /\ RecvTypes' /\ RecvTakes(t) /\ arrived' \in [Msgs -> [FragNo -> Nat]]
  <2>1. /\ Goto(t, "lock") /\ "lock" \in PCs /\ pkt' = [pkt EXCEPT ![t] = p]
        /\ arrived' = [arrived EXCEPT ![p.msg][p.N] = @ + 1]
    BY <1>1, <1>4, <1>5 DEF PCs
  <2>2. /\ pc' \in [Threads -> PCs] /\ pc'[t] = "lock"
        /\ \A u \in Threads \ {t} : pc'[u] = pc[u]
    BY <2>1, GotoDoes
  <2>3. p \in Packet /\ p.msg \in Msgs /\ p.N \in FragNo
    BY PacketIs
  <2>4. /\ pkt' \in [Threads -> Packet \cup {NoPacket}] /\ pkt'[t] = p
        /\ \A u \in Threads \ {t} : pkt'[u] = pkt[u]
    BY <2>1, <2>3, Ready DEF RecvTypes
  <2>5. arrived' \in [Msgs -> [FragNo -> Nat]]
    <3>1. arrived \in [Msgs -> [FragNo -> Nat]]
      BY DEF Base, TypeOK
    <3>2. [arrived[p.msg] EXCEPT ![p.N] = @ + 1] \in [FragNo -> Nat]
      BY <2>3, <3>1
    <3>3. arrived' = [arrived EXCEPT ![p.msg] = [arrived[p.msg] EXCEPT ![p.N] = @ + 1]]
      BY <2>1, <2>3, <3>1
    <3> QED
      BY <2>3, <3>1, <3>2, <3>3
  <2> QED
    BY <1>2, <2>1, <2>2, <2>4, <2>5, Ready DEF Others, RecvTypes, RecvTakes
<1>6. ASSUME ~open
      PROVE  Others(t) /\ RecvTypes' /\ UNCHANGED <<pc, pkt, arrived>>
             /\ arrived' \in [Msgs -> [FragNo -> Nat]]
  BY <1>1, <1>2, <1>6, Ready DEF Others, RecvTypes, Base, TypeOK
<1>7. /\ Others(t) /\ RecvTypes' /\ arrived' \in [Msgs -> [FragNo -> Nat]]
      /\ RecvTakes(t) \/ UNCHANGED <<pc, pkt, arrived>>
  BY <1>5, <1>6
<1>8. TypeOK'
  BY <1>2, <1>3, <1>7 DEF Base, TypeOK, RecvTypes, SlotType, PCs
<1> QED
  BY <1>2, <1>3, <1>7, <1>8

\* A write to one field of one buffer.
LEMMA FieldDoes ==
    ASSUME Base, NEW i \in Slots, NEW r \in SlotType, slot' = [slot EXCEPT ![i] = r]
    PROVE  slot' \in [Slots -> SlotType] /\ slot'[i] = r /\ Elsewhere(i)
BY SlotsAreTyped DEF Base, Elsewhere

LEMMA BitsDo ==
    ASSUME Base, NEW i \in Slots, NEW X \in SUBSET FragNo, slot' = [slot EXCEPT ![i].bits = X]
    PROVE  /\ slot' \in [Slots -> SlotType] /\ Elsewhere(i) /\ slot'[i].bits = X
           /\ slot'[i].M = slot[i].M /\ slot'[i].cbMsg = slot[i].cbMsg
           /\ slot'[i].cbNeed = slot[i].cbNeed /\ slot'[i].buf = slot[i].buf
<1>1. slot[i] \in SlotType /\ DOMAIN slot = Slots
  BY SlotsAreTyped DEF Base
<1>2. PICK r \in SlotType : r = [slot[i] EXCEPT !.bits = X]
  BY <1>1 DEF SlotType
<1>3. slot' = [slot EXCEPT ![i] = r]
  BY <1>2
<1>4. slot' \in [Slots -> SlotType] /\ slot'[i] = r /\ Elsewhere(i)
  BY <1>3, FieldDoes
<1>5. /\ r.bits = X /\ r.M = slot[i].M /\ r.cbMsg = slot[i].cbMsg
      /\ r.cbNeed = slot[i].cbNeed /\ r.buf = slot[i].buf
  BY <1>1, <1>2 DEF SlotType
<1> QED
  BY <1>4, <1>5

LEMMA BitDoes ==
    ASSUME Base, NEW t \in Threads, BitTestAndSet(t)
    PROVE  /\ pc[t] = "bit" /\ Others(t) /\ RecvTypes' /\ TypeOK'
           /\ UNCHANGED <<netVars, now, open, m_lock, pkt, tick, mine, delivered, history>>
           /\ \/ /\ pc'[t] = "copy" /\ pkt[t].N \notin slot[mine[t]].bits
                 /\ Elsewhere(mine[t])
                 /\ slot'[mine[t]].bits = slot[mine[t]].bits \cup {pkt[t].N}
                 /\ slot'[mine[t]].M = slot[mine[t]].M
                 /\ slot'[mine[t]].cbMsg = slot[mine[t]].cbMsg
                 /\ slot'[mine[t]].cbNeed = slot[mine[t]].cbNeed
                 /\ slot'[mine[t]].buf = slot[mine[t]].buf
              \/ pc'[t] = "fail" /\ slot' = slot
<1>1. /\ pc[t] = "bit"
      /\ UNCHANGED <<netVars, now, open, m_lock, pkt, tick, mine, delivered, history>>
  BY DEF BitTestAndSet
<1>2. PICK i \in Slots : i = mine[t]
  BY <1>1, Ready DEF Using
<1>3. PICK p \in Packets : p = pkt[t]
  BY <1>1, Ready
<1>4. ASSUME Fresh(t)
      PROVE  /\ Others(t) /\ RecvTypes'
             /\ pc'[t] = "copy" /\ p.N \notin slot[i].bits
             /\ Elsewhere(i) /\ slot'[i].bits = slot[i].bits \cup {p.N}
             /\ slot'[i].M = slot[i].M /\ slot'[i].cbMsg = slot[i].cbMsg
             /\ slot'[i].cbNeed = slot[i].cbNeed /\ slot'[i].buf = slot[i].buf
  <2>1. /\ slot' = [slot EXCEPT ![i].bits = slot[i].bits \cup {p.N}] /\ Goto(t, "copy")
        /\ "copy" \in PCs
    BY <1>2, <1>3, <1>4, SlotsAreTyped DEF BitTestAndSet, Base, PCs
  <2>2. pc' \in [Threads -> PCs] /\ pc'[t] = "copy" /\ Others(t)
    BY <1>1, <2>1, GotoKeeps
  <2>3. slot[i].bits \cup {p.N} \in SUBSET FragNo
    BY SlotsAreTyped, PacketIs DEF Base
  <2>4. PICK X \in SUBSET FragNo : X = slot[i].bits \cup {p.N}
    BY <2>3
  <2>5. slot' = [slot EXCEPT ![i].bits = X]
    BY <2>1, <2>4
  <2>6. /\ slot' \in [Slots -> SlotType] /\ Elsewhere(i) /\ slot'[i].bits = X
        /\ slot'[i].M = slot[i].M /\ slot'[i].cbMsg = slot[i].cbMsg
        /\ slot'[i].cbNeed = slot[i].cbNeed /\ slot'[i].buf = slot[i].buf
    BY <2>5, BitsDo
  <2>7. RecvTypes'
    BY <1>1, <2>2, <2>6, Ready DEF RecvTypes
  <2>8. p.N \notin slot[i].bits
    BY <1>2, <1>3, <1>4 DEF Fresh
  <2> QED
    BY <2>2, <2>4, <2>6, <2>7, <2>8
<1>5. ASSUME ~Fresh(t)
      PROVE  Others(t) /\ RecvTypes' /\ pc'[t] = "fail" /\ slot' = slot
  <2>1. slot' = slot /\ Goto(t, "fail") /\ "fail" \in PCs
    BY <1>5 DEF BitTestAndSet, PCs
  <2>2. pc' \in [Threads -> PCs] /\ pc'[t] = "fail" /\ Others(t)
    BY <1>1, <2>1, GotoKeeps
  <2> QED
    BY <1>1, <2>1, <2>2, Ready DEF RecvTypes
<1>6. RecvTypes'
  BY <1>4, <1>5
<1>7. TypeOK'
  BY <1>1, <1>6 DEF Base, netVars, history, TypeOK, RecvTypes, SlotType, PCs
<1> QED
  BY <1>1, <1>2, <1>3, <1>4, <1>5, <1>7

LEMMA CopyDoes ==
    ASSUME Base, NEW t \in Threads, Copy(t)
    PROVE  /\ pc[t] = "copy" /\ pc'[t] = "tick" /\ Others(t) /\ RecvTypes' /\ TypeOK'
           /\ UNCHANGED <<netVars, now, open, m_lock, pkt, tick, mine, delivered, history>>
           /\ Elsewhere(mine[t])
           /\ slot'[mine[t]].bits = slot[mine[t]].bits /\ slot'[mine[t]].M = slot[mine[t]].M
           /\ slot'[mine[t]].cbMsg = slot[mine[t]].cbMsg
           /\ slot'[mine[t]].cbNeed = slot[mine[t]].cbNeed
           /\ slot'[mine[t]].buf = [slot[mine[t]].buf EXCEPT ![pkt[t].N] = pkt[t].msg]
<1>1. /\ pc[t] = "copy" /\ Goto(t, "tick") /\ "tick" \in PCs
      /\ UNCHANGED <<netVars, now, open, m_lock, pkt, tick, mine, delivered, history>>
  BY DEF Copy, PCs
<1>2. PICK i \in Slots : i = mine[t]
  BY <1>1, Ready DEF Using, Marked
<1>3. PICK p \in Packets : p = pkt[t]
  BY <1>1, Ready
<1>4. slot[i] \in SlotType /\ DOMAIN slot = Slots
  BY SlotsAreTyped DEF Base
<1>5. p.msg \in Msgs /\ p.N \in FragNo
  BY PacketIs
<1>6. PICK r \in SlotType : r = [slot[i] EXCEPT !.buf = [slot[i].buf EXCEPT ![p.N] = p.msg]]
  BY <1>4, <1>5 DEF SlotType
<1>7. slot' = [slot EXCEPT ![i] = r]
  <2>1. slot' = [slot EXCEPT ![i].buf[p.N] = p.msg]
    BY <1>2, <1>3 DEF Copy, Place
  <2> QED
    BY <1>4, <1>6, <2>1
<1>8. slot' \in [Slots -> SlotType] /\ slot'[i] = r /\ Elsewhere(i)
  BY <1>7, FieldDoes
<1>9. /\ r.bits = slot[i].bits /\ r.M = slot[i].M /\ r.cbMsg = slot[i].cbMsg
      /\ r.cbNeed = slot[i].cbNeed /\ r.buf = [slot[i].buf EXCEPT ![p.N] = p.msg]
  BY <1>4, <1>6 DEF SlotType
<1>10. pc' \in [Threads -> PCs] /\ pc'[t] = "tick" /\ Others(t)
  BY <1>1, GotoKeeps
<1>11. RecvTypes'
  BY <1>1, <1>8, <1>10, Ready DEF RecvTypes
<1>12. TypeOK'
  BY <1>1, <1>11 DEF Base, netVars, history, TypeOK, RecvTypes, SlotType, PCs
<1> QED
  BY <1>1, <1>2, <1>3, <1>8, <1>9, <1>10, <1>11, <1>12

LEMMA TouchDoes ==
    ASSUME Base, NEW t \in Threads, Touch(t)
    PROVE  /\ pc[t] = "tick" /\ pc'[t] = "count" /\ Others(t) /\ RecvTypes' /\ TypeOK'
           /\ UNCHANGED <<netVars, now, open, m_lock, pkt, tick, mine, delivered, history>>
           /\ Elsewhere(mine[t])
           /\ slot'[mine[t]].bits = slot[mine[t]].bits /\ slot'[mine[t]].M = slot[mine[t]].M
           /\ slot'[mine[t]].cbMsg = slot[mine[t]].cbMsg
           /\ slot'[mine[t]].cbNeed = slot[mine[t]].cbNeed
           /\ slot'[mine[t]].buf = slot[mine[t]].buf
<1>1. /\ pc[t] = "tick" /\ Goto(t, "count") /\ "count" \in PCs
      /\ UNCHANGED <<netVars, now, open, m_lock, pkt, tick, mine, delivered, history>>
  BY DEF Touch, PCs
<1>2. PICK i \in Slots : i = mine[t]
  BY <1>1, Ready DEF Using, Marked
<1>4. slot[i] \in SlotType /\ DOMAIN slot = Slots
  BY SlotsAreTyped DEF Base
<1>5. now \in 0 .. TickMod - 1
  BY Bounds DEF Base, TypeOK
<1>6. PICK r \in SlotType : r = [slot[i] EXCEPT !.tick = now]
  BY <1>4, <1>5 DEF SlotType
<1>7. slot' = [slot EXCEPT ![i] = r]
  BY <1>2, <1>6 DEF Touch
<1>8. slot' \in [Slots -> SlotType] /\ slot'[i] = r /\ Elsewhere(i)
  BY <1>7, FieldDoes
<1>9. /\ r.bits = slot[i].bits /\ r.M = slot[i].M /\ r.cbMsg = slot[i].cbMsg
      /\ r.cbNeed = slot[i].cbNeed /\ r.buf = slot[i].buf
  BY <1>4, <1>6 DEF SlotType
<1>10. pc' \in [Threads -> PCs] /\ pc'[t] = "count" /\ Others(t)
  BY <1>1, GotoKeeps
<1>11. RecvTypes'
  BY <1>1, <1>8, <1>10, Ready DEF RecvTypes
<1>12. TypeOK'
  BY <1>1, <1>11 DEF Base, netVars, history, TypeOK, RecvTypes, SlotType, PCs
<1> QED
  BY <1>1, <1>2, <1>8, <1>9, <1>10, <1>11, <1>12

LEMMA CountDoes ==
    ASSUME Base, NEW t \in Threads, ExchangeAdd(t)
    PROVE  /\ pc[t] = "count" /\ Others(t) /\ RecvTypes' /\ TypeOK'
           /\ UNCHANGED <<netVars, now, open, m_lock, tick, history>>
           /\ Elsewhere(mine[t])
           /\ slot'[mine[t]].bits = slot[mine[t]].bits /\ slot'[mine[t]].M = slot[mine[t]].M
           /\ slot'[mine[t]].cbMsg = slot[mine[t]].cbMsg
           /\ slot'[mine[t]].cbNeed = slot[mine[t]].cbNeed - pkt[t].cb
           /\ slot'[mine[t]].buf = slot[mine[t]].buf
           /\ \/ /\ pc'[t] = "user" /\ slot[mine[t]].cbNeed = pkt[t].cb
                 /\ delivered' = [delivered EXCEPT ![pkt[t].msg] = @ + 1]
                 /\ UNCHANGED <<pkt, mine>>
              \/ /\ pc'[t] \in {"fail", "idle"} /\ UNCHANGED delivered
<1>1. /\ pc[t] = "count" /\ slot' = [slot EXCEPT ![mine[t]].cbNeed = @ - pkt[t].cb]
      /\ UNCHANGED <<netVars, now, open, m_lock, tick, history>>
      /\ \/ /\ LastByte(t) /\ Goto(t, "user")
            /\ delivered' = [delivered EXCEPT ![pkt[t].msg] = @ + 1]
            /\ UNCHANGED <<pkt, mine>>
         \/ Goto(t, "fail") /\ UNCHANGED <<pkt, mine>> /\ UNCHANGED delivered
         \/ Done(t) /\ UNCHANGED delivered
  BY Zenon DEF ExchangeAdd
<1>2. PICK i \in Slots : i = mine[t]
  BY <1>1, Ready DEF Using, Marked
<1>3. PICK p \in Packets : p = pkt[t]
  BY <1>1, Ready
<1>4. slot[i] \in SlotType /\ DOMAIN slot = Slots /\ p.cb \in Nat /\ p.msg \in Msgs
  BY SlotsAreTyped, PacketIs DEF Base
<1>5. PICK need \in Int : need = slot[i].cbNeed - p.cb
  BY <1>4 DEF SlotType
<1>6. PICK r \in SlotType : r = [slot[i] EXCEPT !.cbNeed = need]
  BY <1>4 DEF SlotType
<1>7. slot' = [slot EXCEPT ![i] = r]
  <2>1. slot' = [slot EXCEPT ![i] = [slot[i] EXCEPT !.cbNeed = need]]
    BY <1>1, <1>2, <1>3, <1>5
  <2> QED
    BY <1>6, <2>1
<1>8. slot' \in [Slots -> SlotType] /\ slot'[i] = r /\ Elsewhere(i)
  BY <1>7, FieldDoes
<1>9. /\ r.bits = slot[i].bits /\ r.M = slot[i].M /\ r.cbMsg = slot[i].cbMsg
      /\ r.cbNeed = slot[i].cbNeed - p.cb /\ r.buf = slot[i].buf
  BY <1>4, <1>5, <1>6 DEF SlotType
<1>t. delivered \in [Msgs -> Nat]
  BY DEF Base, TypeOK
<1>10. ASSUME LastByte(t), Goto(t, "user"),
              delivered' = [delivered EXCEPT ![pkt[t].msg] = @ + 1], UNCHANGED <<pkt, mine>>
       PROVE  /\ pc'[t] = "user" /\ slot[i].cbNeed = p.cb /\ Others(t)
              /\ delivered' \in [Msgs -> Nat]
              /\ delivered' = [delivered EXCEPT ![p.msg] = @ + 1]
              /\ UNCHANGED <<pkt, mine>> /\ RecvTypes'
  <2>1. pc' \in [Threads -> PCs] /\ pc'[t] = "user" /\ Others(t)
    <3>1. "user" \in PCs
      BY DEF PCs
    <3> QED
      BY <1>10, <3>1, GotoKeeps
  <2>2. slot[i].cbNeed = p.cb
    BY <1>2, <1>3, <1>10 DEF LastByte
  <2>3. /\ delivered' \in [Msgs -> Nat]
        /\ delivered' = [delivered EXCEPT ![p.msg] = @ + 1]
    BY <1>3, <1>4, <1>t, <1>10
  <2> QED
    BY <1>8, <1>10, <2>1, <2>2, <2>3, Ready DEF RecvTypes
<1>11. ASSUME Goto(t, "fail"), UNCHANGED <<pkt, mine>>
       PROVE  pc'[t] = "fail" /\ Others(t) /\ RecvTypes'
  <2>1. pc' \in [Threads -> PCs] /\ pc'[t] = "fail" /\ Others(t)
    <3>1. "fail" \in PCs
      BY DEF PCs
    <3> QED
      BY <1>11, <3>1, GotoKeeps
  <2> QED
    BY <1>8, <1>11, <2>1, Ready DEF RecvTypes
<1>12. ASSUME Done(t)
       PROVE  pc'[t] = "idle" /\ Others(t) /\ RecvTypes'
  <2>1. /\ pc' \in [Threads -> PCs] /\ pc'[t] = "idle" /\ Others(t)
        /\ pkt' \in [Threads -> Packet \cup {NoPacket}]
        /\ mine' \in [Threads -> Slots \cup {NoSlot}]
    BY <1>12, Ready DEF Done, Goto, RecvTypes, Others, PCs
  <2> QED
    BY <1>8, <2>1 DEF RecvTypes
<1>13. /\ Others(t) /\ RecvTypes' /\ delivered' \in [Msgs -> Nat]
       /\ \/ /\ pc'[t] = "user" /\ slot[i].cbNeed = p.cb
             /\ delivered' = [delivered EXCEPT ![p.msg] = @ + 1]
             /\ UNCHANGED <<pkt, mine>>
          \/ pc'[t] \in {"fail", "idle"} /\ UNCHANGED delivered
  BY <1>1, <1>t, <1>10, <1>11, <1>12
<1>14. TypeOK'
  BY <1>1, <1>13 DEF Base, netVars, history, TypeOK, RecvTypes, SlotType, PCs
<1> QED
  BY <1>1, <1>2, <1>3, <1>8, <1>9, <1>13, <1>14

LEMMA UserDoes ==
    ASSUME Base, NEW t \in Threads, OnUserData(t)
    PROVE  /\ pc[t] = "user" /\ Others(t) /\ RecvTypes' /\ TypeOK'
           /\ pc'[t] = "idle" \/ (pc'[t] = "fail" /\ pkt'[t] = pkt[t])
           /\ UNCHANGED <<netVars, now, open, m_lock, tick, delivered, arrived, stolen>>
           /\ Elsewhere(mine[t])
           /\ slot'[mine[t]].bits = {} /\ slot'[mine[t]].M = slot[mine[t]].M
           /\ slot'[mine[t]].cbMsg = slot[mine[t]].cbMsg
           /\ slot'[mine[t]].cbNeed = slot[mine[t]].cbNeed
           /\ slot'[mine[t]].buf = slot[mine[t]].buf
<1>1. /\ pc[t] = "user" /\ slot' = [slot EXCEPT ![mine[t]].bits = {}]
      /\ mine' = [mine EXCEPT ![t] = NoSlot]
      /\ \/ Goto(t, "idle") /\ pkt' = [pkt EXCEPT ![t] = NoPacket] /\ UNCHANGED refused
         \/ Goto(t, "fail") /\ refused' = TRUE /\ UNCHANGED pkt
      /\ UNCHANGED <<netVars, now, open, m_lock, tick, delivered, arrived, met, stolen>>
  BY DEF OnUserData, FreeSlot
<1>2. PICK i \in Slots : i = mine[t]
  BY <1>1, Ready DEF Using, Marked
<1>3. {} \in SUBSET FragNo /\ slot' = [slot EXCEPT ![i].bits = {}]
  BY <1>1, <1>2
<1>4. /\ slot' \in [Slots -> SlotType] /\ Elsewhere(i) /\ slot'[i].bits = {}
      /\ slot'[i].M = slot[i].M /\ slot'[i].cbMsg = slot[i].cbMsg
      /\ slot'[i].cbNeed = slot[i].cbNeed /\ slot'[i].buf = slot[i].buf
  BY <1>3, BitsDo
<1>5. /\ pc' \in [Threads -> PCs] /\ Others(t)
      /\ pc'[t] = "idle" \/ (pc'[t] = "fail" /\ pkt'[t] = pkt[t])
      /\ pkt' \in [Threads -> Packet \cup {NoPacket}]
      /\ mine' \in [Threads -> Slots \cup {NoSlot}]
  <2>1. /\ mine' \in [Threads -> Slots \cup {NoSlot}]
        /\ \A u \in Threads \ {t} : mine'[u] = mine[u]
    BY <1>1, Ready DEF RecvTypes
  <2>2. CASE Goto(t, "idle") /\ pkt' = [pkt EXCEPT ![t] = NoPacket]
    BY <2>1, <2>2, Ready DEF Goto, RecvTypes, Others, PCs
  <2>3. CASE Goto(t, "fail") /\ UNCHANGED pkt
    BY <2>1, <2>3, Ready DEF Goto, RecvTypes, Others, PCs
  <2> QED
    BY <1>1, <2>2, <2>3
<1>6. RecvTypes' /\ refused' \in BOOLEAN
  BY <1>1, <1>4, <1>5 DEF RecvTypes, Base, TypeOK
<1>7. TypeOK'
  BY <1>1, <1>6 DEF Base, netVars, history, TypeOK, RecvTypes, SlotType, PCs
<1> QED
  BY <1>1, <1>2, <1>4, <1>5, <1>6, <1>7

LEMMA FailDoes ==
    ASSUME Base, NEW t \in Threads, Fail(t)
    PROVE  /\ pc[t] = "fail" /\ pc'[t] = "idle" /\ Others(t) /\ RecvTypes' /\ TypeOK'
           /\ UNCHANGED <<netVars, now, m_lock, slot, tick, delivered, history>>
<1>1. /\ pc[t] = "fail" /\ Done(t) /\ open' = FALSE
      /\ UNCHANGED <<netVars, now, m_lock, slot, tick, delivered, history>>
  BY DEF Fail
<1>2. pc'[t] = "idle" /\ Others(t) /\ RecvTypes'
  BY <1>1, DoneDoes
<1>3. TypeOK'
  BY <1>1, <1>2 DEF Base, netVars, history, TypeOK, RecvTypes, SlotType, PCs
<1> QED
  BY <1>1, <1>2, <1>3

-----------------------------------------------------------------------------
\* Every step keeps the unconditional part.

LEMMA HandMoves ==
    ASSUME Base, NEW t \in Threads, Others(t),
           pc'[t] # "idle" => pkt'[t] \in Packets,
           pc'[t] \in Using => mine'[t] \in Slots
    PROVE  HandOk'
BY DEF Base, HandOk, Others

LEMMA NumbersStay ==
    ASSUME Base, \A i \in Slots : slot'[i].M = slot[i].M
    PROVE  Unique'
BY DEF Base, Unique

LEMMA NetStays ==
    ASSUME Base, UNCHANGED netVars
    PROVE  NetOk'
BY DEF Base, NetOk, netVars

LEMMA BaseRecv ==
    ASSUME Base, NEW t \in Threads, OnRecv(t) \/ RecvStep(t)
    PROVE  Base'
<1> USE DEF Using, Marked
<1>1. CASE OnRecv(t)
  <2>1. /\ pc[t] = "idle" /\ Others(t) /\ TypeOK' /\ net' \in Seq(Packets)
        /\ UNCHANGED <<sent, m_M, sending, slot, mine>>
        /\ RecvTakes(t) \/ UNCHANGED <<pc, pkt, arrived>>
    BY <1>1, OnRecvDoes
  <2>2. HandOk'
    BY <2>1, HandMoves DEF RecvTakes
  <2>3. NetOk' /\ Unique'
    BY <2>1 DEF Base, NetOk, Unique
  <2> QED
    BY <2>1, <2>2, <2>3 DEF Base
<1>2. CASE OnData(t)
  <2>1. /\ pc[t] = "lock" /\ pc'[t] = "get" /\ Others(t) /\ TypeOK'
        /\ UNCHANGED netVars /\ UNCHANGED <<slot, pkt, mine>>
    BY <1>2, OnDataDoes
  <2>2. HandOk'
    BY <2>1, Ready, HandMoves
  <2>3. NetOk' /\ Unique'
    BY <2>1, NetStays DEF Base, Unique
  <2> QED
    BY <2>1, <2>2, <2>3 DEF Base
<1>3. CASE Get(t)
  <2>1. /\ pc[t] = "get" /\ Others(t) /\ TypeOK' /\ UNCHANGED netVars
        /\ GetFinds(t) \/ GetDrops(t) \/ GetAssigns(t)
    BY <1>3, GetDoes
  <2>2. pkt[t] \in Packets
    BY <2>1, Ready
  <2>3. HandOk'
    <3>1. CASE GetFinds(t)
      BY <2>1, <2>2, <3>1, HandMoves DEF GetFinds
    <3>2. CASE GetDrops(t)
      BY <2>1, <3>2, HandMoves DEF GetDrops
    <3>3. CASE GetAssigns(t)
      <4>1. pc'[t] = "bit" /\ mine'[t] \in Slots /\ pkt' = pkt
        BY <3>3 DEF GetAssigns
      <4> QED
        BY <2>1, <2>2, <4>1, HandMoves
    <3> QED
      BY <2>1, <3>1, <3>2, <3>3
  <2>4. Unique'
    <3>1. CASE slot' = slot
      BY <3>1, NumbersStay
    <3>2. CASE GetAssigns(t)
      <4>1. PICK i \in Slots :
               /\ \A j \in Slots : slot[j].M # pkt[t].M
               /\ slot'[i].M = pkt[t].M /\ Elsewhere(i)
        BY <3>2 DEF GetAssigns
      <4> QED
        BY <4>1 DEF Elsewhere, Unique, Base
    <3> QED
      BY <2>1, <3>1, <3>2 DEF GetFinds, GetDrops
  <2> QED
    BY <2>1, <2>3, <2>4, NetStays DEF Base
<1>4. CASE BitTestAndSet(t)
  <2>1. /\ pc[t] = "bit" /\ Others(t) /\ TypeOK' /\ UNCHANGED netVars /\ UNCHANGED <<pkt, mine>>
        /\ \A j \in Slots : slot'[j].M = slot[j].M
    BY <1>4, BitDoes DEF Elsewhere
  <2>2. HandOk'
    BY <2>1, Ready, HandMoves
  <2> QED
    BY <2>1, <2>2, NumbersStay, NetStays DEF Base
<1>5. CASE Copy(t)
  <2>1. /\ pc[t] = "copy" /\ Others(t) /\ TypeOK' /\ UNCHANGED netVars /\ UNCHANGED <<pkt, mine>>
        /\ \A j \in Slots : slot'[j].M = slot[j].M
    BY <1>5, CopyDoes DEF Elsewhere
  <2>2. HandOk'
    BY <2>1, Ready, HandMoves
  <2> QED
    BY <2>1, <2>2, NumbersStay, NetStays DEF Base
<1>6. CASE Touch(t)
  <2>1. /\ pc[t] = "tick" /\ Others(t) /\ TypeOK' /\ UNCHANGED netVars /\ UNCHANGED <<pkt, mine>>
        /\ \A j \in Slots : slot'[j].M = slot[j].M
    BY <1>6, TouchDoes DEF Elsewhere
  <2>2. HandOk'
    BY <2>1, Ready, HandMoves
  <2> QED
    BY <2>1, <2>2, NumbersStay, NetStays DEF Base
<1>7. CASE ExchangeAdd(t)
  <2>1. /\ pc[t] = "count" /\ Others(t) /\ TypeOK' /\ UNCHANGED netVars
        /\ \A j \in Slots : slot'[j].M = slot[j].M
    BY <1>7, CountDoes DEF Elsewhere
  <2>2. pc'[t] = "idle" \/ pc'[t] = "fail" \/ (pc'[t] = "user" /\ UNCHANGED <<pkt, mine>>)
    BY <1>7, CountDoes
  <2>3. pc'[t] = "fail" => pkt'[t] = pkt[t]
    <3>1. Goto(t, "idle") => pc'[t] = "idle"
      BY GotoDoes DEF PCs
    <3> QED
      BY <1>7, <3>1 DEF ExchangeAdd, Done
  <2>4. HandOk'
    BY <2>1, <2>2, <2>3, Ready, HandMoves
  <2> QED
    BY <2>1, <2>4, NumbersStay, NetStays DEF Base
<1>8. CASE OnUserData(t)
  <2>1. /\ pc[t] = "user" /\ Others(t) /\ TypeOK' /\ UNCHANGED netVars
        /\ pc'[t] = "idle" \/ (pc'[t] = "fail" /\ pkt'[t] = pkt[t])
        /\ \A j \in Slots : slot'[j].M = slot[j].M
    BY <1>8, UserDoes DEF Elsewhere
  <2>2. HandOk'
    BY <2>1, Ready, HandMoves
  <2> QED
    BY <2>1, <2>2, NumbersStay, NetStays DEF Base
<1>9. CASE Fail(t)
  <2>1. /\ pc'[t] = "idle" /\ Others(t) /\ TypeOK' /\ UNCHANGED netVars /\ slot' = slot
    BY <1>9, FailDoes
  <2>2. HandOk'
    BY <2>1, HandMoves
  <2> QED
    BY <2>1, <2>2, NumbersStay, NetStays DEF Base
<1> QED
  BY <1>1, <1>2, <1>3, <1>4, <1>5, <1>6, <1>7, <1>8, <1>9 DEF RecvStep

LEMMA BaseStep == Base /\ [Next]_vars => Base'
<1> SUFFICES ASSUME Base, [Next]_vars PROVE Base'
  OBVIOUS
<1>1. CASE UNCHANGED vars
  BY <1>1 DEF Base, TypeOK, NetOk, HandOk, Unique, vars, netVars, recvVars, history
<1>2. CASE Next
  BY <1>2, BaseSend, BaseNet, BaseRecv DEF Next
<1> QED
  BY <1>1, <1>2

\* TypeOK: the receiver's shared buffers and the threads' places stay what they
\* are declared to be, whatever the network does.
THEOREM TypeCorrect == Spec => []TypeOK
<1>1. Init => Base
  BY BaseInit
<1>2. Base /\ [Next]_vars => Base'
  BY BaseStep
<1>3. Base => TypeOK
  BY DEF Base
<1> QED
  BY <1>1, <1>2, <1>3, PTL DEF Spec

-----------------------------------------------------------------------------
\* The buffers.  C[i] is the set of fragments of buffer i whose bytes were
\* copied and counted: no variable of the program says which they are.

SlotGood(C, i) ==
    /\ C[i] \subseteq slot[i].bits
    /\ \A n \in C[i] : slot[i].buf[n] \in Msgs /\ Number(slot[i].buf[n]) = slot[i].M
    /\ slot[i].cbNeed <= 0 \/ slot[i].cbNeed = Missing(slot[i].cbMsg, C[i])

ThreadGood(C, t) ==
    pc[t] \in Using =>
    /\ slot[mine[t]].M = pkt[t].M /\ slot[mine[t]].cbMsg = pkt[t].len
    /\ pc[t] \in Marked => pkt[t].N \in slot[mine[t]].bits /\ pkt[t].N \notin C[mine[t]]
    /\ pc[t] \in {"tick", "count"} => slot[mine[t]].buf[pkt[t].N] = pkt[t].msg
    /\ pc[t] = "user" => 0 .. Frags(pkt[t].len) - 1 \subseteq C[mine[t]]

\* Two threads that write one buffer write different fragments, and nobody writes
\* the buffer OnUserData reads.
Alone ==
    \A t, u \in Threads :
        t # u /\ mine[t] = mine[u] /\ pc[t] \in Marked \cup {"user"}
              /\ pc[u] \in Marked \cup {"user"}
        => pc[t] # "user" /\ pkt[t].N # pkt[u].N

Safe(C) ==
    /\ C \in [Slots -> SUBSET FragNo]
    /\ \A i \in Slots : SlotGood(C, i)
    /\ \A t \in Threads : ThreadGood(C, t)
    /\ Alone

LEMMA NothingMissing ==
    ASSUME NEW len \in Nat, NEW S, 0 .. Frags(len) - 1 \subseteq S
    PROVE  Missing(len, S) = 0
<1>1. ASSUME NEW b \in 0 .. len - 1 PROVE b \div FragSize \in S
  <2>0. b \in Nat /\ FragSize \in Nat \ {0}
    BY Sizes
  <2>1. PICK q \in Nat, r \in 0 .. FragSize - 1 : b = q * FragSize + r /\ r = b % FragSize
    BY <2>0, DivMod, Zenon
  <2>2. b \div FragSize = q
    BY <2>1, DivUnique, Sizes
  <2>3. PICK p \in Nat : p = q * FragSize
    BY Sizes
  <2>4. p < len
    <3>1. b = p + r
      BY <2>1, <2>3
    <3> QED
      BY <3>1, Sizes
  <2>5. q < Frags(len) /\ Frags(len) \in Nat
    BY <2>3, <2>4, FragsAreThere
  <2>6. q \in 0 .. Frags(len) - 1
    BY <2>5
  <2> QED
    BY <2>2, <2>6
<1>2. Left(len, S) = {}
  BY <1>1 DEF Left
<1> QED
  BY <1>2, FS_EmptySet DEF Missing

LEMMA SlotStays ==
    ASSUME NEW C, NEW i \in Slots, SlotGood(C, i), slot'[i] = slot[i]
    PROVE  SlotGood(C, i)'
BY DEF SlotGood

LEMMA ThreadStays ==
    ASSUME Base, NEW C, NEW u \in Threads, ThreadGood(C, u),
           pc'[u] = pc[u] /\ pkt'[u] = pkt[u] /\ mine'[u] = mine[u],
           pc[u] \in Using => slot'[mine[u]] = slot[mine[u]]
    PROVE  ThreadGood(C, u)'
<1>1. CASE pc[u] \in Using
  BY <1>1 DEF ThreadGood
<1>2. CASE pc[u] \notin Using
  BY <1>2 DEF ThreadGood
<1> QED
  BY <1>1, <1>2

LEMMA AloneStays ==
    ASSUME Alone, NEW t \in Threads, Others(t), pc'[t] # "user",
           pc'[t] \in Marked => pc[t] \in Marked /\ mine'[t] = mine[t] /\ pkt'[t] = pkt[t]
    PROVE  Alone'
<1> SUFFICES ASSUME NEW a \in Threads, NEW b \in Threads, a # b, (mine[a] = mine[b])',
                    (pc[a] \in Marked \cup {"user"})', (pc[b] \in Marked \cup {"user"})'
             PROVE  (pc[a] # "user" /\ pkt[a].N # pkt[b].N)'
  BY DEF Alone
<1>1. ASSUME NEW c \in Threads, (pc[c] \in Marked \cup {"user"})'
      PROVE  /\ pc[c] \in Marked \cup {"user"} /\ mine'[c] = mine[c] /\ pkt'[c] = pkt[c]
             /\ pc'[c] = "user" => pc[c] = "user"
  BY <1>1 DEF Others
<1>2. /\ pc[a] \in Marked \cup {"user"} /\ mine'[a] = mine[a] /\ pkt'[a] = pkt[a]
      /\ pc'[a] = "user" => pc[a] = "user"
      /\ pc[b] \in Marked \cup {"user"} /\ mine'[b] = mine[b] /\ pkt'[b] = pkt[b]
  BY <1>1
<1>3. pc[a] # "user" /\ pkt[a].N # pkt[b].N
  BY <1>2 DEF Alone
<1> QED
  BY <1>2, <1>3

\* A step of one thread that is outside OnData, or leaves it, without writing.
LEMMA SafeOutside ==
    ASSUME Base, NEW C, Safe(C), NEW t \in Threads, Others(t), UNCHANGED slot,
           pc'[t] \notin Using
    PROVE  Safe(C)'
<1>1. \A i \in Slots : SlotGood(C, i)'
  BY SlotStays DEF Safe
<1>2. ASSUME NEW u \in Threads PROVE ThreadGood(C, u)'
  <2>1. CASE u = t
    BY <2>1 DEF ThreadGood
  <2>2. CASE u # t
    BY <2>2, ThreadStays DEF Safe, Others
  <2> QED
    BY <2>1, <2>2
<1>3. Alone'
  BY AloneStays DEF Safe, Using
<1> QED
  BY <1>1, <1>2, <1>3 DEF Safe

LEMMA SafeElsewhere ==
    ASSUME Base, NEW C, Safe(C), UNCHANGED <<slot, pc, pkt, mine>>
    PROVE  Safe(C)'
BY DEF Safe, SlotGood, ThreadGood, Alone

LEMMA SafeFinds ==
    ASSUME Base, NEW C, Safe(C), NEW t \in Threads, Others(t), GetFinds(t)
    PROVE  Safe(C)'
<1>1. \A i \in Slots : SlotGood(C, i)'
  BY SlotStays DEF Safe, GetFinds
<1>2. ASSUME NEW u \in Threads PROVE ThreadGood(C, u)'
  <2>1. CASE u = t
    BY <2>1 DEF ThreadGood, GetFinds, Marked
  <2>2. CASE u # t
    BY <2>2, ThreadStays DEF Safe, Others, GetFinds
  <2> QED
    BY <2>1, <2>2
<1>3. Alone'
  BY AloneStays DEF Safe, GetFinds, Marked
<1> QED
  BY <1>1, <1>2, <1>3 DEF Safe

LEMMA SafeAssigns ==
    ASSUME Base, NEW C, Safe(C), NEW t \in Threads, pc[t] = "get", Others(t), NEW i \in Slots,
           slot'[i].M = pkt[t].M, slot'[i].cbMsg = pkt[t].len, slot'[i].cbNeed = pkt[t].len,
           slot'[i].bits = slot[i].bits, slot'[i].buf = slot[i].buf,
           Elsewhere(i), ~InUse(t, i), pc'[t] = "bit", mine'[t] = i, UNCHANGED pkt
    PROVE  Safe([C EXCEPT ![i] = {}])'
<1> DEFINE D == [C EXCEPT ![i] = {}]
<1>0. D \in [Slots -> SUBSET FragNo] /\ D[i] = {} /\ \A j \in Slots \ {i} : D[j] = C[j]
  BY DEF Safe
<1>p. pkt[t] \in Packets /\ pkt[t].len \in Nat
  BY Ready, PacketIs
<1> HIDE DEF D
<1>1. ASSUME NEW j \in Slots PROVE SlotGood(D, j)'
  <2>1. CASE j = i
    <3>1. Missing(pkt[t].len, {}) = pkt[t].len
      BY <1>p, MissingAtFirst
    <3> QED
      BY <2>1, <3>1, <1>0 DEF SlotGood
  <2>2. CASE j # i
    BY <2>2, <1>0 DEF SlotGood, Safe, Elsewhere
  <2> QED
    BY <2>1, <2>2
<1>2. ASSUME NEW u \in Threads PROVE ThreadGood(D, u)'
  <2>1. CASE u = t
    BY <2>1 DEF ThreadGood, Marked
  <2>2. CASE u # t /\ pc[u] \in Using
    <3>1. mine[u] \in Slots /\ mine[u] # i
      BY <2>2, Ready DEF InUse
    <3>2. slot'[mine[u]] = slot[mine[u]] /\ D[mine[u]] = C[mine[u]]
      BY <3>1, <1>0 DEF Elsewhere
    <3> QED
      BY <2>2, <3>2 DEF ThreadGood, Safe, Others
  <2>3. CASE u # t /\ pc[u] \notin Using
    BY <2>3 DEF ThreadGood, Others
  <2> QED
    BY <2>1, <2>2, <2>3
<1>3. Alone'
  BY AloneStays DEF Safe, Marked
<1>4. Safe(D)'
  BY <1>0, <1>1, <1>2, <1>3 DEF Safe
<1> QED
  BY <1>4 DEF D

\* What ThreadGood says of a thread that has a buffer.
LEMMA UserKnows ==
    ASSUME Base, NEW C, Safe(C), NEW t \in Threads, pc[t] \in Using
    PROVE  /\ mine[t] \in Slots /\ pkt[t] \in Packets
           /\ slot[mine[t]].M = pkt[t].M /\ slot[mine[t]].cbMsg = pkt[t].len
           /\ pc[t] \in Marked => pkt[t].N \in slot[mine[t]].bits /\ pkt[t].N \notin C[mine[t]]
           /\ pc[t] \in {"tick", "count"} => slot[mine[t]].buf[pkt[t].N] = pkt[t].msg
           /\ pc[t] = "user" => 0 .. Frags(pkt[t].len) - 1 \subseteq C[mine[t]]
           /\ pkt[t].N \in 0 .. Frags(pkt[t].len) - 1
           /\ SlotGood(C, mine[t])
<1>1. mine[t] \in Slots /\ pkt[t] \in Packets
  BY Ready DEF Using, Marked
<1>2. ThreadGood(C, t) /\ SlotGood(C, mine[t])
  BY <1>1 DEF Safe
<1>3. pkt[t].N \in 0 .. Frags(pkt[t].len) - 1
  <2>1. pkt[t].N \in Nat /\ pkt[t].N < Frags(pkt[t].len) /\ pkt[t].len \in Nat
    BY <1>1, PacketIs
  <2>2. Frags(pkt[t].len) \in Nat
    BY <2>1, FragsAreThere
  <2> QED
    BY <2>1, <2>2
<1> QED
  BY <1>1, <1>2, <1>3 DEF ThreadGood

\* Nobody reads a buffer while another thread writes a fragment of it.
LEMMA NoReader ==
    ASSUME Base, NEW C, Safe(C), NEW t \in Threads, NEW u \in Threads, pc[t] \in Using,
           pc[u] = "user", mine[u] = mine[t], pkt[t].N \notin C[mine[t]]
    PROVE  FALSE
<1>1. pc[u] \in Using
  BY DEF Using
<1>2. /\ 0 .. Frags(pkt[u].len) - 1 \subseteq C[mine[u]]
      /\ slot[mine[u]].cbMsg = pkt[u].len
  BY <1>1, UserKnows
<1>3. pkt[t].N \in 0 .. Frags(pkt[t].len) - 1 /\ slot[mine[t]].cbMsg = pkt[t].len
  BY UserKnows
<1> QED
  BY <1>2, <1>3

LEMMA SafeBit ==
    ASSUME Base, NEW C, Safe(C), NEW t \in Threads, pc[t] = "bit", pc'[t] = "copy", Others(t),
           NEW i \in Slots, i = mine[t], UNCHANGED <<pkt, mine>>, pkt[t].N \notin slot[i].bits,
           Elsewhere(i), slot'[i].bits = slot[i].bits \cup {pkt[t].N},
           slot'[i].M = slot[i].M, slot'[i].cbMsg = slot[i].cbMsg,
           slot'[i].cbNeed = slot[i].cbNeed, slot'[i].buf = slot[i].buf
    PROVE  Safe(C)'
<1>0. SlotGood(C, i) /\ pc[t] \in Using /\ pkt[t].N \notin C[i]
  BY DEF Safe, Using, SlotGood
<1>1. ASSUME NEW j \in Slots PROVE SlotGood(C, j)'
  BY <1>0 DEF SlotGood, Safe, Elsewhere
<1>2. ASSUME NEW u \in Threads PROVE ThreadGood(C, u)'
  <2>1. CASE u = t
    BY <2>1, <1>0, UserKnows DEF ThreadGood, Marked
  <2>2. CASE u # t /\ pc[u] \in Using
    <3>1. mine[u] \in Slots /\ ThreadGood(C, u)
      BY <2>2, Ready DEF Safe
    <3>2. CASE mine[u] = i
      BY <2>2, <3>1, <3>2 DEF ThreadGood, Others
    <3>3. CASE mine[u] # i
      BY <2>2, <3>1, <3>3, ThreadStays DEF Others, Elsewhere
    <3> QED
      BY <3>2, <3>3
  <2>3. CASE u # t /\ pc[u] \notin Using
    BY <2>3 DEF ThreadGood, Others
  <2> QED
    BY <2>1, <2>2, <2>3
<1>3. ASSUME NEW u \in Threads \ {t}, mine[u] = i, pc[u] \in Marked \cup {"user"}
      PROVE  pc[u] # "user" /\ pkt[u].N # pkt[t].N
  <2>1. pc[u] # "user"
    BY <1>0, <1>3, NoReader
  <2>2. pc[u] \in Using /\ pc[u] \in Marked
    BY <1>3, <2>1 DEF Using
  <2>3. pkt[u].N \in slot[i].bits
    BY <1>3, <2>2, UserKnows
  <2> QED
    BY <2>1, <2>3
<1>4. Alone'
  <2> SUFFICES ASSUME NEW a \in Threads, NEW b \in Threads, a # b, mine[a] = mine[b],
                    (pc[a] \in Marked \cup {"user"})', (pc[b] \in Marked \cup {"user"})'
               PROVE  pc'[a] # "user" /\ pkt[a].N # pkt[b].N
    BY DEF Alone
  <2>1. CASE a = t
    <3>1. b \in Threads \ {t} /\ mine[b] = i /\ pc[b] \in Marked \cup {"user"}
      BY <2>1 DEF Others
    <3>2. pkt[b].N # pkt[t].N
      BY <3>1, <1>3
    <3> QED
      BY <2>1, <3>2
  <2>2. CASE b = t
    <3>1. a \in Threads \ {t} /\ mine[a] = i /\ pc[a] \in Marked \cup {"user"} /\ pc'[a] = pc[a]
      BY <2>2 DEF Others
    <3>2. pc[a] # "user" /\ pkt[a].N # pkt[t].N
      BY <3>1, <1>3
    <3> QED
      BY <2>2, <3>1, <3>2
  <2>3. CASE a # t /\ b # t
    BY <2>3 DEF Safe, Alone, Others
  <2> QED
    BY <2>1, <2>2, <2>3
<1> QED
  BY <1>1, <1>2, <1>4 DEF Safe

LEMMA SafeCopy ==
    ASSUME Base, NEW C, Safe(C), NEW t \in Threads, pc[t] = "copy", pc'[t] = "tick", Others(t),
           NEW i \in Slots, i = mine[t], UNCHANGED <<pkt, mine>>, Elsewhere(i),
           slot'[i].bits = slot[i].bits,
           slot'[i].M = slot[i].M, slot'[i].cbMsg = slot[i].cbMsg,
           slot'[i].cbNeed = slot[i].cbNeed,
           slot'[i].buf = [slot[i].buf EXCEPT ![pkt[t].N] = pkt[t].msg]
    PROVE  Safe(C)'
<1>0. /\ SlotGood(C, i) /\ pc[t] \in Using /\ pc[t] \in Marked /\ pkt[t].N \notin C[i]
      /\ pkt[t] \in Packets
  <2>1. pc[t] \in Using /\ pc[t] \in Marked
    BY DEF Using, Marked
  <2> QED
    BY <2>1, UserKnows
<1>b. /\ slot[i].buf \in [FragNo -> Msgs \cup {0}] /\ pkt[t].N \in FragNo
      /\ C[i] \subseteq FragNo
  BY <1>0, SlotsAreTyped, PacketIs DEF Base, Safe
<1>c. /\ slot'[i].buf[pkt[t].N] = pkt[t].msg
      /\ \A n \in FragNo \ {pkt[t].N} : slot'[i].buf[n] = slot[i].buf[n]
  BY <1>b
<1>1. ASSUME NEW j \in Slots PROVE SlotGood(C, j)'
  <2>1. CASE j = i
    <3>1. \A n \in C[i] : slot'[i].buf[n] = slot[i].buf[n]
      BY <1>0, <1>b, <1>c
    <3> QED
      BY <1>0, <2>1, <3>1 DEF SlotGood
  <2>2. CASE j # i
    BY <2>2, SlotStays DEF Safe, Elsewhere
  <2> QED
    BY <2>1, <2>2
<1>2. ASSUME NEW u \in Threads PROVE ThreadGood(C, u)'
  <2>1. CASE u = t
    BY <2>1, <1>0, <1>c, UserKnows DEF ThreadGood, Marked
  <2>2. CASE u # t /\ pc[u] \in Using
    <3>1. mine[u] \in Slots /\ ThreadGood(C, u) /\ pkt[u] \in Packets /\ pkt[u].N \in FragNo
      BY <2>2, UserKnows, PacketIs DEF Safe
    <3>2. CASE mine[u] = i
      <4>1. pc[u] \in {"tick", "count"} => slot'[i].buf[pkt[u].N] = pkt[u].msg
        <5>1. SUFFICES ASSUME pc[u] \in {"tick", "count"}
                       PROVE  slot'[i].buf[pkt[u].N] = pkt[u].msg
          OBVIOUS
        <5>2. pkt[u].N # pkt[t].N
          BY <1>0, <2>2, <3>2, <5>1 DEF Safe, Alone, Marked
        <5>3. slot[i].buf[pkt[u].N] = pkt[u].msg
          BY <2>2, <3>1, <3>2, <5>1 DEF ThreadGood
        <5> QED
          BY <1>c, <3>1, <5>2, <5>3
      <4> QED
        BY <2>2, <3>1, <3>2, <4>1 DEF ThreadGood, Others
    <3>3. CASE mine[u] # i
      BY <2>2, <3>1, <3>3, ThreadStays DEF Others, Elsewhere
    <3> QED
      BY <3>2, <3>3
  <2>3. CASE u # t /\ pc[u] \notin Using
    BY <2>3 DEF ThreadGood, Others
  <2> QED
    BY <2>1, <2>2, <2>3
<1>3. Alone'
  BY <1>0, AloneStays DEF Safe
<1> QED
  BY <1>1, <1>2, <1>3 DEF Safe

LEMMA SafeTouch ==
    ASSUME Base, NEW C, Safe(C), NEW t \in Threads, pc[t] = "tick", pc'[t] = "count", Others(t),
           NEW i \in Slots, i = mine[t], UNCHANGED <<pkt, mine>>, Elsewhere(i),
           slot'[i].bits = slot[i].bits,
           slot'[i].M = slot[i].M, slot'[i].cbMsg = slot[i].cbMsg,
           slot'[i].cbNeed = slot[i].cbNeed, slot'[i].buf = slot[i].buf
    PROVE  Safe(C)'
<1>0. \A j \in Slots : /\ slot'[j].bits = slot[j].bits /\ slot'[j].M = slot[j].M
                       /\ slot'[j].cbMsg = slot[j].cbMsg /\ slot'[j].cbNeed = slot[j].cbNeed
                       /\ slot'[j].buf = slot[j].buf
  BY DEF Elsewhere
<1>1. \A j \in Slots : SlotGood(C, j)'
  BY <1>0 DEF SlotGood, Safe
<1>2. ASSUME NEW u \in Threads PROVE ThreadGood(C, u)'
  <2>1. CASE u = t
    <3>1. pc[t] \in Using /\ pc[t] \in Marked /\ pc[t] \in {"tick", "count"}
      BY DEF Using, Marked
    <3>2. /\ slot[i].M = pkt[t].M /\ slot[i].cbMsg = pkt[t].len
          /\ pkt[t].N \in slot[i].bits /\ pkt[t].N \notin C[i]
          /\ slot[i].buf[pkt[t].N] = pkt[t].msg
      BY <3>1, UserKnows
    <3> QED
      BY <1>0, <2>1, <3>2 DEF ThreadGood
  <2>2. CASE u # t /\ pc[u] \in Using
    <3>1. mine[u] \in Slots /\ ThreadGood(C, u)
      BY <2>2, Ready DEF Safe
    <3> QED
      BY <1>0, <2>2, <3>1 DEF ThreadGood, Others
  <2>3. CASE u # t /\ pc[u] \notin Using
    BY <2>3 DEF ThreadGood, Others
  <2> QED
    BY <2>1, <2>2, <2>3
<1>3. Alone'
  BY AloneStays DEF Safe, Marked
<1> QED
  BY <1>1, <1>2, <1>3 DEF Safe

\* The thread that finds nothing else missing finds every other fragment counted.
LEMMA LastIsWhole ==
    ASSUME Base, NEW C, Safe(C), NEW t \in Threads, pc[t] = "count",
           slot[mine[t]].cbNeed = pkt[t].cb
    PROVE  0 .. Frags(pkt[t].len) - 1 \subseteq C[mine[t]] \cup {pkt[t].N}
<1>1. pc[t] \in Using /\ pc[t] \in Marked
  BY DEF Using, Marked
<1>2. /\ pkt[t] \in Packets /\ mine[t] \in Slots /\ slot[mine[t]].cbMsg = pkt[t].len
      /\ pkt[t].N \notin C[mine[t]] /\ SlotGood(C, mine[t])
  BY <1>1, UserKnows
<1>3. PICK len \in Nat, n \in Nat, S \in SUBSET FragNo :
          len = pkt[t].len /\ n = pkt[t].N /\ S = C[mine[t]]
  BY <1>2, PacketIs DEF Safe
<1>4. n < Frags(len) /\ n \notin S /\ pkt[t].cb = FragLen(len, n)
  BY <1>2, <1>3, PacketIs
<1>5. len > 0 => FragLen(len, n) > 0
  BY <1>4, FragLenIs
<1>6. FragLen(len, n) <= 0 \/ FragLen(len, n) = Missing(len, S)
  BY <1>2, <1>3, <1>4 DEF SlotGood
<1>7. len = 0 \/ Missing(len, S) = FragLen(len, n)
  <2>1. FragLen(len, n) \in Int
    BY <1>4, FragLenIs
  <2> QED
    BY <1>5, <1>6, <2>1
<1>8. 0 .. Frags(len) - 1 \subseteq S \cup {n}
  BY <1>4, <1>7, NothingElseMissing
<1> QED
  BY <1>3, <1>8

LEMMA SafeCount ==
    ASSUME Base, NEW C, Safe(C), NEW t \in Threads, pc[t] = "count", Others(t),
           NEW i \in Slots, i = mine[t], NEW f \in Nat, f = pkt[t].N, Elsewhere(i),
           slot'[i].bits = slot[i].bits, slot'[i].M = slot[i].M, slot'[i].cbMsg = slot[i].cbMsg,
           slot'[i].cbNeed = slot[i].cbNeed - pkt[t].cb, slot'[i].buf = slot[i].buf,
           \/ pc'[t] = "user" /\ slot[i].cbNeed = pkt[t].cb /\ UNCHANGED <<pkt, mine>>
           \/ pc'[t] \notin Using
    PROVE  Safe([C EXCEPT ![i] = @ \cup {f}])'
<1> DEFINE D == [C EXCEPT ![i] = @ \cup {f}]
<1>a. /\ pc[t] \in Using /\ pc[t] \in Marked /\ pc[t] \in {"tick", "count"}
  BY DEF Using, Marked
<1>b. /\ pkt[t] \in Packets /\ slot[i].M = pkt[t].M /\ slot[i].cbMsg = pkt[t].len
      /\ pkt[t].N \in slot[i].bits /\ pkt[t].N \notin C[i]
      /\ slot[i].buf[pkt[t].N] = pkt[t].msg /\ SlotGood(C, i)
  BY <1>a, UserKnows
<1>0. /\ D \in [Slots -> SUBSET FragNo] /\ D[i] = C[i] \cup {f}
      /\ \A j \in Slots \ {i} : D[j] = C[j]
  BY <1>b, PacketIs DEF Safe
<1> HIDE DEF D
<1>1. ASSUME NEW j \in Slots PROVE SlotGood(D, j)'
  <2>1. CASE j = i
    <3>1. D[i] \subseteq slot'[i].bits
      BY <1>0, <1>b DEF SlotGood
    <3>2. \A n \in D[i] : slot'[i].buf[n] \in Msgs /\ Number(slot'[i].buf[n]) = slot'[i].M
      BY <1>0, <1>b, PacketIs DEF SlotGood
    <3>3. slot'[i].cbNeed <= 0 \/ slot'[i].cbNeed = Missing(slot'[i].cbMsg, D[i])
      <4>1. PICK len \in Nat, n \in Nat, S \in SUBSET FragNo :
                len = pkt[t].len /\ n = pkt[t].N /\ S = C[i]
        BY <1>b, PacketIs DEF Safe
      <4>2. n < Frags(len) /\ n \notin S /\ pkt[t].cb = FragLen(len, n) /\ pkt[t].cb \in Nat
        BY <1>b, <4>1, PacketIs
      <4>3. Missing(len, S \cup {n}) = Missing(len, S) - FragLen(len, n)
        BY <4>2, MissingLess
      <4>4. slot[i].cbNeed \in Int
        BY SlotsAreTyped DEF Base
      <4>5. slot[i].cbNeed <= 0 \/ slot[i].cbNeed = Missing(len, S)
        BY <1>b, <4>1 DEF SlotGood
      <4>6. slot'[i].cbNeed <= 0 \/ slot'[i].cbNeed = Missing(len, S \cup {n})
        BY <4>2, <4>3, <4>4, <4>5
      <4> QED
        BY <1>0, <1>b, <4>1, <4>6
    <3> QED
      BY <2>1, <3>1, <3>2, <3>3 DEF SlotGood
  <2>2. CASE j # i
    BY <2>2, <1>0 DEF SlotGood, Safe, Elsewhere
  <2> QED
    BY <2>1, <2>2
<1>w. pc'[t] = "user" => 0 .. Frags(pkt[t].len) - 1 \subseteq D[i]
  BY <1>0, LastIsWhole DEF Using
<1>2. ASSUME NEW u \in Threads PROVE ThreadGood(D, u)'
  <2>1. CASE u = t
    BY <2>1, <1>b, <1>w DEF ThreadGood, Marked
  <2>2. CASE u # t /\ pc[u] \in Using
    <3>1. mine[u] \in Slots /\ ThreadGood(C, u)
      BY <2>2, Ready DEF Safe
    <3>2. CASE mine[u] = i
      <4>1. pc[u] \in Marked => pkt[u].N # pkt[t].N
        BY <1>a, <2>2, <3>2 DEF Safe, Alone
      <4> QED
        BY <1>0, <2>2, <3>1, <3>2, <4>1 DEF ThreadGood, Others
    <3>3. CASE mine[u] # i
      <4>1. slot'[mine[u]] = slot[mine[u]] /\ D[mine[u]] = C[mine[u]]
        BY <1>0, <3>1, <3>3 DEF Elsewhere
      <4> QED
        BY <2>2, <3>1, <4>1 DEF ThreadGood, Others
    <3> QED
      BY <3>2, <3>3
  <2>3. CASE u # t /\ pc[u] \notin Using
    BY <2>3 DEF ThreadGood, Others
  <2> QED
    BY <2>1, <2>2, <2>3
<1>3. Alone'
  <2>1. CASE pc'[t] \notin Using
    BY <2>1, AloneStays DEF Safe, Using
  <2>2. CASE pc'[t] = "user" /\ slot[i].cbNeed = pkt[t].cb /\ UNCHANGED <<pkt, mine>>
    <3>1. ASSUME NEW u \in Threads \ {t}, mine[u] = i, pc[u] \in Marked \cup {"user"}
          PROVE  FALSE
      <4>1. pc[u] # "user"
        BY <1>a, <1>b, <3>1, NoReader
      <4>2. pc[u] \in Marked /\ pc[u] \in Using
        BY <3>1, <4>1 DEF Using
      <4>3. /\ pkt[u].N \notin C[i] /\ pkt[u].N \in 0 .. Frags(pkt[u].len) - 1
            /\ pkt[u].len = pkt[t].len
        BY <1>b, <3>1, <4>2, UserKnows
      <4>4. pkt[u].N # pkt[t].N
        BY <1>a, <3>1, <4>2 DEF Safe, Alone
      <4> QED
        BY <1>0, <1>w, <2>2, <4>3, <4>4
    <3> SUFFICES ASSUME NEW a \in Threads, NEW b \in Threads, a # b, mine[a] = mine[b],
                      (pc[a] \in Marked \cup {"user"})', (pc[b] \in Marked \cup {"user"})'
                 PROVE  pc'[a] # "user" /\ pkt[a].N # pkt[b].N
      BY <2>2 DEF Alone
    <3>2. CASE a # t /\ b # t
      BY <3>2 DEF Safe, Alone, Others
    <3>3. CASE a = t
      <4>1. b \in Threads \ {t} /\ mine[b] = i /\ pc[b] \in Marked \cup {"user"}
        BY <3>3 DEF Others
      <4> QED
        BY <3>1, <4>1
    <3>4. CASE b = t
      <4>1. a \in Threads \ {t} /\ mine[a] = i /\ pc[a] \in Marked \cup {"user"}
        BY <3>4 DEF Others
      <4> QED
        BY <3>1, <4>1
    <3> QED
      BY <3>2, <3>3, <3>4
  <2> QED
    BY <2>1, <2>2
<1>4. Safe(D)'
  BY <1>0, <1>1, <1>2, <1>3 DEF Safe
<1> QED
  BY <1>4 DEF D

LEMMA SafeUser ==
    ASSUME Base, NEW C, Safe(C), NEW t \in Threads, pc[t] = "user", pc'[t] \in {"idle", "fail"},
           Others(t),
           NEW i \in Slots, i = mine[t], Elsewhere(i),
           slot'[i].bits = {}, slot'[i].M = slot[i].M, slot'[i].cbMsg = slot[i].cbMsg,
           slot'[i].cbNeed = slot[i].cbNeed, slot'[i].buf = slot[i].buf
    PROVE  Safe([C EXCEPT ![i] = {}])'
<1> DEFINE D == [C EXCEPT ![i] = {}]
<1>a. pc[t] \in Using
  BY DEF Using
<1>b. /\ pkt[t] \in Packets /\ slot[i].cbMsg = pkt[t].len
      /\ 0 .. Frags(pkt[t].len) - 1 \subseteq C[i] /\ SlotGood(C, i)
  BY <1>a, UserKnows
<1>0. D \in [Slots -> SUBSET FragNo] /\ D[i] = {} /\ \A j \in Slots \ {i} : D[j] = C[j]
  BY DEF Safe
<1> HIDE DEF D
<1>1. ASSUME NEW j \in Slots PROVE SlotGood(D, j)'
  <2>1. CASE j = i
    <3>1. Missing(pkt[t].len, C[i]) = 0
      BY <1>b, NothingMissing, PacketIs
    <3>2. slot[i].cbNeed <= 0
      BY <1>b, <3>1 DEF SlotGood
    <3> QED
      BY <2>1, <3>2, <1>0 DEF SlotGood
  <2>2. CASE j # i
    BY <2>2, <1>0 DEF SlotGood, Safe, Elsewhere
  <2> QED
    BY <2>1, <2>2
<1>2. ASSUME NEW u \in Threads PROVE ThreadGood(D, u)'
  <2>1. CASE u = t
    BY <2>1 DEF ThreadGood, Using, Marked
  <2>2. CASE u # t /\ pc[u] \in Using
    <3>1. mine[u] \in Slots /\ ThreadGood(C, u)
      BY <2>2, Ready DEF Safe
    <3>2. CASE mine[u] = i
      <4>1. pc[u] \notin Marked \cup {"user"}
        BY <2>2, <3>2 DEF Safe, Alone
      <4>2. pc[u] = "bit"
        BY <2>2, <4>1 DEF Using
      <4> QED
        BY <2>2, <3>1, <3>2, <4>2 DEF ThreadGood, Others, Marked
    <3>3. CASE mine[u] # i
      <4>1. slot'[mine[u]] = slot[mine[u]] /\ D[mine[u]] = C[mine[u]]
        BY <1>0, <3>1, <3>3 DEF Elsewhere
      <4> QED
        BY <2>2, <3>1, <4>1 DEF ThreadGood, Others
    <3> QED
      BY <3>2, <3>3
  <2>3. CASE u # t /\ pc[u] \notin Using
    BY <2>3 DEF ThreadGood, Others
  <2> QED
    BY <2>1, <2>2, <2>3
<1>3. Alone'
  BY AloneStays DEF Safe, Marked
<1>4. Safe(D)'
  BY <1>0, <1>1, <1>2, <1>3 DEF Safe
<1> QED
  BY <1>4 DEF D

-----------------------------------------------------------------------------
\* The balance of deliveries and arrivals: a copy of a fragment that arrived is
\* in a thread's hands, in a buffer, used up by a delivery, or dropped.

Waits == {"lock", "get", "bit"}
Waiting(k, n) == {t \in Threads : pc[t] \in Waits /\ pkt[t].msg = k /\ pkt[t].N = n}
Writes(t, i, k, n) == pc[t] \in Marked /\ mine[t] = i /\ pkt[t].msg = k /\ pkt[t].N = n
Read(i) == \E t \in Threads : pc[t] = "user" /\ mine[t] = i
Kept(C, k, n) ==
    {i \in Slots : \/ \E t \in Threads : Writes(t, i, k, n)
                   \/ n \in C[i] /\ slot[i].buf[n] = k /\ ~Read(i)}
Balanced(C, k, n) ==
    delivered[k] + Cardinality(Waiting(k, n)) + Cardinality(Kept(C, k, n)) <= arrived[k][n]
Counted(C) == \A k \in Msgs : \A n \in FragNo : n < Frags(MsgLens[k]) => Balanced(C, k, n)

\* The messages the receiver has a packet of, in a thread or in a buffer.
Held(i) == {slot[i].buf[n] : n \in
    {m \in slot[i].bits : \A t \in Threads : ~(pc[t] = "copy" /\ mine[t] = i /\ pkt[t].N = m)}}
Around == {pkt[t].msg : t \in {u \in Threads : pc[u] # "idle"}} \cup UNION {Held(i) : i \in Slots}

\* No two of them have the same 16-bit number.
NumbersDiffer == \A j, k \in Around \cap Msgs : Number(j) = Number(k) => j = k

LEMMA CountsAreNumbers ==
    ASSUME Base, NEW C, NEW k \in Msgs, NEW n \in FragNo
    PROVE  /\ IsFiniteSet(Waiting(k, n)) /\ Cardinality(Waiting(k, n)) \in Nat
           /\ IsFiniteSet(Kept(C, k, n)) /\ Cardinality(Kept(C, k, n)) \in Nat
           /\ delivered[k] \in Nat /\ arrived[k][n] \in Nat
<1>1. Waiting(k, n) \in SUBSET Threads /\ IsFiniteSet(Threads)
  BY ThreadsAssumption DEF Waiting
<1>2. Kept(C, k, n) \in SUBSET Slots
  BY DEF Kept
<1>3. IsFiniteSet(Slots)
  BY FS_Interval, Sizes DEF Slots
<1>4. IsFiniteSet(Waiting(k, n)) /\ IsFiniteSet(Kept(C, k, n))
  BY <1>1, <1>2, <1>3, FS_Subset
<1>5. delivered[k] \in Nat /\ arrived[k][n] \in Nat
  BY DEF Base, TypeOK
<1> QED
  BY <1>4, <1>5, FS_CardinalityType

\* The four ways a step can change the balance of one fragment.
LEMMA BalanceStays ==
    ASSUME Base, NEW C, NEW D, NEW k \in Msgs, NEW n \in FragNo, Balanced(C, k, n),
           Waiting(k, n)' \subseteq Waiting(k, n), Kept(D, k, n)' \subseteq Kept(C, k, n),
           delivered'[k] = delivered[k], arrived'[k][n] = arrived[k][n]
    PROVE  Balanced(D, k, n)'
<1>0. /\ IsFiniteSet(Waiting(k, n)) /\ Cardinality(Waiting(k, n)) \in Nat
      /\ IsFiniteSet(Kept(C, k, n)) /\ Cardinality(Kept(C, k, n)) \in Nat
      /\ delivered[k] \in Nat /\ arrived[k][n] \in Nat
  BY CountsAreNumbers
<1>1. /\ Cardinality(Waiting(k, n)') <= Cardinality(Waiting(k, n))
      /\ Cardinality(Waiting(k, n)') \in Nat
  BY <1>0, FS_Subset, FS_CardinalityType
<1>2. /\ Cardinality(Kept(D, k, n)') <= Cardinality(Kept(C, k, n))
      /\ Cardinality(Kept(D, k, n)') \in Nat
  BY <1>0, FS_Subset, FS_CardinalityType
<1> QED
  BY <1>0, <1>1, <1>2 DEF Balanced

LEMMA BalanceArrives ==
    ASSUME Base, NEW C, NEW D, NEW k \in Msgs, NEW n \in FragNo, Balanced(C, k, n),
           NEW t \in Threads,
           Waiting(k, n)' \subseteq Waiting(k, n) \cup {t}, Kept(D, k, n)' \subseteq Kept(C, k, n),
           delivered'[k] = delivered[k], arrived'[k][n] = arrived[k][n] + 1
    PROVE  Balanced(D, k, n)'
<1>0. /\ IsFiniteSet(Waiting(k, n)) /\ Cardinality(Waiting(k, n)) \in Nat
      /\ IsFiniteSet(Kept(C, k, n)) /\ Cardinality(Kept(C, k, n)) \in Nat
      /\ delivered[k] \in Nat /\ arrived[k][n] \in Nat
  BY CountsAreNumbers
<1>a. /\ IsFiniteSet(Waiting(k, n) \cup {t})
      /\ Cardinality(Waiting(k, n) \cup {t}) <= Cardinality(Waiting(k, n)) + 1
  <2>1. /\ IsFiniteSet(Waiting(k, n) \cup {t})
        /\ \/ Cardinality(Waiting(k, n) \cup {t}) = Cardinality(Waiting(k, n))
           \/ Cardinality(Waiting(k, n) \cup {t}) = Cardinality(Waiting(k, n)) + 1
    BY <1>0, FS_AddElement, Zenon
  <2> QED
    BY <1>0, <2>1
<1>1. /\ Cardinality(Waiting(k, n)') <= Cardinality(Waiting(k, n)) + 1
      /\ Cardinality(Waiting(k, n)') \in Nat
  <2>1. /\ Cardinality(Waiting(k, n)') <= Cardinality(Waiting(k, n) \cup {t})
        /\ IsFiniteSet(Waiting(k, n)')
    BY <1>a, FS_Subset
  <2>2. Cardinality(Waiting(k, n)') \in Nat /\ Cardinality(Waiting(k, n) \cup {t}) \in Nat
    BY <1>a, <2>1, FS_CardinalityType
  <2> QED
    BY <1>0, <1>a, <2>1, <2>2
<1>2. /\ Cardinality(Kept(D, k, n)') <= Cardinality(Kept(C, k, n))
      /\ Cardinality(Kept(D, k, n)') \in Nat
  BY <1>0, FS_Subset, FS_CardinalityType
<1> QED
  BY <1>0, <1>1, <1>2 DEF Balanced

LEMMA BalanceMoves ==
    ASSUME Base, NEW C, NEW D, NEW k \in Msgs, NEW n \in FragNo, Balanced(C, k, n),
           NEW t \in Waiting(k, n), NEW i,
           Waiting(k, n)' \subseteq Waiting(k, n) \ {t},
           Kept(D, k, n)' \subseteq Kept(C, k, n) \cup {i},
           delivered'[k] = delivered[k], arrived'[k][n] = arrived[k][n]
    PROVE  Balanced(D, k, n)'
<1>0. /\ IsFiniteSet(Waiting(k, n)) /\ Cardinality(Waiting(k, n)) \in Nat
      /\ IsFiniteSet(Kept(C, k, n)) /\ Cardinality(Kept(C, k, n)) \in Nat
      /\ delivered[k] \in Nat /\ arrived[k][n] \in Nat
  BY CountsAreNumbers
<1>a. /\ IsFiniteSet(Waiting(k, n) \ {t})
      /\ Cardinality(Waiting(k, n) \ {t}) = Cardinality(Waiting(k, n)) - 1
  BY <1>0, FS_RemoveElement
<1>b. /\ IsFiniteSet(Kept(C, k, n) \cup {i})
      /\ Cardinality(Kept(C, k, n) \cup {i}) <= Cardinality(Kept(C, k, n)) + 1
  <2>1. /\ IsFiniteSet(Kept(C, k, n) \cup {i})
        /\ \/ Cardinality(Kept(C, k, n) \cup {i}) = Cardinality(Kept(C, k, n))
           \/ Cardinality(Kept(C, k, n) \cup {i}) = Cardinality(Kept(C, k, n)) + 1
    BY <1>0, FS_AddElement, Zenon
  <2> QED
    BY <1>0, <2>1
<1>1. /\ Cardinality(Waiting(k, n)') <= Cardinality(Waiting(k, n)) - 1
      /\ Cardinality(Waiting(k, n)') \in Nat
  BY <1>a, FS_Subset, FS_CardinalityType
<1>2. /\ Cardinality(Kept(D, k, n)') <= Cardinality(Kept(C, k, n)) + 1
      /\ Cardinality(Kept(D, k, n)') \in Nat
  <2>1. /\ Cardinality(Kept(D, k, n)') <= Cardinality(Kept(C, k, n) \cup {i})
        /\ IsFiniteSet(Kept(D, k, n)')
    BY <1>b, FS_Subset
  <2>2. Cardinality(Kept(D, k, n)') \in Nat /\ Cardinality(Kept(C, k, n) \cup {i}) \in Nat
    BY <1>b, <2>1, FS_CardinalityType
  <2> QED
    BY <1>0, <1>b, <2>1, <2>2
<1> QED
  BY <1>0, <1>1, <1>2 DEF Balanced

LEMMA BalanceDelivers ==
    ASSUME Base, NEW C, NEW D, NEW k \in Msgs, NEW n \in FragNo, Balanced(C, k, n),
           NEW i \in Kept(C, k, n),
           Waiting(k, n)' \subseteq Waiting(k, n), Kept(D, k, n)' \subseteq Kept(C, k, n) \ {i},
           delivered'[k] = delivered[k] + 1, arrived'[k][n] = arrived[k][n]
    PROVE  Balanced(D, k, n)'
<1>0. /\ IsFiniteSet(Waiting(k, n)) /\ Cardinality(Waiting(k, n)) \in Nat
      /\ IsFiniteSet(Kept(C, k, n)) /\ Cardinality(Kept(C, k, n)) \in Nat
      /\ delivered[k] \in Nat /\ arrived[k][n] \in Nat
  BY CountsAreNumbers
<1>a. /\ IsFiniteSet(Kept(C, k, n) \ {i})
      /\ Cardinality(Kept(C, k, n) \ {i}) = Cardinality(Kept(C, k, n)) - 1
  BY <1>0, FS_RemoveElement
<1>1. /\ Cardinality(Waiting(k, n)') <= Cardinality(Waiting(k, n))
      /\ Cardinality(Waiting(k, n)') \in Nat
  BY <1>0, FS_Subset, FS_CardinalityType
<1>2. /\ Cardinality(Kept(D, k, n)') <= Cardinality(Kept(C, k, n)) - 1
      /\ Cardinality(Kept(D, k, n)') \in Nat
  BY <1>a, FS_Subset, FS_CardinalityType
<1> QED
  BY <1>0, <1>1, <1>2 DEF Balanced

\* A thread that neither starts to wait nor starts to write adds nothing.
LEMMA WaitingStays ==
    ASSUME NEW t \in Threads, Others(t), NEW k, NEW n,
           pc'[t] \in Waits => pc[t] \in Waits /\ pkt'[t] = pkt[t]
    PROVE  Waiting(k, n)' \subseteq Waiting(k, n)
BY DEF Waiting, Others

LEMMA ReadStays ==
    ASSUME NEW t \in Threads, Others(t), NEW j, pc[t] = "user" => mine[t] # j
    PROVE  Read(j) => Read(j)'
BY DEF Read, Others

LEMMA KeptStays ==
    ASSUME NEW C, NEW t \in Threads, Others(t), NEW k, NEW n, UNCHANGED slot,
           pc[t] # "user", pc'[t] \notin Marked
    PROVE  Kept(C, k, n)' \subseteq Kept(C, k, n)
<1> SUFFICES ASSUME NEW j \in Kept(C, k, n)' PROVE j \in Kept(C, k, n)
  OBVIOUS
<1>1. j \in Slots
  BY DEF Kept
<1>2. CASE \E u \in Threads : Writes(u, j, k, n)'
  <2>1. PICK u \in Threads : Writes(u, j, k, n)'
    BY <1>2
  <2>2. u # t
    BY <2>1 DEF Writes
  <2>3. Writes(u, j, k, n)
    BY <2>1, <2>2 DEF Writes, Others
  <2> QED
    BY <1>1, <2>3 DEF Kept
<1>3. CASE n \in C[j] /\ (slot[j].buf[n] = k)' /\ ~Read(j)'
  BY <1>1, <1>3, ReadStays DEF Kept
<1> QED
  BY <1>2, <1>3 DEF Kept

LEMMA CountedOutside ==
    ASSUME Base, NEW C, Counted(C), NEW t \in Threads, Others(t),
           UNCHANGED <<slot, delivered, arrived>>,
           pc[t] # "user", pc'[t] \notin Marked,
           pc'[t] \in Waits => pc[t] \in Waits /\ pkt'[t] = pkt[t]
    PROVE  Counted(C)'
<1> SUFFICES ASSUME NEW k \in Msgs, NEW n \in FragNo, n < Frags(MsgLens[k])
             PROVE  Balanced(C, k, n)'
  BY DEF Counted
<1>1. Balanced(C, k, n)
  BY DEF Counted
<1>2. Waiting(k, n)' \subseteq Waiting(k, n) /\ Kept(C, k, n)' \subseteq Kept(C, k, n)
  BY WaitingStays, KeptStays
<1> QED
  BY <1>1, <1>2, BalanceStays

LEMMA CountedElsewhere ==
    ASSUME NEW C, Counted(C), UNCHANGED <<slot, pc, pkt, mine, delivered, arrived>>
    PROVE  Counted(C)'
BY DEF Counted, Balanced, Waiting, Kept, Writes, Read

LEMMA CountedRecv ==
    ASSUME Base, NEW C, Counted(C), NEW t \in Threads, Others(t), RecvTakes(t),
           UNCHANGED <<slot, delivered>>, pc[t] = "idle"
    PROVE  Counted(C)'
<1>1. PICK p \in Packets : /\ pc'[t] = "lock" /\ pkt'[t] = p
                           /\ arrived' = [arrived EXCEPT ![p.msg][p.N] = @ + 1]
  BY DEF RecvTakes
<1>2. p.msg \in Msgs /\ p.N \in FragNo /\ arrived \in [Msgs -> [FragNo -> Nat]]
  BY PacketIs DEF Base, TypeOK
<1> SUFFICES ASSUME NEW k \in Msgs, NEW n \in FragNo, n < Frags(MsgLens[k])
             PROVE  Balanced(C, k, n)'
  BY DEF Counted
<1>3. Balanced(C, k, n) /\ Kept(C, k, n)' \subseteq Kept(C, k, n)
  BY <1>1, KeptStays DEF Counted, Marked
<1>4. CASE k = p.msg /\ n = p.N
  <2>1. Waiting(k, n)' \subseteq Waiting(k, n) \cup {t}
    BY DEF Waiting, Others
  <2>2. arrived'[k][n] = arrived[k][n] + 1
    BY <1>1, <1>2, <1>4
  <2> QED
    BY <1>3, <2>1, <2>2, BalanceArrives
<1>5. CASE ~(k = p.msg /\ n = p.N)
  <2>1. Waiting(k, n)' \subseteq Waiting(k, n)
    BY <1>1, <1>5 DEF Waiting, Others
  <2>2. arrived'[k][n] = arrived[k][n]
    BY <1>1, <1>2, <1>5
  <2> QED
    BY <1>3, <2>1, <2>2, BalanceStays
<1> QED
  BY <1>4, <1>5

LEMMA CountedAssigns ==
    ASSUME Base, NEW C, Safe(C), Counted(C), NEW t \in Threads, pc[t] = "get", Others(t),
           NEW i \in Slots, Elsewhere(i), ~InUse(t, i), pc'[t] = "bit", mine'[t] = i,
           UNCHANGED <<pkt, delivered, arrived>>
    PROVE  Counted([C EXCEPT ![i] = {}])'
<1> DEFINE D == [C EXCEPT ![i] = {}]
<1>0. D[i] = {} /\ \A j \in Slots \ {i} : D[j] = C[j]
  BY DEF Safe
<1> HIDE DEF D
<1>1. ASSUME NEW k \in Msgs, NEW n \in FragNo, n < Frags(MsgLens[k])
      PROVE  Balanced(D, k, n)'
  <2>1. Balanced(C, k, n)
    BY <1>1 DEF Counted
  <2>2. Waiting(k, n)' \subseteq Waiting(k, n)
    BY WaitingStays DEF Waits
  <2>3. ASSUME NEW j \in Kept(D, k, n)' PROVE j \in Kept(C, k, n)
    <3>1. j \in Slots
      BY <2>3 DEF Kept
    <3>2. CASE \E u \in Threads : Writes(u, j, k, n)'
      <4>1. PICK u \in Threads : Writes(u, j, k, n)'
        BY <3>2
      <4>2. u # t
        BY <4>1 DEF Writes, Marked
      <4>3. Writes(u, j, k, n)
        BY <4>1, <4>2 DEF Writes, Others
      <4> QED
        BY <3>1, <4>3 DEF Kept
    <3>3. CASE n \in D[j] /\ (slot[j].buf[n] = k)' /\ ~Read(j)'
      <4>1. j # i
        BY <1>0, <3>3
      <4>2. n \in C[j] /\ slot[j].buf[n] = k
        BY <1>0, <3>1, <3>3, <4>1 DEF Elsewhere
      <4> QED
        BY <3>1, <3>3, <4>2, ReadStays DEF Kept
    <3> QED
      BY <2>3, <3>2, <3>3 DEF Kept
  <2> QED
    BY <2>1, <2>2, <2>3, BalanceStays
<1>2. Counted(D)'
  BY <1>1 DEF Counted
<1> QED
  BY <1>2 DEF D

LEMMA CountedBit ==
    ASSUME Base, NEW C, Safe(C), Counted(C), NEW t \in Threads, pc[t] = "bit", pc'[t] = "copy",
           Others(t), NEW i \in Slots, i = mine[t], Elsewhere(i), slot'[i].buf = slot[i].buf,
           UNCHANGED <<pkt, mine, delivered, arrived>>
    PROVE  Counted(C)'
<1> SUFFICES ASSUME NEW k \in Msgs, NEW n \in FragNo, n < Frags(MsgLens[k])
             PROVE  Balanced(C, k, n)'
  BY DEF Counted
<1>1. Balanced(C, k, n)
  BY DEF Counted
<1>2. ASSUME NEW j \in Kept(C, k, n)' PROVE j \in Kept(C, k, n) \/ (j = i /\ Writes(t, j, k, n)')
  <2>1. j \in Slots /\ slot'[j].buf = slot[j].buf
    BY <1>2 DEF Kept, Elsewhere
  <2>2. CASE \E u \in Threads : Writes(u, j, k, n)'
    <3>1. PICK u \in Threads : Writes(u, j, k, n)'
      BY <2>2
    <3>2. CASE u = t
      BY <3>1, <3>2 DEF Writes
    <3>3. CASE u # t
      <4>1. Writes(u, j, k, n)
        BY <3>1, <3>3 DEF Writes, Others
      <4> QED
        BY <2>1, <4>1 DEF Kept
    <3> QED
      BY <3>2, <3>3
  <2>3. CASE n \in C[j] /\ (slot[j].buf[n] = k)' /\ ~Read(j)'
    BY <2>1, <2>3, ReadStays DEF Kept
  <2> QED
    BY <1>2, <2>2, <2>3 DEF Kept
<1>3. Waiting(k, n)' \subseteq Waiting(k, n) \ {t}
  BY DEF Waiting, Others, Waits
<1>4. CASE pkt[t].msg = k /\ pkt[t].N = n
  <2>1. t \in Waiting(k, n)
    BY <1>4 DEF Waiting, Waits
  <2>2. Kept(C, k, n)' \subseteq Kept(C, k, n) \cup {i}
    BY <1>2
  <2> QED
    BY <1>1, <1>3, <2>1, <2>2, BalanceMoves
<1>5. CASE ~(pkt[t].msg = k /\ pkt[t].N = n)
  <2>1. Kept(C, k, n)' \subseteq Kept(C, k, n)
    BY <1>2, <1>5 DEF Writes
  <2> QED
    BY <1>1, <1>3, <2>1, BalanceStays
<1> QED
  BY <1>4, <1>5

\* A thread that goes on writing the same fragment.
LEMMA CountedWrites ==
    ASSUME Base, NEW C, Safe(C), Counted(C), NEW t \in Threads, pc[t] \in Marked,
           pc'[t] \in Marked, Others(t), NEW i \in Slots, i = mine[t], Elsewhere(i),
           \A n \in C[i] : slot'[i].buf[n] = slot[i].buf[n],
           UNCHANGED <<pkt, mine, delivered, arrived>>
    PROVE  Counted(C)'
<1> SUFFICES ASSUME NEW k \in Msgs, NEW n \in FragNo, n < Frags(MsgLens[k])
             PROVE  Balanced(C, k, n)'
  BY DEF Counted
<1>1. Balanced(C, k, n)
  BY DEF Counted
<1>2. Waiting(k, n)' \subseteq Waiting(k, n)
  BY WaitingStays DEF Waits, Marked
<1>3. ASSUME NEW j \in Kept(C, k, n)' PROVE j \in Kept(C, k, n)
  <2>1. j \in Slots
    BY <1>3 DEF Kept
  <2>2. CASE \E u \in Threads : Writes(u, j, k, n)'
    <3>1. PICK u \in Threads : Writes(u, j, k, n)'
      BY <2>2
    <3>2. Writes(u, j, k, n)
      BY <3>1 DEF Writes, Others
    <3> QED
      BY <2>1, <3>2 DEF Kept
  <2>3. CASE n \in C[j] /\ (slot[j].buf[n] = k)' /\ ~Read(j)'
    <3>1. slot[j].buf[n] = k
      BY <2>1, <2>3 DEF Elsewhere
    <3>2. ~Read(j)
      BY <2>3, ReadStays DEF Marked
    <3> QED
      BY <2>1, <2>3, <3>1, <3>2 DEF Kept
  <2> QED
    BY <1>3, <2>2, <2>3 DEF Kept
<1> QED
  BY <1>1, <1>2, <1>3, BalanceStays

\* What is counted in a buffer somebody is using belongs to a message at hand.
LEMMA CountedIsAround ==
    ASSUME Base, NEW C, Safe(C), NumbersDiffer, NEW t \in Threads, pc[t] \in Using,
           NEW n \in C[mine[t]]
    PROVE  slot[mine[t]].buf[n] = pkt[t].msg
<1>1. /\ mine[t] \in Slots /\ pkt[t] \in Packets /\ slot[mine[t]].M = pkt[t].M
      /\ SlotGood(C, mine[t])
  BY UserKnows
<1>2. /\ n \in slot[mine[t]].bits /\ slot[mine[t]].buf[n] \in Msgs
      /\ Number(slot[mine[t]].buf[n]) = pkt[t].M
  BY <1>1 DEF SlotGood
<1>3. ASSUME NEW u \in Threads, pc[u] = "copy", mine[u] = mine[t], pkt[u].N = n PROVE FALSE
  <2>1. pc[u] \in Using /\ pc[u] \in Marked
    BY <1>3 DEF Using, Marked
  <2> QED
    BY <1>3, <2>1, UserKnows
<1>4. slot[mine[t]].buf[n] \in Held(mine[t])
  BY <1>2, <1>3 DEF Held
<1>5. slot[mine[t]].buf[n] \in Around
  BY <1>1, <1>4 DEF Around
<1>6. pkt[t].msg \in Around
  BY DEF Around, Using, Marked
<1>7. pkt[t].msg \in Msgs /\ Number(pkt[t].msg) = pkt[t].M
  BY <1>1, PacketIs
<1> QED
  BY <1>2, <1>5, <1>6, <1>7 DEF NumbersDiffer

LEMMA CountedCount ==
    ASSUME Base, NEW C, Safe(C), Counted(C), NumbersDiffer,
           NEW t \in Threads, pc[t] = "count", Others(t),
           NEW i \in Slots, i = mine[t], NEW f \in Nat, f = pkt[t].N, Elsewhere(i),
           slot'[i].buf = slot[i].buf, UNCHANGED arrived,
           \/ /\ pc'[t] = "user" /\ slot[i].cbNeed = pkt[t].cb /\ UNCHANGED <<pkt, mine>>
              /\ delivered' = [delivered EXCEPT ![pkt[t].msg] = @ + 1]
           \/ pc'[t] \in {"fail", "idle"} /\ UNCHANGED delivered
    PROVE  Counted([C EXCEPT ![i] = @ \cup {f}])'
<1> DEFINE D == [C EXCEPT ![i] = @ \cup {f}]
<1>0. D[i] = C[i] \cup {f} /\ \A j \in Slots \ {i} : D[j] = C[j]
  BY DEF Safe
<1> HIDE DEF D
<1>a. pc[t] \in Using /\ pc[t] \in Marked /\ pc[t] \in {"tick", "count"}
  BY DEF Using, Marked
<1>b. /\ pkt[t] \in Packets /\ pkt[t].msg \in Msgs /\ pkt[t].len = MsgLens[pkt[t].msg]
      /\ slot[i].buf[f] = pkt[t].msg /\ f \notin C[i]
  BY <1>a, UserKnows, PacketIs
<1>1. ASSUME NEW k \in Msgs, NEW n \in FragNo, n < Frags(MsgLens[k])
      PROVE  Balanced(D, k, n)'
  <2>1. Balanced(C, k, n)
    BY <1>1 DEF Counted
  <2>2. Waiting(k, n)' \subseteq Waiting(k, n)
    BY WaitingStays DEF Waits
  <2>3. ASSUME NEW j \in Kept(D, k, n)' PROVE j \in Kept(C, k, n)
    <3>1. j \in Slots /\ slot'[j].buf = slot[j].buf
      BY <2>3 DEF Kept, Elsewhere
    <3>2. CASE \E u \in Threads : Writes(u, j, k, n)'
      <4>1. PICK u \in Threads : Writes(u, j, k, n)'
        BY <3>2
      <4>2. u # t
        BY <4>1 DEF Writes, Marked
      <4>3. Writes(u, j, k, n)
        BY <4>1, <4>2 DEF Writes, Others
      <4> QED
        BY <3>1, <4>3 DEF Kept
    <3>3. CASE n \in D[j] /\ (slot[j].buf[n] = k)' /\ ~Read(j)'
      <4>1. slot[j].buf[n] = k /\ ~Read(j)
        BY <3>1, <3>3, ReadStays
      <4>2. CASE n \in C[j]
        BY <3>1, <4>1, <4>2 DEF Kept
      <4>3. CASE n \notin C[j]
        <5>1. j = i /\ n = f
          BY <1>0, <3>1, <3>3, <4>3
        <5>2. Writes(t, j, k, n)
          BY <1>a, <1>b, <4>1, <5>1 DEF Writes
        <5> QED
          BY <3>1, <5>2 DEF Kept
      <4> QED
        BY <4>2, <4>3
    <3> QED
      BY <2>3, <3>2, <3>3 DEF Kept
  <2>4. CASE delivered'[k] = delivered[k]
    BY <2>1, <2>2, <2>3, <2>4, BalanceStays
  <2>5. CASE delivered'[k] # delivered[k]
    <3>0. /\ pc'[t] = "user" /\ slot[i].cbNeed = pkt[t].cb /\ UNCHANGED <<pkt, mine>>
          /\ delivered' = [delivered EXCEPT ![pkt[t].msg] = @ + 1]
      BY <2>5
    <3>1. delivered \in [Msgs -> Nat]
      BY DEF Base, TypeOK
    <3>2. k = pkt[t].msg /\ delivered'[k] = delivered[k] + 1
      BY <2>5, <3>0, <3>1
    <3>3. n \in C[i] \/ n = f
      <4>1. 0 .. Frags(pkt[t].len) - 1 \subseteq C[i] \cup {f}
        BY <3>0, LastIsWhole
      <4>2. n \in Nat /\ Frags(pkt[t].len) \in Nat /\ n < Frags(pkt[t].len)
        BY <1>1, <1>b, <3>2, PacketIs, FragsAreThere DEF FragNo
      <4> QED
        BY <4>1, <4>2
    <3>4. i \in Kept(C, k, n)
      <4>1. CASE n = f
        <5>1. Writes(t, i, k, n)
          BY <1>a, <3>2, <4>1 DEF Writes
        <5> QED
          BY <5>1 DEF Kept
      <4>2. CASE n \in C[i]
        <5>1. slot[i].buf[n] = k
          BY <1>a, <3>2, <4>2, CountedIsAround
        <5>2. ~Read(i)
          BY <1>a, <1>b, NoReader DEF Read
        <5> QED
          BY <4>2, <5>1, <5>2 DEF Kept
      <4> QED
        BY <3>3, <4>1, <4>2
    <3>5. i \notin Kept(D, k, n)'
      <4>1. Read(i)'
        BY <3>0 DEF Read
      <4>2. ASSUME NEW u \in Threads, Writes(u, i, k, n)' PROVE FALSE
        <5>1. u # t /\ pc[u] \in Marked /\ mine[u] = i /\ pkt[u].N = n /\ mine[t] = i
          BY <3>0, <4>2 DEF Writes, Others, Marked
        <5>2. pkt[u].N # pkt[t].N
          BY <1>a, <5>1 DEF Safe, Alone
        <5>3. pkt[u].N \notin C[mine[u]]
          BY <5>1, UserKnows DEF Using
        <5> QED
          BY <3>3, <5>1, <5>2, <5>3
      <4> QED
        BY <4>1, <4>2 DEF Kept
    <3>6. Kept(D, k, n)' \subseteq Kept(C, k, n) \ {i}
      BY <2>3, <3>5
    <3> QED
      BY <2>1, <2>2, <3>2, <3>4, <3>6, BalanceDelivers
  <2> QED
    BY <2>4, <2>5
<1>2. Counted(D)'
  BY <1>1 DEF Counted
<1> QED
  BY <1>2 DEF D

LEMMA CountedUser ==
    ASSUME Base, NEW C, Safe(C), Counted(C), NEW t \in Threads, pc[t] = "user",
           pc'[t] \in {"idle", "fail"}, Others(t), NEW i \in Slots, i = mine[t], Elsewhere(i),
           UNCHANGED <<delivered, arrived>>
    PROVE  Counted([C EXCEPT ![i] = {}])'
<1> DEFINE D == [C EXCEPT ![i] = {}]
<1>0. D[i] = {} /\ \A j \in Slots \ {i} : D[j] = C[j]
  BY DEF Safe
<1> HIDE DEF D
<1>1. ASSUME NEW k \in Msgs, NEW n \in FragNo, n < Frags(MsgLens[k])
      PROVE  Balanced(D, k, n)'
  <2>1. Balanced(C, k, n)
    BY <1>1 DEF Counted
  <2>2. Waiting(k, n)' \subseteq Waiting(k, n)
    BY WaitingStays DEF Waits
  <2>3. ASSUME NEW j \in Kept(D, k, n)' PROVE j \in Kept(C, k, n)
    <3>1. j \in Slots
      BY <2>3 DEF Kept
    <3>2. CASE \E u \in Threads : Writes(u, j, k, n)'
      <4>1. PICK u \in Threads : Writes(u, j, k, n)'
        BY <3>2
      <4>2. u # t
        BY <4>1 DEF Writes, Marked
      <4>3. Writes(u, j, k, n)
        BY <4>1, <4>2 DEF Writes, Others
      <4> QED
        BY <3>1, <4>3 DEF Kept
    <3>3. CASE n \in D[j] /\ (slot[j].buf[n] = k)' /\ ~Read(j)'
      <4>1. j # i
        BY <1>0, <3>3
      <4>2. n \in C[j] /\ slot[j].buf[n] = k
        BY <1>0, <3>1, <3>3, <4>1 DEF Elsewhere
      <4>3. ~Read(j)
        BY <3>3, <4>1, ReadStays
      <4> QED
        BY <3>1, <4>2, <4>3 DEF Kept
    <3> QED
      BY <2>3, <3>2, <3>3 DEF Kept
  <2> QED
    BY <2>1, <2>2, <2>3, BalanceStays
<1>2. Counted(D)'
  BY <1>1 DEF Counted
<1> QED
  BY <1>2 DEF D

-----------------------------------------------------------------------------
\* The inductive invariants.  Once get gave a buffer away nothing is claimed.

Intact == Base /\ (stolen \/ \E C \in [Slots -> SUBSET FragNo] : Safe(C))
Whole  == Base /\ (stolen \/ \E C \in [Slots -> SUBSET FragNo] : Safe(C) /\ Counted(C))

LEMMA InitSafe ==
    ASSUME Init
    PROVE  \E C \in [Slots -> SUBSET FragNo] : Safe(C) /\ Counted(C)
<1>1. PICK C \in [Slots -> SUBSET FragNo] : C = [i \in Slots |-> {}]
  OBVIOUS
<1>2. \A t \in Threads : pc[t] = "idle"
  BY DEF Init
<1>3. \A i \in Slots : slot[i].cbNeed = 0
  <2>1. \A i \in Slots : slot[i] \in {[bits |-> {}, M |-> NoM, cbMsg |-> 0, cbNeed |-> 0,
                            tick |-> j, buf |-> [n \in FragNo |-> 0]] : j \in InitTicks}
    BY DEF Init
  <2> QED
    BY <2>1
<1>4. Safe(C)
  BY <1>1, <1>2, <1>3 DEF Safe, SlotGood, ThreadGood, Alone, Using, Marked
<1>5. ASSUME NEW k \in Msgs, NEW n \in FragNo PROVE Balanced(C, k, n)
  <2>1. Waiting(k, n) = {} /\ Kept(C, k, n) = {}
    BY <1>1, <1>2 DEF Waiting, Waits, Kept, Writes, Marked
  <2>2. delivered[k] = 0 /\ arrived[k][n] = 0
    BY DEF Init
  <2>3. Cardinality({}) = 0
    BY FS_EmptySet
  <2> QED
    BY <2>1, <2>2, <2>3 DEF Balanced
<1> QED
  BY <1>4, <1>5 DEF Counted

\* One step, with the counted fragments after it.
LEMMA SafeStep ==
    ASSUME Base, [Next]_vars, ~stolen', NEW C \in [Slots -> SUBSET FragNo], Safe(C)
    PROVE  \E D \in [Slots -> SUBSET FragNo] :
              Safe(D)' /\ (Counted(C) /\ NumbersDiffer => Counted(D)')
<1> DEFINE Goal(D) == Safe(D)' /\ (Counted(C) /\ NumbersDiffer => Counted(D)')
<1>0. \A D : Safe(D)' => D \in [Slots -> SUBSET FragNo]
  BY DEF Safe
<1> SUFFICES \E D : Goal(D)
  BY <1>0
<1>1. CASE UNCHANGED <<slot, pc, pkt, mine, delivered, arrived>>
  <2>1. Goal(C)
    BY <1>1, SafeElsewhere, CountedElsewhere
  <2> QED
    BY <2>1
<1>2. ASSUME NEW t \in Threads, OnRecv(t) PROVE \E D : Goal(D)
  <2>1. /\ pc[t] = "idle" /\ Others(t) /\ UNCHANGED <<slot, mine, delivered>>
        /\ RecvTakes(t) \/ UNCHANGED <<pc, pkt, arrived>>
    BY <1>2, OnRecvDoes
  <2>2. CASE RecvTakes(t)
    <3>1. pc'[t] \notin Using
      BY <2>2 DEF RecvTakes, Using, Marked
    <3>2. Goal(C)
      BY <2>1, <2>2, <3>1, SafeOutside, CountedRecv
    <3> QED
      BY <3>2
  <2> QED
    BY <1>1, <2>1, <2>2
<1>3. ASSUME NEW t \in Threads, OnData(t) PROVE \E D : Goal(D)
  <2>1. /\ pc[t] = "lock" /\ pc'[t] = "get" /\ Others(t)
        /\ UNCHANGED <<slot, pkt, delivered, arrived>>
    BY <1>3, OnDataDoes DEF history
  <2>2. Goal(C)
    BY <2>1, SafeOutside, CountedOutside DEF Using, Marked, Waits
  <2> QED
    BY <2>2
<1>4. ASSUME NEW t \in Threads, Get(t) PROVE \E D : Goal(D)
  <2>1. /\ pc[t] = "get" /\ Others(t) /\ UNCHANGED <<delivered, arrived>>
        /\ GetFinds(t) \/ GetDrops(t) \/ GetAssigns(t)
    BY <1>4, GetDoes
  <2>2. CASE GetFinds(t)
    <3>1. pc'[t] = "bit" /\ UNCHANGED <<pkt, slot>>
      BY <2>2 DEF GetFinds
    <3>2. Goal(C)
      BY <2>1, <2>2, <3>1, SafeFinds, CountedOutside DEF Marked, Waits
    <3> QED
      BY <3>2
  <2>3. CASE GetDrops(t)
    <3>1. pc'[t] = "idle" /\ UNCHANGED slot
      BY <2>3 DEF GetDrops
    <3>2. Goal(C)
      BY <2>1, <3>1, SafeOutside, CountedOutside DEF Using, Marked, Waits
    <3> QED
      BY <3>2
  <2>4. CASE GetAssigns(t)
    <3>1. PICK i \in Slots :
            /\ slot'[i].M = pkt[t].M /\ slot'[i].cbMsg = pkt[t].len
            /\ slot'[i].cbNeed = pkt[t].len
            /\ slot'[i].bits = slot[i].bits /\ slot'[i].buf = slot[i].buf
            /\ Elsewhere(i)
            /\ stolen' = (stolen \/ InUse(t, i))
            /\ pc'[t] = "bit" /\ mine'[t] = i /\ pkt' = pkt
      BY <2>4 DEF GetAssigns
    <3>2. ~InUse(t, i)
      BY <3>1
    <3>3. Safe([C EXCEPT ![i] = {}])'
      BY <2>1, <3>1, <3>2, SafeAssigns
    <3>4. Counted(C) => Counted([C EXCEPT ![i] = {}])'
      BY <2>1, <3>1, <3>2, CountedAssigns
    <3>5. Goal([C EXCEPT ![i] = {}])
      BY <3>3, <3>4
    <3> QED
      BY <3>5
  <2> QED
    BY <2>1, <2>2, <2>3, <2>4
<1>5. ASSUME NEW t \in Threads, BitTestAndSet(t) PROVE \E D : Goal(D)
  <2>1. PICK i \in Slots : i = mine[t]
    BY <1>5, Ready DEF BitTestAndSet, Using
  <2>2. /\ pc[t] = "bit" /\ Others(t) /\ UNCHANGED <<pkt, mine, delivered, arrived>>
        /\ \/ /\ pc'[t] = "copy" /\ pkt[t].N \notin slot[i].bits
              /\ Elsewhere(i)
              /\ slot'[i].bits = slot[i].bits \cup {pkt[t].N}
              /\ slot'[i].M = slot[i].M /\ slot'[i].cbMsg = slot[i].cbMsg
              /\ slot'[i].cbNeed = slot[i].cbNeed /\ slot'[i].buf = slot[i].buf
           \/ pc'[t] = "fail" /\ slot' = slot
    BY <1>5, <2>1, BitDoes DEF history
  <2>3. CASE pc'[t] = "copy"
    <3>1. Goal(C)
      BY <2>1, <2>2, <2>3, SafeBit, CountedBit
    <3> QED
      BY <3>1
  <2>4. CASE pc'[t] = "fail"
    <3>1. Goal(C)
      BY <2>2, <2>4, SafeOutside, CountedOutside DEF Using, Marked, Waits
    <3> QED
      BY <3>1
  <2> QED
    BY <2>2, <2>3, <2>4
<1>6. ASSUME NEW t \in Threads, Copy(t) PROVE \E D : Goal(D)
  <2>0. pc[t] = "copy" /\ pc[t] \in Using /\ pc[t] \in Marked
    BY <1>6 DEF Copy, Using, Marked
  <2>1. PICK i \in Slots : i = mine[t]
    BY <2>0, Ready
  <2>2. /\ pc'[t] = "tick" /\ Others(t) /\ UNCHANGED <<pkt, mine, delivered, arrived>>
        /\ Elsewhere(i)
        /\ slot'[i].bits = slot[i].bits /\ slot'[i].M = slot[i].M
        /\ slot'[i].cbMsg = slot[i].cbMsg /\ slot'[i].cbNeed = slot[i].cbNeed
        /\ slot'[i].buf = [slot[i].buf EXCEPT ![pkt[t].N] = pkt[t].msg]
    BY <1>6, <2>1, CopyDoes DEF history
  <2>3. \A n \in C[i] : slot'[i].buf[n] = slot[i].buf[n]
    <3>1. slot[i].buf \in [FragNo -> Msgs \cup {0}] /\ C[i] \subseteq FragNo
      BY SlotsAreTyped DEF Base
    <3>2. pkt[t].N \notin C[i]
      BY <2>0, <2>1, UserKnows
    <3> QED
      BY <2>2, <3>1, <3>2
  <2>4. Safe(C)'
    BY <2>0, <2>1, <2>2, SafeCopy
  <2>5. Counted(C) => Counted(C)'
    BY <2>0, <2>1, <2>2, <2>3, CountedWrites DEF Marked
  <2>6. Goal(C)
    BY <2>4, <2>5
  <2> QED
    BY <2>6
<1>7. ASSUME NEW t \in Threads, Touch(t) PROVE \E D : Goal(D)
  <2>0. pc[t] = "tick" /\ pc[t] \in Using /\ pc[t] \in Marked
    BY <1>7 DEF Touch, Using, Marked
  <2>1. PICK i \in Slots : i = mine[t]
    BY <2>0, Ready
  <2>2. /\ pc'[t] = "count" /\ Others(t) /\ UNCHANGED <<pkt, mine, delivered, arrived>>
        /\ Elsewhere(i)
        /\ slot'[i].bits = slot[i].bits /\ slot'[i].M = slot[i].M
        /\ slot'[i].cbMsg = slot[i].cbMsg /\ slot'[i].cbNeed = slot[i].cbNeed
        /\ slot'[i].buf = slot[i].buf
    BY <1>7, <2>1, TouchDoes DEF history
  <2>4. Safe(C)'
    BY <2>0, <2>1, <2>2, SafeTouch
  <2>5. Counted(C) => Counted(C)'
    BY <2>0, <2>1, <2>2, CountedWrites DEF Marked
  <2>6. Goal(C)
    BY <2>4, <2>5
  <2> QED
    BY <2>6
<1>8. ASSUME NEW t \in Threads, ExchangeAdd(t) PROVE \E D : Goal(D)
  <2>0. pc[t] = "count" /\ pc[t] \in Using
    BY <1>8 DEF ExchangeAdd, Using, Marked
  <2>1. PICK i \in Slots : i = mine[t]
    BY <2>0, Ready
  <2>f. PICK f \in Nat : f = pkt[t].N
    BY <2>0, Ready, PacketIs
  <2>2. /\ Others(t) /\ UNCHANGED arrived /\ Elsewhere(i)
        /\ slot'[i].bits = slot[i].bits /\ slot'[i].M = slot[i].M
        /\ slot'[i].cbMsg = slot[i].cbMsg /\ slot'[i].cbNeed = slot[i].cbNeed - pkt[t].cb
        /\ slot'[i].buf = slot[i].buf
        /\ \/ /\ pc'[t] = "user" /\ slot[i].cbNeed = pkt[t].cb /\ UNCHANGED <<pkt, mine>>
              /\ delivered' = [delivered EXCEPT ![pkt[t].msg] = @ + 1]
           \/ pc'[t] \in {"fail", "idle"} /\ UNCHANGED delivered
    BY <1>8, <2>1, CountDoes DEF history
  <2>3. \/ pc'[t] = "user" /\ slot[i].cbNeed = pkt[t].cb /\ UNCHANGED <<pkt, mine>>
        \/ pc'[t] \notin Using
    BY <2>2 DEF Using, Marked
  <2>4. Safe([C EXCEPT ![i] = @ \cup {f}])'
    BY <2>0, <2>1, <2>f, <2>2, <2>3, SafeCount
  <2>5. Counted(C) /\ NumbersDiffer => Counted([C EXCEPT ![i] = @ \cup {f}])'
    BY <2>0, <2>1, <2>f, <2>2, CountedCount
  <2>6. Goal([C EXCEPT ![i] = @ \cup {f}])
    BY <2>4, <2>5
  <2> QED
    BY <2>6
<1>9. ASSUME NEW t \in Threads, OnUserData(t) PROVE \E D : Goal(D)
  <2>0. pc[t] = "user" /\ pc[t] \in Using
    BY <1>9 DEF OnUserData, Using
  <2>1. PICK i \in Slots : i = mine[t]
    BY <2>0, Ready
  <2>2. /\ pc'[t] \in {"idle", "fail"} /\ Others(t) /\ UNCHANGED <<delivered, arrived>>
        /\ Elsewhere(i)
        /\ slot'[i].bits = {} /\ slot'[i].M = slot[i].M
        /\ slot'[i].cbMsg = slot[i].cbMsg /\ slot'[i].cbNeed = slot[i].cbNeed
        /\ slot'[i].buf = slot[i].buf
    BY <1>9, <2>1, UserDoes
  <2>4. Safe([C EXCEPT ![i] = {}])'
    BY <2>0, <2>1, <2>2, SafeUser
  <2>5. Counted(C) => Counted([C EXCEPT ![i] = {}])'
    BY <2>0, <2>1, <2>2, CountedUser
  <2>6. Goal([C EXCEPT ![i] = {}])
    BY <2>4, <2>5
  <2> QED
    BY <2>6
<1>10. ASSUME NEW t \in Threads, Fail(t) PROVE \E D : Goal(D)
  <2>1. /\ pc[t] = "fail" /\ pc'[t] = "idle" /\ Others(t)
        /\ UNCHANGED <<slot, delivered, arrived>>
    BY <1>10, FailDoes DEF history
  <2>2. Goal(C)
    BY <2>1, SafeOutside, CountedOutside DEF Using, Marked, Waits
  <2> QED
    BY <2>2
<1>11. CASE UNCHANGED vars \/ Lose \/ Duplicate \/ Clock
            \/ \E s \in Senders : SendUserData(s) \/ SendMsg(s) \/ SendFails(s)
  <2>1. UNCHANGED <<slot, pc, pkt, mine, delivered, arrived>>
    <3>1. UNCHANGED recvVars
      BY <1>11 DEF vars, SendUserData, SendMsg, SendFails, Lose, Duplicate, Clock
    <3> QED
      BY <3>1 DEF recvVars, history
  <2> QED
    BY <1>1, <2>1
<1> HIDE DEF Goal
<1> QED
  BY <1>2, <1>3, <1>4, <1>5, <1>6, <1>7, <1>8, <1>9, <1>10, <1>11 DEF Next, RecvStep

LEMMA StolenForGood ==
    ASSUME Base, [Next]_vars, stolen
    PROVE  stolen'
<1>1. ASSUME NEW t \in Threads, Get(t) PROVE stolen'
  <2>1. GetFinds(t) \/ GetDrops(t) \/ GetAssigns(t)
    BY <1>1, GetDoes
  <2>2. \E i \in Slots : stolen' = stolen \/ stolen' = (stolen \/ InUse(t, i))
    <3>1. 1 \in Slots
      BY Sizes DEF Slots
    <3> QED
      BY <2>1, <3>1 DEF GetFinds, GetDrops, GetAssigns
  <2> QED
    BY <2>2
<1>2. CASE ~(\E t \in Threads : Get(t))
  BY <1>2 DEF Next, RecvStep, OnRecv, OnData, BitTestAndSet, Copy, Touch, ExchangeAdd,
     OnUserData, Fail, SendUserData, SendMsg, SendFails, Lose, Duplicate, Clock, vars,
     recvVars, history
<1> QED
  BY <1>1, <1>2

LEMMA IntactStep == Intact /\ [Next]_vars => Intact'
<1> SUFFICES ASSUME Intact, [Next]_vars, ~stolen'
             PROVE  Base' /\ \E D \in [Slots -> SUBSET FragNo] : Safe(D)'
  BY BaseStep DEF Intact
<1>1. Base /\ ~stolen
  BY StolenForGood DEF Intact
<1>2. PICK C \in [Slots -> SUBSET FragNo] : Safe(C)
  BY <1>1 DEF Intact
<1> QED
  BY <1>1, <1>2, BaseStep, SafeStep

LEMMA WholeStep == Whole /\ NumbersDiffer /\ [Next]_vars => Whole'
<1> SUFFICES ASSUME Whole, NumbersDiffer, [Next]_vars, ~stolen'
             PROVE  Base' /\ \E D \in [Slots -> SUBSET FragNo] : Safe(D)' /\ Counted(D)'
  BY BaseStep DEF Whole
<1>1. Base /\ ~stolen
  BY StolenForGood DEF Whole
<1>2. PICK C \in [Slots -> SUBSET FragNo] : Safe(C) /\ Counted(C)
  BY <1>1 DEF Whole
<1> QED
  BY <1>1, <1>2, BaseStep, SafeStep

LEMMA InitWhole == Init => Whole /\ Intact
BY BaseInit, InitSafe DEF Whole, Intact

\* OnUserData never sees an unfilled place or bytes of another message number,
\* however many receives run and whatever the network does: for every number of
\* messages, also when the 16-bit number wraps around.
THEOREM NumberKept == Spec => []NumberIntact
<1>1. Init => Intact
  BY InitWhole
<1>2. Intact /\ [Next]_vars => Intact'
  BY IntactStep
<1>3. Intact => NumberIntact
  <2> SUFFICES ASSUME Intact, NEW t \in Threads, pc[t] = "user", ~stolen,
                      NEW n \in 0 .. Frags(pkt[t].len) - 1
               PROVE  /\ slot[mine[t]].buf[n] \in Msgs
                      /\ Number(slot[mine[t]].buf[n]) = Number(pkt[t].msg)
    BY DEF NumberIntact
  <2>1. PICK C \in [Slots -> SUBSET FragNo] : Safe(C)
    BY DEF Intact
  <2>2. Base /\ pc[t] \in Using
    BY DEF Intact, Using
  <2>3. /\ n \in C[mine[t]] /\ SlotGood(C, mine[t]) /\ slot[mine[t]].M = pkt[t].M
        /\ pkt[t].M = Number(pkt[t].msg)
    BY <2>1, <2>2, UserKnows, PacketIs
  <2> QED
    BY <2>3 DEF SlotGood
<1> QED
  BY <1>1, <1>2, <1>3, PTL DEF Spec

LEMMA WholeIsIntact ==
    ASSUME Whole, NumbersDiffer
    PROVE  BufferIntact /\ NoMoreThanArrived
<1> SUFFICES ASSUME ~stolen PROVE BufferIntact /\ NoMoreThanArrived
  BY DEF BufferIntact, NoMoreThanArrived
<1>0. Base
  BY DEF Whole
<1>1. PICK C \in [Slots -> SUBSET FragNo] : Safe(C) /\ Counted(C)
  BY DEF Whole
<1>2. BufferIntact
  <2> SUFFICES ASSUME NEW t \in Threads, pc[t] = "user",
                      NEW n \in 0 .. Frags(pkt[t].len) - 1
               PROVE  slot[mine[t]].buf[n] = pkt[t].msg
    BY DEF BufferIntact
  <2>1. pc[t] \in Using
    BY DEF Using
  <2>2. n \in C[mine[t]]
    BY <1>0, <1>1, <2>1, UserKnows
  <2> QED
    BY <1>0, <1>1, <2>1, <2>2, CountedIsAround
<1>3. NoMoreThanArrived
  <2> SUFFICES ASSUME NEW k \in Msgs, NEW n \in 0 .. Frags(MsgLens[k]) - 1
               PROVE  delivered[k] <= arrived[k][n]
    BY DEF NoMoreThanArrived
  <2>1. MsgLens[k] \in Nat /\ Frags(MsgLens[k]) \in Nat
    BY Sizes, FragsAreThere DEF Msgs
  <2>2. n \in Nat /\ n < Frags(MsgLens[k])
    BY <2>1
  <2>3. n \in FragNo
    BY <2>2, ShortEnough
  <2>4. Balanced(C, k, n)
    BY <1>1, <2>2, <2>3 DEF Counted
  <2> QED
    BY <1>0, <2>3, <2>4, CountsAreNumbers DEF Balanced
<1> QED
  BY <1>2, <1>3

\* As long as no two messages of which the receiver has a packet have the same
\* number, OnUserData sees its own message and nothing else, and no message is
\* delivered more often than each of its fragments came.
THEOREM MessageKept ==
    Spec /\ []NumbersDiffer => [](BufferIntact /\ NoMoreThanArrived)
<1>1. Init => Whole
  BY InitWhole
<1>2. Whole /\ NumbersDiffer /\ [Next]_vars => Whole'
  BY WholeStep
<1>3. Whole /\ NumbersDiffer => BufferIntact /\ NoMoreThanArrived
  BY WholeIsIntact
<1> QED
  BY <1>1, <1>2, <1>3, PTL DEF Spec

\* The instance with several receives at once: MessageIntact holds in it for every
\* number of threads, buffers and messages up to the range of the message number.
THEOREM RaceIsIntact ==
    Len(MsgLens) <= MMod => (MCSpec /\ mode = "race" => []MessageIntact)
<1> SUFFICES ASSUME Len(MsgLens) <= MMod
             PROVE  MCSpec /\ mode = "race" => []MessageIntact
  OBVIOUS
<1>1. NumbersDiffer
  BY NumbersDifferAtFirst DEF NumbersDiffer
<1>2. MCInit /\ mode = "race" => Whole /\ mode = "race"
  BY InitWhole DEF MCInit
<1>3. (Whole /\ mode = "race") /\ [MCNext]_<<vars, mode>> => (Whole /\ mode = "race")'
  <2> SUFFICES ASSUME Whole, mode = "race", [MCNext]_<<vars, mode>>
               PROVE  Whole' /\ mode' = "race"
    OBVIOUS
  <2>1. [Next]_vars /\ mode' = mode
    BY DEF MCNext
  <2> QED
    BY <1>1, <2>1, WholeStep
<1>4. Whole /\ mode = "race" => MessageIntact
  BY <1>1, WholeIsIntact DEF MessageIntact
<1> QED
  BY <1>2, <1>3, <1>4, PTL DEF MCSpec
=============================================================================
