-------------------------- MODULE ClientVideoProof --------------------------
(***************************************************************************)
(* Proofs about ClientVideo for any number of receives, buffers, pictures, *)
(* lists, frames and faults, and for cameras of every format.              *)
(*                                                                         *)
(*   Types, Places, SlotsTaken  types; who is inside m_rp; and that the    *)
(*            one thread that calls OnDisconnect is alone                  *)
(*   Books    the count of a picture is the number of those who keep it;   *)
(*            _vid does not count while its picture was given back and the *)
(*            pointer is still there (Dropped), which one thread at a time *)
(*            may do                                                       *)
(*   Decoded  a frame is decoded into _vid's picture, or was overtaken     *)
(*   Videos   the dialog's flag and the window follow _vid, or e_set or    *)
(*            e_disconnected is on its way                                 *)
(*   ListInv  one answer at most is on its way, over four places: as a     *)
(*            request, a packet, a message in hand and a window message;   *)
(*            and then the dialog has no list                              *)
(*                                                                         *)
(* Books, Decoded and Videos are claimed until the program is undefined    *)
(* (two threads in _vid at once, a frame without a picture): the behaviour *)
(* ends there, and Freed says that nothing else can free a picture in use. *)
(***************************************************************************)
EXTENDS MCClientVideo, SequenceTheorems, FiniteSetTheorems, WellFoundedInduction, TLAPS

Packets == [kind : {"fmts", "stop", "H264", "bye"}, list : 0 .. MaxLists]
Requests == {"init", "strt", "stop"}
Messages == [kind : {"e_connected", "e_list", "e_set", "e_disconnected"}, slot : 0 .. NumSlots]

Inside == {"fmts", "stop", "H264", "decode", "fail", "leave"}
Ends == {"release", "clear", "post"}
InOnOk == {"start", "set", "undo", "started", "drop"}

Types ==
    /\ TypeOK
    /\ pc \in [Threads -> {"idle", "remove", "cleared"} \cup Inside \cup Ends \cup InOnOk]
    /\ toClient \in Seq(Packets) /\ toServer \in Seq(Requests) /\ posted \in Seq(Messages)
    /\ lists \in 0 .. MaxLists

\* Who is inside; OnDisconnect is called once all have left.
Places ==
    /\ \A t \in Recv :
        /\ pc[t] \in {"idle", "remove"} \cup Inside \cup Ends
        /\ pc[t] \in Inside => t \in users
        /\ t \in users => pc[t] \in Inside \cup {"release", "clear"}
    /\ pc[UI] \in {"idle", "remove", "cleared"} \cup InOnOk \cup Ends
    /\ \A t \in Threads \ users : pc[t] \in Ends => phase = "off"
    /\ phase = "off" => users = {}

\* A slot for each who is inside.
SlotsTaken ==
    /\ \A t \in users : slot[t] \in Slots
    /\ \A i \in DOMAIN posted : posted[i].kind = "e_list" => posted[i].slot \in Slots

\* Given back, and the pointer is still there.
Dropped == pc[UI] = "set" \/ \E t \in Threads : pc[t] = "clear"

Books ==
    /\ {vid, wnd, pic[UI]} \subseteq 0 .. made
    /\ pic[UI] # None <=> pc[UI] \in InOnOk
    /\ \A t, u \in Threads : pc[t] = "clear" /\ pc[u] = "clear" => t = u
    /\ \A t \in Threads : pc[t] = "clear" => vid # None /\ pc[UI] \notin {"set", "undo"}
    /\ pc[UI] = "undo" => vid = pic[UI] /\ wnd = pic[UI]
    /\ \A p \in Pics :
        count[p] = (IF p = vid /\ ~Dropped THEN 1 ELSE 0)
                     + (IF p = wnd THEN 1 ELSE 0) + (IF p = pic[UI] THEN 1 ELSE 0)

Decoded ==
    \A t \in Recv : pc[t] = "decode" => overtaken \/ (pic[t] = vid /\ vid # None /\ ~Dropped)

Ended(k) == \E i \in DOMAIN posted : posted[i].kind \in k

Videos ==
    /\ bVideo => "ID_HIDE" \notin enabled /\ pc[UI] \notin InOnOk
    /\ bVideo => Ending \/ (vid # None /\ vid = wnd)
    /\ pc[UI] = "started" => Ending \/ (vid = pic[UI] /\ wnd = pic[UI])
    /\ \A t \in users : Stopping(t) =>
        Ended({"e_set"}) \/ (~bVideo /\ pc[UI] \notin InOnOk \ {"start"})

\* Where an answer can be.
Where(s, K) == {i \in DOMAIN s : s[i] \in K}
Answers == {p \in Packets : p.kind = "fmts"}
ListMessages == {m \in Messages : m.kind \in {"e_connected", "e_list"}}
AtFormats == {t \in Recv : pc[t] = "fmts"}
Single(S) == \A x, y \in S : x = y

OneAnswer ==
    /\ Single(Where(toServer, {"init"})) /\ Single(Where(toClient, Answers))
    /\ Single(AtFormats) /\ Single(Where(posted, ListMessages))
    /\ Where(toServer, {"init"}) # {} =>
         Where(toClient, Answers) = {} /\ AtFormats = {} /\ Where(posted, ListMessages) = {}
    /\ Where(toClient, Answers) # {} => AtFormats = {} /\ Where(posted, ListMessages) = {}
    /\ AtFormats # {} => Where(posted, ListMessages) = {}
    /\ Where(toServer, {"init"}) \cup Where(toClient, Answers) \cup AtFormats
         \cup Where(posted, ListMessages) # {} => items = "none"

\* The first message is OnConnect's; no button is there before it.
Connecting ==
    \A i \in DOMAIN posted : posted[i].kind = "e_connected" =>
        i = 1 /\ enabled = {} /\ pc[UI] \notin InOnOk

ListInv ==
    /\ Connecting
    /\ ~impatient /\ ~doubled => OneAnswer /\ items # "freed"
    /\ items = "kept" => buf # None

Freed == "freed_picture" \in undefined => overtaken \/ "race" \in undefined
Defined == undefined = {} => Books /\ Decoded /\ Videos
IInv == Types /\ Places /\ SlotsTaken /\ ListInv /\ Freed /\ Defined

-----------------------------------------------------------------------------
\* Sequences.
LEMMA WhereTail ==
    ASSUME NEW T, NEW s \in Seq(T), s # <<>>, NEW K
    PROVE  /\ Where(s, K) = {} => Where(Tail(s), K) = {}
           /\ Single(Where(s, K)) => Single(Where(Tail(s), K))
           /\ Single(Where(s, K)) /\ Head(s) \in K => Where(Tail(s), K) = {}
<1>1. /\ Len(s) \in Nat \ {0} /\ DOMAIN s = 1 .. Len(s)
      /\ DOMAIN Tail(s) = 1 .. Len(s) - 1
      /\ \A i \in 1 .. Len(s) - 1 : Tail(s)[i] = s[i + 1]
      /\ Head(s) = s[1]
  BY HeadTailProperties, LenProperties, EmptySeq
<1>2. \A i \in Where(Tail(s), K) : i \in Nat \ {0} /\ i + 1 \in Where(s, K)
  BY <1>1 DEF Where
<1>3. Head(s) \in K => 1 \in Where(s, K)
  BY <1>1 DEF Where
<1> QED
  BY <1>2, <1>3 DEF Single

LEMMA WhereAppend ==
    ASSUME NEW T, NEW s \in Seq(T), NEW e \in T, NEW K
    PROVE  /\ e \notin K => Where(Append(s, e), K) = Where(s, K)
           /\ Where(s, K) = {} => Single(Where(Append(s, e), K))
<1>1. /\ Len(s) \in Nat /\ DOMAIN s = 1 .. Len(s)
      /\ DOMAIN Append(s, e) = 1 .. Len(s) + 1
      /\ \A i \in 1 .. Len(s) : Append(s, e)[i] = s[i]
      /\ Append(s, e)[Len(s) + 1] = e
  BY AppendProperties, LenProperties
<1>2. \A i \in Where(Append(s, e), K) : i \in Where(s, K) \/ (i = Len(s) + 1 /\ e \in K)
  BY <1>1 DEF Where
<1>3. \A i \in Where(s, K) : i \in Where(Append(s, e), K)
  BY <1>1 DEF Where
<1> QED
  BY <1>2, <1>3 DEF Single

LEMMA NoneInEmpty ==
    ASSUME NEW K PROVE Where(<<>>, K) = {}
BY DEF Where

\* A message stays posted until it is taken.
LEMMA StaysPosted ==
    ASSUME NEW s \in Seq(Messages), NEW k
    PROVE  /\ \A m \in Messages :
               /\ (\E i \in DOMAIN s : s[i].kind \in k) =>
                     \E i \in DOMAIN Append(s, m) : Append(s, m)[i].kind \in k
               /\ m.kind \in k => \E i \in DOMAIN Append(s, m) : Append(s, m)[i].kind \in k
           /\ s # <<>> /\ Head(s).kind \notin k =>
               ((\E i \in DOMAIN s : s[i].kind \in k) =>
                  \E i \in DOMAIN Tail(s) : Tail(s)[i].kind \in k)
<1>1. Len(s) \in Nat /\ DOMAIN s = 1 .. Len(s)
  BY LenProperties
<1>2. ASSUME NEW m \in Messages
      PROVE  /\ (\E i \in DOMAIN s : s[i].kind \in k) =>
                   \E i \in DOMAIN Append(s, m) : Append(s, m)[i].kind \in k
             /\ m.kind \in k => \E i \in DOMAIN Append(s, m) : Append(s, m)[i].kind \in k
  <2>1. /\ DOMAIN Append(s, m) = 1 .. Len(s) + 1
        /\ \A i \in 1 .. Len(s) : Append(s, m)[i] = s[i]
        /\ Append(s, m)[Len(s) + 1] = m
    BY AppendProperties, LenProperties
  <2> QED
    BY <1>1, <2>1
<1>3. ASSUME s # <<>>, Head(s).kind \notin k, NEW i \in DOMAIN s, s[i].kind \in k
      PROVE  \E j \in DOMAIN Tail(s) : Tail(s)[j].kind \in k
  <2>1. /\ DOMAIN Tail(s) = 1 .. Len(s) - 1 /\ Head(s) = s[1]
        /\ \A j \in 1 .. Len(s) - 1 : Tail(s)[j] = s[j + 1]
    BY <1>3, HeadTailProperties, LenProperties
  <2>2. i # 1
    BY <1>3, <2>1
  <2>3. i - 1 \in DOMAIN Tail(s) /\ Tail(s)[i - 1] = s[i]
    BY <1>1, <1>3, <2>1, <2>2
  <2> QED
    BY <1>3, <2>3
<1> QED
  BY <1>2, <1>3

-----------------------------------------------------------------------------
\* A buffer is free for one more receive.

\* A nonempty set of slots has a first one.
LEMMA FirstOfSlots ==
    ASSUME NEW N \in Nat, NEW S \in SUBSET (1 .. N), S # {}
    PROVE  \E s \in S : \A r \in S : s <= r
<1> DEFINE Below(k) == {x \in S : x <= k}
<1> DEFINE T == {X \in SUBSET S : \E k \in S : X = Below(k)}
<1>1. IsFiniteSet(S)
  <2>1. IsFiniteSet(1 .. N)
    BY FS_Interval
  <2> QED
    BY <2>1, FS_Subset
<1>2. IsWellFoundedOn(StrictSubsetOrdering(S), FiniteSubsetsOf(S))
  BY FS_StrictSubsetOrderingWellFounded
<1>3. T \subseteq FiniteSubsetsOf(S) /\ T # {}
  <2>1. PICK k \in S : TRUE
    OBVIOUS
  <2>2. Below(k) \in T
    BY <2>1
  <2>3. T \subseteq SUBSET S
    OBVIOUS
  <2>4. FiniteSubsetsOf(S) = SUBSET S
    BY <1>1, FS_FiniteSubsetsOfFinite
  <2> HIDE DEF T
  <2> QED
    BY <2>2, <2>3, <2>4
<1>4. PICK X \in T : \A Y \in T : <<Y, X>> \notin StrictSubsetOrdering(S)
  <2> HIDE DEF T
  <2> QED
    BY <1>2, <1>3, WFMin
<1>5. PICK k \in S : X = Below(k)
  BY <1>4
<1>6. ASSUME NEW y \in S PROVE k <= y
  <2>1. SUFFICES ASSUME y < k PROVE FALSE
    BY <1>6
  <2>2. Below(y) \in T
    <3>1. Below(y) \in SUBSET S
      OBVIOUS
    <3>2. \E j \in S : Below(y) = Below(j)
      BY <1>6
    <3> HIDE DEF Below
    <3> QED
      BY <3>1, <3>2
  <2>3. \A x \in S : x \in Int
    OBVIOUS
  <2>4. Below(y) \subseteq X
    <3>1. \A x \in S : x <= y => x <= k
      BY <1>6, <2>1, <2>3
    <3> QED
      BY <1>5, <3>1
  <2>5. k \in X /\ k \notin Below(y)
    BY <1>5, <1>6, <2>1, <2>3
  <2>6. X \in SUBSET S /\ Below(y) \in SUBSET S
    BY <1>5
  <2>7. <<Below(y), X>> \in StrictSubsetOrdering(S)
    <3> HIDE DEF Below
    <3> QED
      BY <2>4, <2>5, <2>6 DEF StrictSubsetOrdering
  <2> HIDE DEF T
  <2> QED
    BY <1>4, <2>2, <2>7
<1> QED
  BY <1>6

LEMMA FreeSlot ==
    ASSUME users \subseteq Recv, NEW t \in Recv, t \notin users
    PROVE  FirstFree \in Slots
<1>1. IsFiniteSet(users) /\ Cardinality(users) < NumSlots
  <2>1. /\ IsFiniteSet(users) /\ Cardinality(users) <= Cardinality(Recv)
        /\ Cardinality(users) = Cardinality(Recv) => users = Recv
    BY SlotsAssumption, FS_Subset
  <2>2. Cardinality(users) \in Nat /\ Cardinality(Recv) \in Nat
    BY <2>1, SlotsAssumption, FS_CardinalityType
  <2>3. NumSlots \in Nat /\ Cardinality(Recv) <= NumSlots /\ users # Recv
    BY SlotsAssumption
  <2> QED
    BY <2>1, <2>2, <2>3
<1>2. Slots \ Used # {}
  <2> SUFFICES ASSUME Slots \subseteq Used PROVE FALSE
    OBVIOUS
  <2> DEFINE f == [s \in Slots |-> CHOOSE r \in users : slot[r] = s]
  <2>1. \A s \in Slots : f[s] \in users /\ slot[f[s]] = s
    BY DEF Used
  <2>2. f \in Injection(Slots, users)
    <3>1. f \in [Slots -> users]
      BY <2>1
    <3>2. \A s, r \in Slots : f[s] = f[r] => s = r
      BY <2>1
    <3> HIDE DEF f
    <3> QED
      BY <3>1, <3>2 DEF Injection, IsInjective
  <2>3. Cardinality(Slots) <= Cardinality(users)
    <3> HIDE DEF f
    <3> QED
      BY <1>1, <2>2, FS_Injection
  <2>4. Cardinality(Slots) = NumSlots
    <3>1. NumSlots \in Nat
      BY SlotsAssumption
    <3> QED
      BY <3>1, FS_Interval DEF Slots
  <2>5. Cardinality(users) \in Nat /\ NumSlots \in Nat
    BY <1>1, FS_CardinalityType, SlotsAssumption
  <2> QED
    BY <1>1, <2>3, <2>4, <2>5
<1>3. \E s \in Slots \ Used : \A r \in Slots \ Used : s <= r
  BY <1>2, FirstOfSlots, SlotsAssumption DEF Slots
<1> QED
  BY <1>3, Zenon DEF FirstFree

-----------------------------------------------------------------------------
\* Types.
LEMMA Packed ==
    /\ \A k \in {"fmts", "stop", "H264", "bye"}, n \in 0 .. MaxLists : Packet(k, n) \in Packets
    /\ \A k \in {"e_connected", "e_list", "e_set", "e_disconnected"}, s \in 0 .. NumSlots :
         Posted(k, s) \in Messages
BY DEF Packet, Packets, Posted, Messages

LEMMA Zeros == 0 \in 0 .. NumSlots /\ 0 \in 0 .. MaxLists /\ 0 \in 0 .. MaxPics
BY SlotsAssumption, BoundsAssumption

LEMMA LoweredType ==
    ASSUME NEW c \in [Pics -> Nat], NEW p
    PROVE  [c EXCEPT ![p] = IF @ = 0 THEN 0 ELSE @ - 1] \in [Pics -> Nat]
<1>1. \A q \in Pics : (IF c[q] = 0 THEN 0 ELSE c[q] - 1) \in Nat
  OBVIOUS
<1>2. CASE p \in Pics
  BY <1>1, <1>2
<1>3. CASE p \notin Pics
  BY <1>3
<1> QED
  BY <1>2, <1>3

LEMMA TypesInit == Init => Types /\ Places /\ SlotsTaken
<1> SUFFICES ASSUME Init PROVE Types /\ Places /\ SlotsTaken
  OBVIOUS
<1> USE Zeros, UIAssumption DEF Init, Threads, None
<1>1. /\ phase \in {"live", "closing", "off"} /\ users \subseteq Recv
      /\ pic \in [Threads -> 0 .. MaxPics] /\ slot \in [Recv -> 0 .. NumSlots]
      /\ count \in [Pics -> Nat] /\ made \in 0 .. MaxPics
      /\ {vid, wnd} \subseteq 0 .. MaxPics
  OBVIOUS
<1>2. /\ {connected, bVideo, bits, yuy2, overtaken, lossy, impatient, doubled} \subseteq BOOLEAN
      /\ content \in [Slots -> 0 .. MaxLists] /\ buf \in 0 .. MaxLists
      /\ items \in {"none", "kept", "freed"}
      /\ enabled \subseteq {"IDOK", "IDABORT", "ID_REFRESH", "ID_HIDE"}
      /\ camera \in {"off", "on", "failed", "stopped", "gone"}
      /\ undefined \subseteq {"race", "no_picture", "freed_picture", "freed_list"}
  OBVIOUS
<1>3. posted \in Seq(Messages)
  BY Packed
<1>4. toClient \in Seq(Packets) /\ toServer \in Seq(Requests) /\ lists \in 0 .. MaxLists
  OBVIOUS
<1>5. \A i \in DOMAIN posted : posted[i].kind = "e_connected"
  BY DEF Posted
<1> QED
  BY <1>1, <1>2, <1>3, <1>4, <1>5 DEF Types, TypeOK, Places, SlotsTaken, Inside, Ends, InOnOk

LEMMA RecvTypes ==
    ASSUME Types, Places, NEW t \in Recv, OnRecv(t)
    PROVE  Types'
<1> DEFINE p == Head(toClient)
<1>1. p \in Packets /\ toClient' \in Seq(Packets)
  BY HeadTailProperties DEF OnRecv, Types
<1>2. UNCHANGED <<phase, pic, count, made, vid, yuy2, wnd, posted, connected, bVideo, enabled, bits,
                  buf, items, camera, lists, toServer, undefined, overtaken, lossy, impatient,
                  doubled>>
  BY DEF OnRecv, pictures, dialog, server, history
<1>3. CASE p.kind = "bye"
  BY <1>1, <1>2, <1>3 DEF OnRecv, Goto, Types, TypeOK, Threads
<1>4. CASE p.kind # "bye"
  <2>1. FirstFree \in Slots
    <3>1. t \notin users /\ users \subseteq Recv
      BY DEF OnRecv, Places, Types, TypeOK, Inside
    <3> QED
      BY <3>1, FreeSlot
  <2>2. users' \subseteq Recv /\ slot' \in [Recv -> 0 .. NumSlots]
    <3>1. users' = users \cup {t} /\ slot' = [slot EXCEPT ![t] = FirstFree]
      BY <1>4 DEF OnRecv
    <3>2. FirstFree \in 0 .. NumSlots
      BY <2>1, SlotsAssumption DEF Slots
    <3> QED
      BY <3>1, <3>2 DEF Types, TypeOK
  <2>3. content' \in [Slots -> 0 .. MaxLists]
    BY <1>1, <1>4, <2>1 DEF OnRecv, Types, TypeOK, Packets
  <2>4. pc' \in [Threads -> {"idle", "remove", "cleared"} \cup Inside \cup Ends \cup InOnOk]
    <3>1. p.kind \in Inside
      BY <1>1, <1>4 DEF Packets, Inside
    <3> QED
      BY <1>4, <3>1 DEF OnRecv, Goto, Types
  <2> QED
    BY <1>1, <1>2, <2>2, <2>3, <2>4 DEF Types, TypeOK
<1> QED
  BY <1>3, <1>4

LEMMA StepTypes ==
    ASSUME Types, Places, SlotsTaken, NEW t \in Threads, Step(t)
    PROVE  Types'
<1> USE Zeros DEF Types, TypeOK, Goto, Threads, Inside, Ends, InOnOk, pictures, dialog, server, net,
                  history, None
<1>1. CASE OnFormats(t)
  <2>1. Posted("e_list", slot[t]) \in Messages
    <3>1. t \in Recv
      BY <1>1 DEF OnFormats, Places
    <3> QED
      BY <3>1, Packed
  <2>2. posted' \in Seq(Messages)
    BY <1>1, <2>1, AppendProperties DEF OnFormats
  <2> QED
    BY <1>1, <2>2 DEF OnFormats
<1>2. CASE OnStop(t)
  <2>1. posted' \in Seq(Messages)
    BY <1>2, Packed, AppendProperties DEF OnStop
  <2> QED
    BY <1>2, <2>1 DEF OnStop
<1>3. CASE ReleaseVid(t)
  <2>1. count' \in [Pics -> Nat]
    <3>1. CASE vid = None
      BY <1>3, <3>1 DEF ReleaseVid
    <3>2. CASE vid # None
      <4>1. count' = [count EXCEPT ![vid] = IF @ = 0 THEN 0 ELSE @ - 1]
        BY <1>3, <3>2 DEF ReleaseVid
      <4> QED
        BY <4>1, LoweredType
    <3> QED
      BY <3>1, <3>2
  <2>2. pc' \in [Threads -> {"idle", "remove", "cleared"} \cup Inside \cup Ends \cup InOnOk]
    BY <1>3 DEF ReleaseVid
  <2>3. undefined' \subseteq {"race", "no_picture", "freed_picture", "freed_list"}
    BY <1>3 DEF ReleaseVid
  <2>4. overtaken' \in BOOLEAN
    BY <1>3 DEF ReleaseVid
  <2> QED
    BY <1>3, <2>1, <2>2, <2>3, <2>4 DEF ReleaseVid
<1>4. CASE ClearVid(t)
  BY <1>4 DEF ClearVid
<1>5. CASE OnH264(t)
  <2>1. undefined' \subseteq {"race", "no_picture", "freed_picture", "freed_list"}
    BY <1>5 DEF OnH264, Undefined
  <2>2. overtaken' \in BOOLEAN
    BY <1>5 DEF OnH264
  <2>3. pic' \in [Threads -> 0 .. MaxPics]
    BY <1>5 DEF OnH264
  <2> QED
    BY <1>5, <2>1, <2>2, <2>3 DEF OnH264
<1>6. CASE OnFrame(t)
  <2>1. undefined' \subseteq {"race", "no_picture", "freed_picture", "freed_list"}
    BY <1>6 DEF OnFrame, Undefined
  <2> QED
    BY <1>6, <2>1 DEF OnFrame
<1>7. CASE Leave(t)
  <2>1. slot' \in [Recv -> 0 .. NumSlots] /\ users' \subseteq Recv
    BY <1>7 DEF Leave
  <2> QED
    BY <1>7, <2>1 DEF Leave
<1>8. CASE RemoveConnection(t)
  <2>1. toClient' \in Seq(Packets)
    <3>1. toClient' = <<>>
      BY <1>8 DEF RemoveConnection
    <3> QED
      BY <3>1, EmptySeq
  <2>2. phase' \in {"live", "closing", "off"}
    <3>1. CASE phase = "live"
      BY <1>8, <3>1 DEF RemoveConnection
    <3>2. CASE phase # "live"
      BY <1>8, <3>2 DEF RemoveConnection
    <3> QED
      BY <3>1, <3>2
  <2>3. pc' \in [Threads -> {"idle", "remove", "cleared"} \cup Inside \cup Ends \cup InOnOk]
    <3>1. Goto(t, "release") \/ Return(t)
      BY <1>8 DEF RemoveConnection
    <3> QED
      BY <3>1 DEF Return
  <2> QED
    BY <1>8, <2>1, <2>2, <2>3 DEF RemoveConnection
<1>9. CASE PostDisconnected(t)
  <2>1. posted' \in Seq(Messages)
    BY <1>9, Packed, AppendProperties DEF PostDisconnected
  <2> QED
    BY <1>9, <2>1 DEF PostDisconnected, Return
<1> QED
  BY <1>1, <1>2, <1>3, <1>4, <1>5, <1>6, <1>7, <1>8, <1>9 DEF Step

LEMMA RaisedType ==
    ASSUME NEW c \in [Pics -> Nat], NEW p
    PROVE  [c EXCEPT ![p] = @ + 1] \in [Pics -> Nat]
<1>1. CASE p \in Pics
  BY <1>1
<1>2. CASE p \notin Pics
  BY <1>2
<1> QED
  BY <1>1, <1>2

\* What the window shows.
LEMMA ShownType ==
    ASSUME NEW c \in [Pics -> Nat], NEW p
    PROVE  Shown(p, c) \in [Pics -> Nat]
<1>1. \A q \in Pics :
        c[q] + (IF q = p THEN 1 ELSE 0) - (IF q = wnd /\ c[q] > 0 THEN 1 ELSE 0) \in Nat
  OBVIOUS
<1> QED
  BY <1>1 DEF Shown

LEMMA OnOkTypes ==
    ASSUME Types, Places, undefined = {}, OnOkStep
    PROVE  Types'
<1> USE Zeros DEF Types, TypeOK, Goto, Threads, Inside, Ends, InOnOk, pictures, dialog, server, net,
                  history, None
<1>1. CASE StartRelease
  <2>1. count' \in [Pics -> Nat]
    <3>1. \A p \in Pics : (IF p = vid /\ count[p] > 0 THEN count[p] - 1 ELSE count[p]) \in Nat
      OBVIOUS
    <3> QED
      BY <1>1, <3>1 DEF StartRelease
  <2>2. undefined' \subseteq {"race", "no_picture", "freed_picture", "freed_list"}
    BY <1>1 DEF StartRelease
  <2>3. overtaken' \in BOOLEAN
    BY <1>1 DEF StartRelease
  <2> QED
    BY <1>1, <2>1, <2>2, <2>3 DEF StartRelease
<1>2. CASE StartSet
  <2>1. count' \in [Pics -> Nat]
    <3>1. [count EXCEPT ![pic[UI]] = @ + 1] \in [Pics -> Nat]
      BY RaisedType
    <3> QED
      BY <1>2, <3>1, ShownType DEF StartSet
  <2>2. undefined' \subseteq {"race", "no_picture", "freed_picture", "freed_list"}
    BY <1>2 DEF StartSet, Undefined
  <2>3. toServer' \in Seq(Requests) /\ UNCHANGED toClient /\ lossy' \in BOOLEAN
    <3>1. "strt" \in Requests
      BY DEF Requests
    <3>2. CASE Sent("strt")
      BY <1>2, <3>1, <3>2, AppendProperties, EmptySeq DEF Sent, StartSet
    <3>3. CASE NotSent
      BY <1>2, <3>3 DEF NotSent, StartSet
    <3> QED
      BY <1>2, <3>2, <3>3 DEF StartSet
  <2>4. pic[UI] \in 0 .. MaxPics
    OBVIOUS
  <2>5. pc' \in [Threads -> {"idle", "remove", "cleared"} \cup Inside \cup Ends \cup InOnOk]
    BY <1>2 DEF StartSet
  <2> QED
    BY <1>2, <2>1, <2>2, <2>3, <2>4, <2>5 DEF StartSet
<1>3. CASE StartUndo
  <2>1. count' \in [Pics -> Nat]
    <3>1. \A p \in Pics : (IF count[p] > 1 THEN count[p] - 2 ELSE 0) \in Nat
      OBVIOUS
    <3>2. count' = [count EXCEPT ![pic[UI]] = IF @ > 1 THEN @ - 2 ELSE 0]
      BY <1>3 DEF StartUndo
    <3>3. CASE pic[UI] \in Pics
      BY <3>1, <3>2, <3>3
    <3>4. CASE pic[UI] \notin Pics
      BY <3>2, <3>4
    <3> QED
      BY <3>3, <3>4
  <2>2. undefined' \subseteq {"race", "no_picture", "freed_picture", "freed_list"}
    BY <1>3 DEF StartUndo, Undefined
  <2>3. overtaken' \in BOOLEAN
    BY <1>3 DEF StartUndo
  <2> QED
    BY <1>3, <2>1, <2>2, <2>3 DEF StartUndo
<1>4. CASE OnOkEnds
  <2>1. count' \in [Pics -> Nat]
    <3>1. count' = [count EXCEPT ![pic[UI]] = IF @ = 0 THEN 0 ELSE @ - 1]
      BY <1>4 DEF OnOkEnds, Release
    <3> QED
      BY <3>1, LoweredType
  <2>2. undefined' \subseteq {"race", "no_picture", "freed_picture", "freed_list"}
    BY <1>4 DEF OnOkEnds, Release, Undefined
  <2>3. /\ {bVideo', bits'} \subseteq BOOLEAN
        /\ enabled' \subseteq {"IDOK", "IDABORT", "ID_REFRESH", "ID_HIDE"}
    BY <1>4 DEF OnOkEnds
  <2> QED
    BY <1>4, <2>1, <2>2, <2>3 DEF OnOkEnds
<1> QED
  BY <1>1, <1>2, <1>3, <1>4 DEF OnOkStep

\* A request is sent or not.
LEMMA GetFormatsTypes ==
    ASSUME Types, GetFormats
    PROVE  toServer' \in Seq(Requests) /\ UNCHANGED toClient /\ lossy' \in BOOLEAN
<1>1. "init" \in Requests
  BY DEF Requests
<1>2. CASE Sent("init")
  BY <1>1, <1>2, AppendProperties, EmptySeq DEF Sent, Types, TypeOK
<1>3. CASE NotSent
  BY <1>3 DEF NotSent, net, Types, TypeOK
<1> QED
  BY <1>2, <1>3 DEF GetFormats

LEMMA ClickTypes ==
    ASSUME Types, Places, undefined = {}, Click
    PROVE  Types'
<1> USE Zeros DEF Types, TypeOK, Goto, Threads, Inside, Ends, InOnOk, pictures, dialog, server, net,
                  threads, history, None
<1>1. ASSUME NEW y \in Formats, OnOk(y) PROVE Types'
  <2>1. made + 1 \in 0 .. MaxPics /\ y \in BOOLEAN
    <3>1. made < MaxPics
      BY <1>1 DEF OnOk
    <3>2. made + 1 \in 0 .. MaxPics
      BY <3>1, BoundsAssumption
    <3>3. y \in BOOLEAN
      BY FormatsAssumption
    <3> QED
      BY <3>2, <3>3
  <2>2. count' \in [Pics -> Nat] /\ pic' \in [Threads -> 0 .. MaxPics]
    BY <1>1, <2>1 DEF OnOk
  <2>3. undefined' \subseteq {"race", "no_picture", "freed_picture", "freed_list"}
    BY <1>1 DEF OnOk, Undefined
  <2> QED
    BY <1>1, <2>1, <2>2, <2>3 DEF OnOk
<1>2. CASE OnAbort
  <2>1. toServer' \in Seq(Requests) /\ UNCHANGED toClient /\ lossy' \in BOOLEAN
    <3>1. "stop" \in Requests
      BY DEF Requests
    <3>2. CASE Sent("stop")
      BY <3>1, <3>2, AppendProperties, EmptySeq DEF Sent
    <3>3. CASE NotSent
      BY <3>3 DEF NotSent
    <3> QED
      BY <1>2, <3>2, <3>3 DEF OnAbort
  <2> QED
    BY <1>2, <2>1 DEF OnAbort
<1>3. CASE OnHide
  <2>1. count' \in [Pics -> Nat]
    BY <1>3, ShownType DEF OnHide, Set
  <2>2. undefined' \subseteq {"race", "no_picture", "freed_picture", "freed_list"}
    BY <1>3 DEF OnHide, Set, Undefined
  <2> QED
    BY <1>3, <2>1, <2>2 DEF OnHide, Set
<1>4. CASE OnRefresh
  <2>1. toServer' \in Seq(Requests) /\ UNCHANGED toClient /\ lossy' \in BOOLEAN
    BY <1>4, GetFormatsTypes DEF OnRefresh
  <2>2. impatient' \in BOOLEAN
    BY <1>4 DEF OnRefresh
  <2> QED
    BY <1>4, <2>1, <2>2 DEF OnRefresh, FreeFormats
<1>5. CASE OnDisconnectButton
  BY <1>5 DEF OnDisconnectButton
<1> QED
  BY <1>1, <1>2, <1>3, <1>4, <1>5 DEF Click

LEMMA MessageTypes ==
    ASSUME Types, Places, SlotsTaken, undefined = {}, WindowMessage \/ Cleared
    PROVE  Types'
<1> USE Zeros DEF Types, TypeOK, Goto, Threads, Inside, Ends, InOnOk, pictures, dialog, server, net,
                  threads, history, None
<1>1. CASE Cleared
  BY <1>1 DEF Cleared
<1>2. CASE WindowMessage
  <2> DEFINE m == Head(posted)
  <2>1. posted' \in Seq(Messages) /\ m \in Messages
    BY <1>2, HeadTailProperties DEF WindowMessage
  <2>2. CASE m.kind = "e_connected" /\ OnConnected
    <3>1. toServer' \in Seq(Requests) /\ UNCHANGED toClient /\ lossy' \in BOOLEAN
      BY <2>2, GetFormatsTypes DEF OnConnected
    <3> QED
      BY <1>2, <2>1, <2>2, <3>1 DEF WindowMessage, OnConnected
  <2>3. CASE /\ m.kind = "e_list" /\ AddCameras(content[m.slot])
             /\ UNCHANGED <<connected, bVideo, bits, asked, net, faults, lossy>>
    <3>1. content[m.slot] \in 0 .. MaxLists
      <4>1. 1 \in DOMAIN posted /\ m = posted[1]
        BY <1>2, LenProperties, EmptySeq DEF WindowMessage
      <4>2. m.slot \in Slots
        BY <2>3, <4>1 DEF SlotsTaken
      <4> QED
        BY <4>2
    <3>2. /\ buf' \in 0 .. MaxLists /\ items' \in {"none", "kept", "freed"}
          /\ enabled' \subseteq {"IDOK", "IDABORT", "ID_REFRESH", "ID_HIDE"}
      BY <2>3, <3>1 DEF AddCameras
    <3> QED
      BY <1>2, <2>1, <2>3, <3>2 DEF WindowMessage
  <2>4. CASE m.kind = "e_set" /\ OnSet /\ UNCHANGED <<net, faults, lossy>>
    BY <1>2, <2>1, <2>4 DEF WindowMessage, OnSet
  <2>5. CASE m.kind = "e_disconnected" /\ OnDisconnected /\ UNCHANGED <<net, faults, lossy>>
    <3>1. enabled' \subseteq {"IDOK", "IDABORT", "ID_REFRESH", "ID_HIDE"}
      BY <2>5 DEF OnDisconnected
    <3> QED
      BY <1>2, <2>1, <2>5, <3>1 DEF WindowMessage, OnDisconnected, FreeFormats
  <2> QED
    BY <1>2, <2>2, <2>3, <2>4, <2>5 DEF WindowMessage
<1> QED
  BY <1>1, <1>2

LEMMA OneMore ==
    ASSUME NEW n \in 0 .. MaxLists, n < MaxLists
    PROVE  n + 1 \in 0 .. MaxLists
BY BoundsAssumption

LEMMA ReplyTypes ==
    ASSUME Types, NEW k \in {"fmts", "stop", "H264", "bye"}, NEW n \in 0 .. MaxLists, Reply(k, n)
    PROVE  toClient' \in Seq(Packets)
<1>1. Packet(k, n) \in Packets
  BY Packed
<1> QED
  BY <1>1, AppendProperties DEF Reply, Types

LEMMA OtherTypes ==
    ASSUME Types, ServerRecv \/ SendFrame \/ CameraFails \/ Goodbye \/ Lose \/ Duplicate
    PROVE  Types'
<1> USE Zeros DEF Types, TypeOK, pictures, dialog, server, net, threads, history, None
<1>1. CASE ServerRecv
  <2>1. toServer' \in Seq(Requests)
    BY <1>1, HeadTailProperties DEF ServerRecv
  <2>2. toClient' \in Seq(Packets) /\ lists' \in 0 .. MaxLists
    <3>1. CASE lists < MaxLists /\ lists' = lists + 1 /\ Reply("fmts", lists + 1)
      <4>1. lists + 1 \in 0 .. MaxLists
        <5>1. lists < MaxLists /\ lists \in 0 .. MaxLists
          BY <3>1
        <5> QED
          BY <5>1, OneMore
      <4> QED
        BY <3>1, <4>1, ReplyTypes
    <3>2. CASE Reply("stop", None) /\ UNCHANGED lists
      BY <3>2, ReplyTypes
    <3>3. CASE UNCHANGED <<lists, toClient>>
      BY <3>3
    <3> QED
      BY <1>1, <3>1, <3>2, <3>3 DEF ServerRecv
  <2>3. camera' \in {"off", "on", "failed", "stopped", "gone"}
    BY <1>1 DEF ServerRecv
  <2> QED
    BY <1>1, <2>1, <2>2, <2>3 DEF ServerRecv
<1>2. CASE SendFrame
  BY <1>2, ReplyTypes DEF SendFrame
<1>3. CASE CameraFails
  BY <1>3, ReplyTypes DEF CameraFails
<1>4. CASE Goodbye
  BY <1>4, ReplyTypes DEF Goodbye
<1>5. CASE Lose
  <2>1. toServer' \in Seq(Requests) /\ toClient' \in Seq(Packets)
    <3>1. CASE toClient # <<>> /\ toClient' = Tail(toClient) /\ UNCHANGED toServer
      BY <3>1, HeadTailProperties
    <3>2. CASE toServer # <<>> /\ toServer' = Tail(toServer) /\ UNCHANGED toClient
      BY <3>2, HeadTailProperties
    <3> QED
      BY <1>5, <3>1, <3>2 DEF Lose
  <2> QED
    BY <1>5, <2>1 DEF Lose
<1>6. CASE Duplicate
  <2>1. CASE toClient # <<>> /\ toClient' = Append(toClient, Head(toClient)) /\ UNCHANGED toServer
    <3>1. toClient' \in Seq(Packets)
      BY <2>1, HeadTailProperties, AppendProperties
    <3> QED
      BY <1>6, <2>1, <3>1 DEF Duplicate
  <2>2. CASE toServer # <<>> /\ toServer' = Append(toServer, Head(toServer)) /\ UNCHANGED toClient
    <3>1. toServer' \in Seq(Requests)
      BY <2>2, HeadTailProperties, AppendProperties
    <3> QED
      BY <1>6, <2>2, <3>1 DEF Duplicate
  <2> QED
    BY <1>6, <2>1, <2>2 DEF Duplicate
<1> QED
  BY <1>1, <1>2, <1>3, <1>4, <1>5, <1>6

LEMMA TypesKept ==
    ASSUME Types, Places, SlotsTaken, [Next]_vars
    PROVE  Types'
<1>1. CASE UNCHANGED vars
  BY <1>1 DEF vars, threads, pictures, dialog, server, net, history, Types, TypeOK
<1>2. CASE Next
  <2>1. undefined = {}
    BY <1>2 DEF Next
  <2>2. \/ \E t \in Recv : OnRecv(t)
        \/ \E t \in Threads : Step(t)
        \/ OnOkStep \/ Click \/ WindowMessage \/ Cleared
        \/ ServerRecv \/ SendFrame \/ CameraFails \/ Goodbye \/ Lose \/ Duplicate
    BY <1>2 DEF Next, UIStep
  <2> QED
    BY <2>1, <2>2, RecvTypes, StepTypes, OnOkTypes, ClickTypes, MessageTypes, OtherTypes
<1> QED
  BY <1>1, <1>2

-----------------------------------------------------------------------------
\* A thread goes to another place; the others are where they were.
LEMMA Moves ==
    ASSUME Types, NEW t \in Threads, NEW l, Goto(t, l)
    PROVE  pc'[t] = l /\ \A u \in Threads \ {t} : pc'[u] = pc[u]
BY DEF Goto, Types

\* Who is where.
LEMMA PlacesMove ==
    ASSUME Types, Places, UNCHANGED users, NEW t \in Threads, NEW l, Goto(t, l),
           phase = "off" => phase' = "off", phase' = "off" => users = {},
           t \in users => l \in Inside \cup {"release", "clear"},
           t \notin users => l \in {"idle", "remove"} \cup Ends \/ (t = UI /\ l = "cleared"),
           t \notin users /\ l \in Ends => phase' = "off"
    PROVE  Places'
<1>1. pc'[t] = l /\ \A u \in Threads \ {t} : pc'[u] = pc[u]
  BY Moves
<1>2. /\ UI \notin Recv /\ UI \in Threads /\ \A u \in Recv : u \in Threads
      /\ \A u \in users : u \in Recv
  BY UIAssumption DEF Types, TypeOK, Threads
<1>3. ASSUME NEW u \in Recv
      PROVE  /\ pc'[u] \in {"idle", "remove"} \cup Inside \cup Ends
             /\ pc'[u] \in Inside => u \in users'
             /\ u \in users' => pc'[u] \in Inside \cup {"release", "clear"}
  <2>1. CASE u = t
    BY <1>1, <1>2, <2>1 DEF Inside, Ends
  <2>2. CASE u # t
    BY <1>1, <1>2, <2>2 DEF Places
  <2> QED
    BY <2>1, <2>2
<1>4. pc'[UI] \in {"idle", "remove", "cleared"} \cup InOnOk \cup Ends
  <2>1. CASE t = UI
    BY <1>1, <1>2, <2>1
  <2>2. CASE t # UI
    BY <1>1, <1>2, <2>2 DEF Places
  <2> QED
    BY <2>1, <2>2
<1>5. \A u \in Threads \ users' : pc'[u] \in Ends => phase' = "off"
  BY <1>1 DEF Places
<1> QED
  BY <1>3, <1>4, <1>5 DEF Places

LEMMA PlacesKept ==
    ASSUME Types, Places, [Next]_vars
    PROVE  Places'
<1> USE UIAssumption DEF Types, TypeOK, Places, Goto, Threads, Inside, Ends, InOnOk
<1>1. ASSUME UNCHANGED <<pc, users, phase>> PROVE Places'
  BY <1>1
<1>2. ASSUME NEW t \in Recv, OnRecv(t) PROVE Places'
  <2> DEFINE p == Head(toClient)
  <2>1. p.kind \in {"fmts", "stop", "H264", "bye"}
    <3>1. toClient \in Seq(Packets) /\ toClient # <<>>
      BY <1>2 DEF OnRecv
    <3>2. p \in Packets
      BY <3>1, HeadTailProperties
    <3> QED
      BY <3>2 DEF Packets
  <2>2. CASE p.kind = "bye"
    <3>1. pc' = [pc EXCEPT ![t] = "remove"] /\ UNCHANGED <<users, phase>> /\ pc[t] = "idle"
      BY <1>2, <2>2 DEF OnRecv
    <3> HIDE DEF p
    <3> QED
      BY <3>1
  <2>3. CASE p.kind # "bye"
    <3>1. /\ pc' = [pc EXCEPT ![t] = p.kind] /\ users' = users \cup {t}
          /\ p.kind \in {"fmts", "stop", "H264"} /\ phase = "live" /\ UNCHANGED phase
      BY <1>2, <2>1, <2>3 DEF OnRecv
    <3> HIDE DEF p
    <3> QED
      BY <3>1
  <2> QED
    BY <2>2, <2>3
<1>3. ASSUME NEW t \in Threads, OnFormats(t) \/ OnStop(t) PROVE Places'
  BY <1>3 DEF OnFormats, OnStop
<1>4. ASSUME NEW t \in Threads, ReleaseVid(t) PROVE Places'
  <2>1. /\ pc[t] = "release" /\ UNCHANGED <<users, phase>>
        /\ \/ pc' = [pc EXCEPT ![t] = "leave"] /\ t \in users
           \/ pc' = [pc EXCEPT ![t] = "post"] /\ t \notin users
           \/ pc' = [pc EXCEPT ![t] = "clear"]
    BY <1>4 DEF ReleaseVid
  <2>2. t \notin users => phase = "off"
    BY <2>1
  <2> QED
    BY <2>1, <2>2, PlacesMove
<1>5. ASSUME NEW t \in Threads, ClearVid(t) PROVE Places'
  <2>1. /\ pc[t] = "clear" /\ UNCHANGED <<users, phase>>
        /\ \/ pc' = [pc EXCEPT ![t] = "leave"] /\ t \in users
           \/ pc' = [pc EXCEPT ![t] = "post"] /\ t \notin users
    BY <1>5 DEF ClearVid
  <2>2. t \notin users => phase = "off"
    BY <2>1
  <2> QED
    BY <2>1, <2>2, PlacesMove
<1>6. ASSUME NEW t \in Threads, OnH264(t) \/ OnFrame(t) PROVE Places'
  BY <1>6 DEF OnH264, OnFrame
<1>7. ASSUME NEW t \in Threads, Leave(t) PROVE Places'
  <2>1. t \in users /\ t \in Recv /\ users' = users \ {t} /\ pc[t] \in {"leave", "fail"}
    BY <1>7 DEF Leave
  <2>2. CASE phase = "closing" /\ users = {t}
    <3>1. phase' = "off" /\ pc' = [pc EXCEPT ![t] = "release"] /\ users' = {}
      BY <1>7, <2>1, <2>2 DEF Leave
    <3> QED
      BY <2>1, <2>2, <3>1
  <2>3. CASE ~(phase = "closing" /\ users = {t})
    <3>1. /\ pc' = [pc EXCEPT ![t] = IF pc[t] = "fail" THEN "remove" ELSE "idle"]
          /\ UNCHANGED phase
      BY <1>7, <2>3 DEF Leave
    <3> QED
      BY <2>1, <3>1
  <2> QED
    BY <2>2, <2>3
<1>8. ASSUME NEW t \in Threads, RemoveConnection(t) PROVE Places'
  <2>1. pc[t] = "remove" /\ UNCHANGED users /\ t \notin users
    BY <1>8 DEF RemoveConnection
  <2>2. CASE phase = "live" /\ users = {}
    <3>1. Goto(t, "release") /\ phase' = "off"
      BY <1>8, <2>2 DEF RemoveConnection
    <3> QED
      BY <2>1, <2>2, <3>1, PlacesMove
  <2>3. CASE ~(phase = "live" /\ users = {})
    <3>1. Goto(t, IF t = UI THEN "cleared" ELSE "idle")
      <4>1. CASE phase = "live"
        BY <1>8, <2>3, <4>1 DEF RemoveConnection, Return
      <4>2. CASE phase # "live"
        BY <1>8, <4>2 DEF RemoveConnection, Return
      <4> QED
        BY <4>1, <4>2
    <3>2. (phase = "live" /\ phase' = "closing") \/ (phase # "live" /\ UNCHANGED phase)
      BY <1>8, <2>3 DEF RemoveConnection
    <3> QED
      BY <2>1, <3>1, <3>2, PlacesMove
  <2> QED
    BY <2>2, <2>3
<1>9. ASSUME NEW t \in Threads, PostDisconnected(t) PROVE Places'
  <2>1. /\ pc[t] = "post" /\ t \notin users /\ UNCHANGED <<users, phase>>
        /\ pc' = [pc EXCEPT ![t] = IF t = UI THEN "cleared" ELSE "idle"]
    BY <1>9 DEF PostDisconnected, Return
  <2> QED
    BY <2>1
<1>10. CASE OnOkStep \/ Cleared \/ OnDisconnectButton \/ \E y \in Formats : OnOk(y)
  <2>1. /\ pc[UI] \in InOnOk \cup {"idle", "cleared"} /\ UNCHANGED <<users, phase>>
        /\ \E l \in InOnOk \cup {"idle", "remove"} : pc' = [pc EXCEPT ![UI] = l]
    BY <1>10 DEF OnOkStep, StartRelease, StartSet, StartUndo, OnOkEnds, Cleared,
                 OnDisconnectButton, OnOk, Idle
  <2> QED
    BY <2>1
<1>11. CASE OnAbort \/ OnHide \/ OnRefresh \/ WindowMessage
  BY <1>1, <1>11 DEF OnAbort, OnHide, OnRefresh, WindowMessage, threads
<1>12. CASE ServerRecv \/ SendFrame \/ CameraFails \/ Goodbye \/ Lose \/ Duplicate
  BY <1>1, <1>12 DEF ServerRecv, SendFrame, CameraFails, Goodbye, Lose, Duplicate, threads
<1>13. CASE UNCHANGED vars
  BY <1>1, <1>13 DEF vars, threads
<1> QED
  BY <1>2, <1>3, <1>4, <1>5, <1>6, <1>7, <1>8, <1>9, <1>10, <1>11, <1>12, <1>13
  DEF Next, Step, UIStep, Click

LEMMA PostedSlots ==
    ASSUME Types, NEW m \in Messages, m.kind = "e_list" => m.slot \in Slots,
           \A i \in DOMAIN posted : posted[i].kind = "e_list" => posted[i].slot \in Slots
    PROVE  \A i \in DOMAIN Append(posted, m) :
               Append(posted, m)[i].kind = "e_list" => Append(posted, m)[i].slot \in Slots
<1>1. /\ DOMAIN Append(posted, m) = 1 .. Len(posted) + 1 /\ Len(posted) \in Nat
      /\ DOMAIN posted = 1 .. Len(posted)
      /\ \A i \in 1 .. Len(posted) : Append(posted, m)[i] = posted[i]
      /\ Append(posted, m)[Len(posted) + 1] = m
  BY AppendProperties, LenProperties DEF Types
<1> QED
  BY <1>1

LEMMA SlotsKept ==
    ASSUME Types, Places, SlotsTaken, [Next]_vars
    PROVE  SlotsTaken'
<1>1. ASSUME UNCHANGED <<users, slot, posted>> PROVE SlotsTaken'
  BY <1>1 DEF SlotsTaken
<1>2. ASSUME NEW t \in Recv, OnRecv(t) PROVE SlotsTaken'
  <2>1. CASE Head(toClient).kind = "bye"
    BY <1>1, <1>2, <2>1 DEF OnRecv
  <2>2. CASE Head(toClient).kind # "bye"
    <3>1. t \notin users /\ users \subseteq Recv
      BY <1>2 DEF OnRecv, Places, Types, TypeOK, Inside
    <3>2. FirstFree \in Slots
      BY <3>1, FreeSlot
    <3> QED
      BY <1>2, <2>2, <3>1, <3>2 DEF OnRecv, SlotsTaken, Types, TypeOK
  <2> QED
    BY <2>1, <2>2
<1>3. ASSUME NEW t \in Threads, OnFormats(t) PROVE SlotsTaken'
  <2>1. t \in users /\ t \in Recv
    BY <1>3, UIAssumption DEF OnFormats, Places, Inside, Threads, InOnOk, Ends
  <2>2. slot[t] \in Slots /\ Posted("e_list", slot[t]) \in Messages
    BY <2>1, Packed DEF SlotsTaken, Types, TypeOK
  <2> QED
    BY <1>3, <2>2, PostedSlots DEF OnFormats, SlotsTaken, Posted
<1>4. ASSUME NEW t \in Threads, OnStop(t) \/ PostDisconnected(t) PROVE SlotsTaken'
  <2>1. /\ UNCHANGED <<users, slot>>
        /\ \E k \in {"e_set", "e_disconnected"} : posted' = Append(posted, Posted(k, 0))
    BY <1>4 DEF OnStop, PostDisconnected
  <2>2. PICK k \in {"e_set", "e_disconnected"} : posted' = Append(posted, Posted(k, 0))
    BY <2>1
  <2>3. Posted(k, 0) \in Messages /\ Posted(k, 0).kind # "e_list"
    BY Packed, Zeros DEF Posted
  <2> QED
    BY <2>1, <2>2, <2>3, PostedSlots DEF SlotsTaken
<1>5. ASSUME NEW t \in Threads, Leave(t) PROVE SlotsTaken'
  <2>1. users' = users \ {t} /\ slot' = [slot EXCEPT ![t] = 0] /\ UNCHANGED posted
    BY <1>5 DEF Leave
  <2> QED
    BY <2>1 DEF SlotsTaken, Types, TypeOK
<1>6. CASE WindowMessage
  <2>1. posted # <<>> /\ posted' = Tail(posted) /\ UNCHANGED <<users, slot>>
    BY <1>6 DEF WindowMessage, threads
  <2>2. /\ DOMAIN posted = 1 .. Len(posted) /\ DOMAIN Tail(posted) = 1 .. Len(posted) - 1
        /\ \A i \in 1 .. Len(posted) - 1 : Tail(posted)[i] = posted[i + 1]
        /\ Len(posted) \in Nat
    BY <2>1, HeadTailProperties, LenProperties DEF Types
  <2> QED
    BY <2>1, <2>2 DEF SlotsTaken
<1>7. ASSUME NEW t \in Threads, ReleaseVid(t) \/ ClearVid(t) \/ OnH264(t) \/ OnFrame(t)
                                  \/ RemoveConnection(t)
      PROVE  SlotsTaken'
  BY <1>1, <1>7 DEF ReleaseVid, ClearVid, OnH264, OnFrame, RemoveConnection
<1>8. CASE OnOkStep \/ Cleared \/ Click
  BY <1>1, <1>8 DEF OnOkStep, StartRelease, StartSet, StartUndo, OnOkEnds, Cleared, Click,
                    OnDisconnectButton, OnOk, OnAbort, OnHide, OnRefresh, threads
<1>9. CASE ServerRecv \/ SendFrame \/ CameraFails \/ Goodbye \/ Lose \/ Duplicate
  BY <1>1, <1>9 DEF ServerRecv, SendFrame, CameraFails, Goodbye, Lose, Duplicate, threads
<1>10. CASE UNCHANGED vars
  BY <1>1, <1>10 DEF vars, threads
<1> QED
  BY <1>2, <1>3, <1>4, <1>5, <1>6, <1>7, <1>8, <1>9, <1>10 DEF Next, Step, UIStep


-----------------------------------------------------------------------------
\* The list of cameras.
LEMMA ListInit == Init => ListInv
<1> SUFFICES ASSUME Init PROVE ListInv
  OBVIOUS
<1>1. posted = <<Posted("e_connected", 0)>> /\ enabled = {} /\ items = "none"
  BY DEF Init
<1>2. pc[UI] \notin InOnOk /\ AtFormats = {}
  BY UIAssumption DEF Init, AtFormats, Threads, InOnOk
<1>3. Where(toServer, {"init"}) = {} /\ Where(toClient, Answers) = {}
  BY DEF Init, Where
<1>4. \A i \in DOMAIN posted : i = 1
  BY <1>1
<1>5. Connecting
  BY <1>1, <1>2, <1>4 DEF Connecting
<1>6. Single(Where(posted, ListMessages))
  BY <1>4 DEF Single, Where
<1> QED
  BY <1>1, <1>2, <1>3, <1>5, <1>6 DEF ListInv, OneAnswer, Single

LEMMA ConnectingAppend ==
    ASSUME Types, Connecting, UNCHANGED enabled, pc[UI] \notin InOnOk => pc'[UI] \notin InOnOk,
           NEW m \in Messages, m.kind # "e_connected", posted' = Append(posted, m)
    PROVE  Connecting'
<1>1. /\ DOMAIN posted' = 1 .. Len(posted) + 1 /\ Len(posted) \in Nat
      /\ DOMAIN posted = 1 .. Len(posted)
      /\ \A i \in 1 .. Len(posted) : posted'[i] = posted[i]
      /\ posted'[Len(posted) + 1] = m
  BY AppendProperties, LenProperties DEF Types
<1> QED
  BY <1>1 DEF Connecting

LEMMA ConnectingKept ==
    ASSUME Types, Places, Connecting, [Next]_vars
    PROVE  Connecting'
<1> USE UIAssumption DEF Threads
<1>1. ASSUME UNCHANGED <<posted, enabled>>, pc[UI] \notin InOnOk => pc'[UI] \notin InOnOk
      PROVE  Connecting'
  BY <1>1 DEF Connecting
<1>2. ASSUME UNCHANGED posted, \A i \in DOMAIN posted : posted[i].kind # "e_connected"
      PROVE  Connecting'
  BY <1>2 DEF Connecting
<1>3. ASSUME NEW t \in Recv, OnRecv(t) PROVE Connecting'
  <2>1. \E l : pc' = [pc EXCEPT ![t] = l]
    BY <1>3 DEF OnRecv, Goto
  <2>2. pc'[UI] = pc[UI]
    BY <1>3, <2>1 DEF Types
  <2> QED
    BY <1>1, <1>3, <2>2 DEF OnRecv, dialog
<1>4. ASSUME NEW t \in Threads, Step(t) PROVE Connecting'
  <2>1. PICK l : pc' = [pc EXCEPT ![t] = l] /\ l \notin InOnOk
    <3>1. \A l \in {"leave", "release", "clear", "post", "decode", "fail", "remove", "idle",
                    "cleared"} : l \notin InOnOk
      BY DEF InOnOk
    <3>2. \E l \in {"leave", "release", "clear", "post", "decode", "fail", "remove", "idle",
                    "cleared"} : pc' = [pc EXCEPT ![t] = l]
      <4>1. CASE OnFormats(t) \/ OnStop(t) \/ OnH264(t) \/ OnFrame(t)
        BY <4>1 DEF OnFormats, OnStop, OnH264, OnFrame, Goto
      <4>2. CASE ReleaseVid(t) \/ ClearVid(t)
        BY <4>2 DEF ReleaseVid, ClearVid, Goto
      <4>3. CASE Leave(t)
        BY <4>3 DEF Leave, Goto
      <4>4. CASE PostDisconnected(t)
        BY <4>4 DEF PostDisconnected, Return, Goto
      <4>5. CASE RemoveConnection(t)
        <5>1. Goto(t, "release") \/ Return(t)
          <6>1. CASE phase = "live"
            BY <4>5, <6>1 DEF RemoveConnection
          <6>2. CASE phase # "live"
            BY <4>5, <6>2 DEF RemoveConnection
          <6> QED
            BY <6>1, <6>2
        <5> QED
          BY <5>1 DEF Return, Goto
      <4> QED
        BY <1>4, <4>1, <4>2, <4>3, <4>4, <4>5 DEF Step
    <3> QED
      BY <3>1, <3>2
  <2>2. pc[UI] \notin InOnOk => pc'[UI] \notin InOnOk
    BY <2>1 DEF Types
  <2>3. CASE OnFormats(t)
    <3>1. /\ posted' = Append(posted, Posted("e_list", slot[t])) /\ UNCHANGED enabled
          /\ t \in Recv
      BY <2>3 DEF OnFormats, dialog, Places, InOnOk, Ends
    <3>2. Posted("e_list", slot[t]) \in Messages /\ Posted("e_list", slot[t]).kind # "e_connected"
      BY <3>1, Packed DEF Posted, Types, TypeOK
    <3> QED
      BY <2>2, <3>1, <3>2, ConnectingAppend
  <2>4. CASE OnStop(t) \/ PostDisconnected(t)
    <3>1. \E k \in {"e_set", "e_disconnected"} :
            posted' = Append(posted, Posted(k, 0)) /\ UNCHANGED enabled
      BY <2>4 DEF OnStop, PostDisconnected, dialog
    <3>2. PICK k \in {"e_set", "e_disconnected"} :
            posted' = Append(posted, Posted(k, 0)) /\ UNCHANGED enabled
      BY <3>1
    <3>3. Posted(k, 0) \in Messages /\ Posted(k, 0).kind # "e_connected"
      BY Packed, Zeros DEF Posted
    <3> QED
      BY <2>2, <3>2, <3>3, ConnectingAppend
  <2>5. CASE ~OnFormats(t) /\ ~OnStop(t) /\ ~PostDisconnected(t)
    <3>1. UNCHANGED <<posted, enabled>>
      BY <1>4, <2>5 DEF Step, ReleaseVid, ClearVid, OnH264, OnFrame, Leave, RemoveConnection, dialog
    <3> QED
      BY <1>1, <2>2, <3>1
  <2> QED
    BY <2>3, <2>4, <2>5
<1>5. CASE OnOkStep
  <2>1. pc[UI] \in InOnOk /\ UNCHANGED posted
    BY <1>5 DEF OnOkStep, StartRelease, StartSet, StartUndo, OnOkEnds, InOnOk
  <2> QED
    BY <1>2, <2>1 DEF Connecting
<1>6. CASE Click /\ ~OnDisconnectButton
  <2>1. enabled # {} /\ UNCHANGED posted
    BY <1>6 DEF Click, OnOk, OnAbort, OnHide, OnRefresh
  <2> QED
    BY <1>2, <2>1 DEF Connecting
<1>7. CASE OnDisconnectButton \/ Cleared
  <2>1. UNCHANGED <<posted, enabled>> /\ pc'[UI] \notin InOnOk
    BY <1>7 DEF OnDisconnectButton, Cleared, dialog, Goto, Types, InOnOk
  <2> QED
    BY <1>1, <2>1
<1>8. CASE WindowMessage
  <2>1. posted # <<>> /\ posted' = Tail(posted)
    BY <1>8 DEF WindowMessage
  <2>2. /\ DOMAIN posted = 1 .. Len(posted) /\ DOMAIN posted' = 1 .. Len(posted) - 1
        /\ \A i \in 1 .. Len(posted) - 1 : posted'[i] = posted[i + 1]
        /\ Len(posted) \in Nat
    BY <2>1, HeadTailProperties, LenProperties DEF Types
  <2>3. \A i \in DOMAIN posted' : i + 1 \in DOMAIN posted /\ i + 1 # 1
    BY <2>2
  <2> QED
    BY <2>2, <2>3 DEF Connecting
<1>9. CASE ServerRecv \/ SendFrame \/ CameraFails \/ Goodbye \/ Lose \/ Duplicate
  BY <1>1, <1>9 DEF ServerRecv, SendFrame, CameraFails, Goodbye, Lose, Duplicate, threads, dialog
<1>10. CASE UNCHANGED vars
  BY <1>1, <1>10 DEF vars, threads, dialog
<1> QED
  BY <1>3, <1>4, <1>5, <1>6, <1>7, <1>8, <1>9, <1>10 DEF Next, UIStep

\* Fewer answers on their way, and no list that was not there.
Thinner(X, Y) == (X = {} => Y = {}) /\ (Single(X) => Single(Y))

LEMMA FewerAnswers ==
    ASSUME OneAnswer, UNCHANGED items \/ items' = "none",
           Thinner(Where(toServer, {"init"}), Where(toServer', {"init"})),
           Thinner(Where(toClient, Answers), Where(toClient', Answers)),
           Thinner(AtFormats, AtFormats'),
           Thinner(Where(posted, ListMessages), Where(posted', ListMessages))
    PROVE  OneAnswer'
BY DEF OneAnswer, Thinner, Single

LEMMA ThinTail ==
    ASSUME NEW T, NEW s \in Seq(T), NEW K
    PROVE  s # <<>> => Thinner(Where(s, K), Where(Tail(s), K))
BY WhereTail DEF Thinner

LEMMA ThinAppend ==
    ASSUME NEW T, NEW s \in Seq(T), NEW e \in T, NEW K, e \notin K
    PROVE  Thinner(Where(s, K), Where(Append(s, e), K))
BY WhereAppend DEF Thinner

\* A request that is not 'init' is sent, or not; or one is taken.
LEMMA SentOther ==
    ASSUME Types, NEW k \in Requests \ {"init"}, Sent(k) \/ NotSent
    PROVE  Thinner(Where(toServer, {"init"}), Where(toServer', {"init"})) /\ UNCHANGED toClient
<1>1. CASE NotSent
  BY <1>1 DEF NotSent, net, Thinner
<1>2. CASE Sent(k) /\ camera = "gone"
  BY <1>2, NoneInEmpty DEF Sent, Thinner, Single
<1>3. CASE Sent(k) /\ camera # "gone"
  <2>1. toServer' = Append(toServer, k) /\ UNCHANGED toClient
    BY <1>3 DEF Sent
  <2> QED
    BY <2>1, ThinAppend DEF Types
<1> QED
  BY <1>1, <1>2, <1>3

\* The request: nothing was on its way.
LEMMA OneRequest ==
    ASSUME Types, GetFormats, UNCHANGED pc, items' = "none",
           Where(toServer, {"init"}) = {}, Where(toClient, Answers) = {}, AtFormats = {},
           Where(posted', ListMessages) = {}
    PROVE  OneAnswer'
<1>1. Single(Where(toServer', {"init"})) /\ UNCHANGED toClient
  <2>1. CASE NotSent
    BY <2>1 DEF NotSent, net, Single
  <2>2. CASE Sent("init") /\ camera = "gone"
    BY <2>2, NoneInEmpty DEF Sent, Single
  <2>3. CASE Sent("init") /\ camera # "gone"
    <3>1. toServer' = Append(toServer, "init") /\ UNCHANGED toClient /\ "init" \in Requests
      BY <2>3 DEF Sent, Requests
    <3> QED
      BY <3>1, WhereAppend DEF Types
  <2> QED
    BY <2>1, <2>2, <2>3 DEF GetFormats
<1>2. AtFormats' = {}
  BY DEF AtFormats
<1> QED
  BY <1>1, <1>2 DEF OneAnswer, Single

\* A packet that is not 'fmts' is sent, or dropped.
LEMMA RepliedOther ==
    ASSUME Types, NEW k \in {"stop", "H264", "bye"}, Reply(k, None)
    PROVE  Thinner(Where(toClient, Answers), Where(toClient', Answers))
<1>1. CASE phase = "live"
  <2>1. toClient' = Append(toClient, Packet(k, None))
    BY <1>1 DEF Reply
  <2>2. Packet(k, None) \in Packets \ Answers
    BY Packed, Zeros DEF None, Packet, Answers
  <2> QED
    BY <2>1, <2>2, ThinAppend DEF Types
<1>2. CASE phase # "live"
  BY <1>2 DEF Reply, Thinner
<1> QED
  BY <1>1, <1>2

LEMMA AnswerServed ==
    ASSUME Types, OneAnswer, ServerRecv
    PROVE  OneAnswer'
<1>1. /\ toServer # <<>> /\ toServer' = Tail(toServer) /\ UNCHANGED <<items, posted, pc>>
      /\ UNCHANGED <<AtFormats, Where(posted, ListMessages)>>
  BY DEF ServerRecv, dialog, threads, AtFormats
<1>2. Thinner(Where(toServer, {"init"}), Where(toServer', {"init"}))
  BY <1>1, ThinTail DEF Types
<1>3. CASE UNCHANGED toClient
  BY <1>1, <1>2, <1>3, FewerAnswers DEF Thinner
<1>4. CASE Reply("stop", None)
  BY <1>1, <1>2, <1>4, RepliedOther, FewerAnswers DEF Thinner
<1>5. CASE Head(toServer) = "init" /\ lists < MaxLists /\ Reply("fmts", lists + 1) /\ phase = "live"
  <2>1. Packet("fmts", lists + 1) \in Packets
    <3>1. lists + 1 \in 0 .. MaxLists
      BY <1>5, OneMore DEF Types
    <3> QED
      BY <3>1, Packed
  <2>2. 1 \in Where(toServer, {"init"})
    <3>1. 1 \in DOMAIN toServer /\ Head(toServer) = toServer[1]
      BY <1>1, LenProperties, EmptySeq DEF Types
    <3> QED
      BY <1>5, <3>1 DEF Where
  <2>3. Where(toServer', {"init"}) = {}
    BY <1>1, <1>5, WhereTail DEF Types, OneAnswer
  <2>4. Single(Where(toClient', Answers))
    BY <1>5, <2>1, <2>2, WhereAppend DEF Types, Reply, OneAnswer
  <2>5. items = "none" /\ AtFormats = {} /\ Where(posted, ListMessages) = {}
    BY <2>2 DEF OneAnswer
  <2> QED
    BY <1>1, <2>3, <2>4, <2>5 DEF OneAnswer, Single
<1> QED
  BY <1>3, <1>4, <1>5 DEF ServerRecv, Reply

LEMMA AnswerReceived ==
    ASSUME Types, Places, OneAnswer, NEW t \in Recv, OnRecv(t)
    PROVE  OneAnswer'
<1> DEFINE p == Head(toClient)
<1>1. /\ toClient # <<>> /\ toClient' = Tail(toClient) /\ UNCHANGED <<items, posted, toServer>>
      /\ pc[t] = "idle"
  BY DEF OnRecv, dialog
<1>2. Thinner(Where(toClient, Answers), Where(toClient', Answers))
  BY <1>1, ThinTail DEF Types
<1>3. p \in Packets /\ 1 \in DOMAIN toClient /\ p = toClient[1]
  BY <1>1, HeadTailProperties, LenProperties, EmptySeq DEF Types
<1>4. CASE p.kind = "fmts"
  <2>1. p \in Answers /\ 1 \in Where(toClient, Answers)
    BY <1>3, <1>4 DEF Answers, Where
  <2>2. Where(toClient', Answers) = {}
    BY <1>1, <2>1, WhereTail DEF Types, OneAnswer
  <2>3. AtFormats' = {t}
    <3>1. pc' = [pc EXCEPT ![t] = "fmts"]
      BY <1>4 DEF OnRecv, Goto
    <3>2. AtFormats = {}
      BY <2>1 DEF OneAnswer
    <3> HIDE DEF p
    <3> QED
      BY <3>1, <3>2 DEF AtFormats, Types, Threads
  <2>4. /\ items = "none" /\ Where(toServer, {"init"}) = {} /\ Where(posted, ListMessages) = {}
    BY <2>1 DEF OneAnswer
  <2> QED
    BY <1>1, <2>2, <2>3, <2>4 DEF OneAnswer, Single
<1>5. CASE p.kind # "fmts"
  <2>1. \E l : l # "fmts" /\ pc' = [pc EXCEPT ![t] = l]
    BY <1>5 DEF OnRecv, Goto
  <2>2. AtFormats' = AtFormats
    BY <1>1, <2>1 DEF AtFormats, Types, Threads
  <2> QED
    BY <1>1, <1>2, <2>2, FewerAnswers DEF Thinner
<1> QED
  BY <1>4, <1>5

LEMMA AnswerPosted ==
    ASSUME Types, Places, OneAnswer, NEW t \in Threads, OnFormats(t)
    PROVE  OneAnswer'
<1>1. /\ pc[t] = "fmts" /\ pc' = [pc EXCEPT ![t] = "leave"]
      /\ posted' = Append(posted, Posted("e_list", slot[t]))
      /\ UNCHANGED <<items, toServer, toClient>>
  BY DEF OnFormats, Goto, dialog, net
<1>2. t \in AtFormats
  BY <1>1, UIAssumption DEF AtFormats, Places, Threads, InOnOk, Ends
<1>3. AtFormats' = {}
  BY <1>1, <1>2 DEF AtFormats, Types, Threads, OneAnswer, Single
<1>4. /\ items = "none" /\ Where(toServer, {"init"}) = {} /\ Where(toClient, Answers) = {}
      /\ Where(posted, ListMessages) = {}
  BY <1>2 DEF OneAnswer
<1>5. Posted("e_list", slot[t]) \in Messages
  BY <1>2, Packed DEF AtFormats, Types, TypeOK
<1>6. Single(Where(posted', ListMessages))
  BY <1>1, <1>4, <1>5, WhereAppend DEF Types
<1> QED
  BY <1>1, <1>3, <1>4, <1>6 DEF OneAnswer, Single

LEMMA AnswerTaken ==
    ASSUME Types, OneAnswer, WindowMessage
    PROVE  OneAnswer'
<1> DEFINE m == Head(posted)
<1>1. posted # <<>> /\ posted' = Tail(posted) /\ UNCHANGED <<pc, AtFormats>>
  BY DEF WindowMessage, threads, AtFormats
<1>2. m \in Messages /\ 1 \in DOMAIN posted /\ m = posted[1]
  BY <1>1, HeadTailProperties, LenProperties, EmptySeq DEF Types
<1>3. Thinner(Where(posted, ListMessages), Where(posted', ListMessages))
  BY <1>1, ThinTail DEF Types
<1>4. CASE m.kind \in {"e_connected", "e_list"}
  <2>1. m \in ListMessages /\ 1 \in Where(posted, ListMessages)
    BY <1>2, <1>4 DEF ListMessages, Where
  <2>2. Where(posted', ListMessages) = {}
    BY <1>1, <2>1, WhereTail DEF Types, OneAnswer
  <2>3. /\ items = "none" /\ Where(toServer, {"init"}) = {} /\ Where(toClient, Answers) = {}
        /\ AtFormats = {}
    BY <2>1 DEF OneAnswer
  <2>4. CASE m.kind = "e_connected"
    <3>1. GetFormats /\ UNCHANGED items
      BY <2>4 DEF WindowMessage, OnConnected
    <3> QED
      BY <1>1, <2>2, <2>3, <3>1, OneRequest
  <2>5. CASE m.kind = "e_list"
    <3>1. UNCHANGED <<toServer, toClient>>
      BY <2>5 DEF WindowMessage, net
    <3> QED
      BY <1>1, <2>2, <2>3, <3>1 DEF OneAnswer, Single
  <2> QED
    BY <1>4, <2>4, <2>5
<1>5. CASE m.kind \notin {"e_connected", "e_list"}
  <2>1. /\ UNCHANGED <<toServer, toClient>> /\ (UNCHANGED items \/ items' = "none")
    BY <1>5 DEF WindowMessage, net, OnSet, OnDisconnected, FreeFormats
  <2> QED
    BY <1>1, <1>3, <2>1, FewerAnswers DEF Thinner
<1> QED
  BY <1>4, <1>5

LEMMA OneAnswerKept ==
    ASSUME Types, Places, ListInv, [Next]_vars, ~impatient', ~doubled'
    PROVE  OneAnswer' /\ items' # "freed"
<1>1. OneAnswer /\ items # "freed"
  <2>1. ~impatient /\ ~doubled
    <3>1. CASE UNCHANGED <<impatient, doubled>>
      BY <3>1
    <3>2. CASE Next
      <4>1. CASE \E t \in Recv : OnRecv(t)
        BY <4>1 DEF OnRecv, history
      <4>2. CASE \E t \in Threads : Step(t)
        <5>1. PICK t \in Threads : Step(t)
          BY <4>2
        <5>2. UNCHANGED <<impatient, doubled>>
          BY <5>1 DEF Step, OnFormats, OnStop, ReleaseVid, ClearVid, OnH264, OnFrame, Leave,
                      RemoveConnection, PostDisconnected, history
        <5> QED
          BY <5>2
      <4>3. CASE UIStep
        <5>1. UNCHANGED <<impatient, doubled>>
          BY <4>3 DEF UIStep, OnOkStep, StartRelease, StartSet, StartUndo, OnOkEnds, Cleared,
                      WindowMessage, history
        <5> QED
          BY <5>1
      <4>4. CASE Click /\ ~OnRefresh
        <5>1. UNCHANGED <<impatient, doubled>>
          BY <4>4 DEF Click, OnOk, OnAbort, OnHide, OnDisconnectButton, history
        <5> QED
          BY <5>1
      <4>6. CASE OnRefresh
        BY <4>6 DEF OnRefresh, Types, TypeOK
      <4>5. CASE ServerRecv \/ SendFrame \/ CameraFails \/ Goodbye \/ Lose \/ Duplicate
        BY <4>5 DEF ServerRecv, SendFrame, CameraFails, Goodbye, Lose, Duplicate, history
      <4> QED
        BY <3>2, <4>1, <4>2, <4>3, <4>4, <4>5, <4>6 DEF Next
    <3> QED
      BY <3>1, <3>2 DEF vars, history
  <2> QED
    BY <2>1 DEF ListInv
<1>2. ASSUME UNCHANGED <<toServer, toClient, posted, items, AtFormats>>
      PROVE  OneAnswer' /\ items' # "freed"
  BY <1>1, <1>2, FewerAnswers DEF Thinner
<1>3. ASSUME NEW t \in Recv, OnRecv(t) PROVE OneAnswer' /\ items' # "freed"
  BY <1>1, <1>3, AnswerReceived DEF OnRecv, dialog
<1>4. ASSUME NEW t \in Threads, Step(t) PROVE OneAnswer' /\ items' # "freed"
  <2>1. UNCHANGED <<toServer, items>>
    BY <1>4 DEF Step, OnFormats, OnStop, ReleaseVid, ClearVid, OnH264, OnFrame, Leave,
                RemoveConnection, PostDisconnected, net, dialog
  <2>2. CASE OnFormats(t)
    BY <1>1, <2>1, <2>2, AnswerPosted
  <2>3. CASE ~OnFormats(t)
    <3>1. AtFormats' = AtFormats
      <4>1. \E l : pc' = [pc EXCEPT ![t] = l] /\ l # "fmts"
        <5>1. CASE OnStop(t) \/ OnH264(t) \/ OnFrame(t)
          BY <5>1 DEF OnStop, OnH264, OnFrame, Goto
        <5>2. CASE ReleaseVid(t) \/ ClearVid(t)
          BY <5>2 DEF ReleaseVid, ClearVid, Goto
        <5>3. CASE Leave(t)
          BY <5>3 DEF Leave, Goto
        <5>4. CASE PostDisconnected(t)
          <6>1. pc' = [pc EXCEPT ![t] = "cleared"] \/ pc' = [pc EXCEPT ![t] = "idle"]
            BY <5>4 DEF PostDisconnected, Return, Goto
          <6> QED
            BY <6>1
        <5>5. CASE RemoveConnection(t)
          <6>1. Goto(t, "release") \/ Return(t)
            <7>1. CASE phase = "live"
              BY <5>5, <7>1 DEF RemoveConnection
            <7>2. CASE phase # "live"
              BY <5>5, <7>2 DEF RemoveConnection
            <7> QED
              BY <7>1, <7>2
          <6> QED
            BY <6>1 DEF Return, Goto
        <5> QED
          BY <1>4, <2>3, <5>1, <5>2, <5>3, <5>4, <5>5 DEF Step
      <4>2. pc[t] # "fmts"
        BY <1>4, <2>3 DEF Step, OnFormats, OnStop, ReleaseVid, ClearVid, OnH264, OnFrame, Leave,
                          RemoveConnection, PostDisconnected
      <4> QED
        BY <4>1, <4>2 DEF AtFormats, Types, Threads
    <3>2. Thinner(Where(toClient, Answers), Where(toClient', Answers))
      <4>1. CASE UNCHANGED toClient
        BY <4>1 DEF Thinner
      <4>2. CASE RemoveConnection(t)
        <5>1. toClient' = <<>>
          BY <4>2 DEF RemoveConnection
        <5> QED
          BY <5>1, NoneInEmpty DEF Thinner, Single
      <4> QED
        BY <1>4, <4>1, <4>2 DEF Step, OnFormats, OnStop, ReleaseVid, ClearVid, OnH264, OnFrame,
                                Leave, PostDisconnected, net
    <3>3. Thinner(Where(posted, ListMessages), Where(posted', ListMessages))
      <4>1. CASE UNCHANGED posted
        BY <4>1 DEF Thinner
      <4>2. CASE OnStop(t) \/ PostDisconnected(t)
        <5>1. \E k \in {"e_set", "e_disconnected"} : posted' = Append(posted, Posted(k, 0))
          BY <4>2 DEF OnStop, PostDisconnected
        <5>2. PICK k \in {"e_set", "e_disconnected"} : posted' = Append(posted, Posted(k, 0))
          BY <5>1
        <5>3. Posted(k, 0) \in Messages /\ Posted(k, 0) \notin ListMessages
          BY Packed, Zeros DEF Posted, ListMessages
        <5> QED
          BY <5>2, <5>3, ThinAppend DEF Types
      <4> QED
        BY <1>4, <2>3, <4>1, <4>2 DEF Step, ReleaseVid, ClearVid, OnH264, OnFrame, Leave,
                                      RemoveConnection
    <3> QED
      BY <1>1, <2>1, <3>1, <3>2, <3>3, FewerAnswers DEF Thinner
  <2> QED
    BY <2>2, <2>3
<1>5. CASE OnOkStep \/ Cleared \/ OnDisconnectButton \/ \E y \in Formats : OnOk(y)
  <2>1. \E l \in InOnOk \cup {"idle", "remove"} : pc' = [pc EXCEPT ![UI] = l]
    BY <1>5 DEF OnOkStep, StartRelease, StartSet, StartUndo, OnOkEnds, Cleared,
                OnDisconnectButton, OnOk, Goto, InOnOk
  <2>2. AtFormats' = AtFormats
    BY <2>1, UIAssumption DEF AtFormats, Types, Threads
  <2>3. /\ UNCHANGED <<posted, items>>
        /\ UNCHANGED <<toServer, toClient>> \/ Sent("strt") \/ NotSent
    BY <1>5 DEF OnOkStep, StartRelease, StartSet, StartUndo, OnOkEnds, Cleared,
                OnDisconnectButton, OnOk, dialog, net
  <2>4. /\ Thinner(Where(toServer, {"init"}), Where(toServer', {"init"})) /\ UNCHANGED toClient
    <3>1. "strt" \in Requests \ {"init"}
      BY DEF Requests
    <3> QED
      BY <2>3, <3>1, SentOther DEF Thinner
  <2> QED
    BY <1>1, <2>2, <2>3, <2>4, FewerAnswers DEF Thinner
<1>6. CASE OnAbort
  <2>1. /\ Thinner(Where(toServer, {"init"}), Where(toServer', {"init"})) /\ UNCHANGED toClient
    <3>1. "stop" \in Requests \ {"init"}
      BY DEF Requests
    <3> QED
      BY <1>6, <3>1, SentOther DEF OnAbort
  <2>2. UNCHANGED <<posted, items, AtFormats>>
    BY <1>6 DEF OnAbort, threads, AtFormats
  <2> QED
    BY <1>1, <2>1, <2>2, FewerAnswers DEF Thinner
<1>7. CASE OnHide
  BY <1>2, <1>7 DEF OnHide, threads, net, AtFormats
<1>8. CASE OnRefresh
  <2>1. /\ ~Awaited /\ enabled # {} /\ items' = "none" /\ GetFormats
        /\ UNCHANGED <<pc, posted>>
    BY <1>8 DEF OnRefresh, FreeFormats, threads, Types, TypeOK
  <2>2. Where(toServer, {"init"}) = {}
    BY <2>1, LenProperties DEF Awaited, Contains, Where, Types
  <2>3. Where(toClient, Answers) = {} /\ AtFormats = {}
    BY <2>1 DEF Awaited, Where, Answers, AtFormats
  <2>4. Where(posted', ListMessages) = {}
    BY <2>1 DEF Awaited, Where, ListMessages, ListInv, Connecting
  <2> QED
    BY <2>1, <2>2, <2>3, <2>4, OneRequest
<1>9. CASE WindowMessage
  <2>1. OneAnswer'
    BY <1>1, <1>9, AnswerTaken
  <2>2. items' # "freed"
    <3>1. CASE Head(posted).kind = "e_list"
      <4>1. Head(posted) \in ListMessages /\ 1 \in DOMAIN posted /\ Head(posted) = posted[1]
        BY <1>9, <3>1, HeadTailProperties, LenProperties, EmptySeq
        DEF WindowMessage, Types, ListMessages
      <4>2. items = "none"
        BY <1>1, <4>1 DEF OneAnswer, Where
      <4> QED
        BY <1>9, <3>1, <4>2 DEF WindowMessage, AddCameras
    <3>2. CASE Head(posted).kind # "e_list"
      BY <1>1, <1>9, <3>2 DEF WindowMessage, OnConnected, OnSet, OnDisconnected, FreeFormats
    <3> QED
      BY <3>1, <3>2
  <2> QED
    BY <2>1, <2>2
<1>10. CASE ServerRecv
  BY <1>1, <1>10, AnswerServed DEF ServerRecv, dialog
<1>11. CASE SendFrame \/ CameraFails \/ Goodbye
  <2>1. /\ UNCHANGED <<toServer, posted, items, AtFormats>>
        /\ Reply("H264", None) \/ Reply("stop", None) \/ Reply("bye", None)
    BY <1>11 DEF SendFrame, CameraFails, Goodbye, dialog, threads, AtFormats
  <2> QED
    BY <1>1, <2>1, RepliedOther, FewerAnswers DEF Thinner
<1>12. CASE Lose
  <2>1. UNCHANGED <<posted, items, AtFormats>>
    BY <1>12 DEF Lose, dialog, threads, AtFormats
  <2>2. /\ Thinner(Where(toServer, {"init"}), Where(toServer', {"init"}))
        /\ Thinner(Where(toClient, Answers), Where(toClient', Answers))
    <3>1. CASE toClient # <<>> /\ toClient' = Tail(toClient) /\ UNCHANGED toServer
      BY <3>1, ThinTail DEF Types, Thinner
    <3>2. CASE toServer # <<>> /\ toServer' = Tail(toServer) /\ UNCHANGED toClient
      BY <3>2, ThinTail DEF Types, Thinner
    <3> QED
      BY <1>12, <3>1, <3>2 DEF Lose
  <2> QED
    BY <1>1, <2>1, <2>2, FewerAnswers DEF Thinner
<1>13. CASE Duplicate
  BY <1>13 DEF Duplicate
<1>14. CASE UNCHANGED vars
  BY <1>2, <1>14 DEF vars, threads, dialog, net, AtFormats
<1> QED
  BY <1>3, <1>4, <1>5, <1>6, <1>7, <1>8, <1>9, <1>10, <1>11, <1>12, <1>13, <1>14
  DEF Next, UIStep, Click

LEMMA ListKept ==
    ASSUME Types, Places, ListInv, [Next]_vars
    PROVE  ListInv'
<1>1. Connecting'
  BY ConnectingKept DEF ListInv
<1>2. ~impatient' /\ ~doubled' => OneAnswer' /\ items' # "freed"
  BY OneAnswerKept
<1>3. items' = "kept" => buf' # None
  <2>1. UNCHANGED <<items, buf>> \/ items' # "kept" \/ buf' # None
    <3>1. CASE WindowMessage
      BY <3>1 DEF WindowMessage, OnConnected, AddCameras, OnSet, OnDisconnected, FreeFormats
    <3>2. CASE \E t \in Recv : OnRecv(t)
      BY <3>2 DEF OnRecv, dialog
    <3>3. CASE \E t \in Threads : Step(t)
      BY <3>3 DEF Step, OnFormats, OnStop, ReleaseVid, ClearVid, OnH264, OnFrame, Leave,
                  RemoveConnection, PostDisconnected, dialog
    <3>4. CASE OnOkStep \/ Cleared
      BY <3>4 DEF OnOkStep, StartRelease, StartSet, StartUndo, OnOkEnds, Cleared, dialog
    <3>5. CASE Click
      BY <3>5 DEF Click, OnOk, OnAbort, OnHide, OnRefresh, OnDisconnectButton, FreeFormats, dialog
    <3>6. CASE ServerRecv \/ SendFrame \/ CameraFails \/ Goodbye \/ Lose \/ Duplicate
      BY <3>6 DEF ServerRecv, SendFrame, CameraFails, Goodbye, Lose, Duplicate, dialog
    <3>7. CASE UNCHANGED vars
      BY <3>7 DEF vars, dialog
    <3> QED
      BY <3>1, <3>2, <3>3, <3>4, <3>5, <3>6, <3>7 DEF Next, UIStep
  <2> QED
    BY <2>1 DEF ListInv, None
<1> QED
  BY <1>1, <1>2, <1>3 DEF ListInv

-----------------------------------------------------------------------------
\* Places that say something of a picture.
Marks == {"clear", "release", "post", "decode"} \cup InOnOk

\* The steps that leave the pictures, and those places, alone.
Quiet ==
    \/ \E t \in Recv : OnRecv(t)
    \/ \E t \in Threads : OnFormats(t) \/ Leave(t) \/ RemoveConnection(t)
    \/ Cleared \/ WindowMessage \/ OnAbort \/ OnRefresh \/ OnDisconnectButton
    \/ ServerRecv \/ SendFrame \/ CameraFails \/ Goodbye \/ Lose \/ Duplicate
    \/ UNCHANGED vars

LEMMA QuietMoves ==
    ASSUME Types, Places, Quiet
    PROVE  /\ UNCHANGED <<pic, count, made, vid, yuy2, wnd, overtaken>>
           /\ \/ UNCHANGED pc
              \/ \E t \in Threads : \E l : /\ Goto(t, l) /\ pc[t] \notin Marks
                                           /\ l \notin Marks \/ (l = "release" /\ t \notin users')
<1> USE DEF Marks, InOnOk
<1>1. ASSUME NEW t \in Recv, OnRecv(t)
      PROVE  /\ UNCHANGED <<pic, count, made, vid, yuy2, wnd, overtaken>>
             /\ \E l : Goto(t, l) /\ pc[t] \notin Marks /\ l \notin Marks
  <2>1. Head(toClient).kind \in {"fmts", "stop", "H264", "bye"}
    <3>1. toClient \in Seq(Packets) /\ toClient # <<>>
      BY <1>1 DEF OnRecv, Types
    <3>2. Head(toClient) \in Packets
      BY <3>1, HeadTailProperties
    <3> QED
      BY <3>2 DEF Packets
  <2>2. CASE Head(toClient).kind = "bye"
    <3>1. Goto(t, "remove") /\ pc[t] = "idle"
      BY <1>1, <2>2 DEF OnRecv
    <3>2. UNCHANGED <<pic, count, made, vid, yuy2, wnd, overtaken>>
      BY <1>1 DEF OnRecv, pictures, history
    <3> QED
      BY <3>1, <3>2
  <2>3. CASE Head(toClient).kind # "bye"
    <3>1. Goto(t, Head(toClient).kind) /\ pc[t] = "idle"
      BY <1>1, <2>3 DEF OnRecv
    <3>2. UNCHANGED <<pic, count, made, vid, yuy2, wnd, overtaken>>
      BY <1>1 DEF OnRecv, pictures, history
    <3> QED
      BY <2>1, <2>3, <3>1, <3>2
  <2> QED
    BY <2>2, <2>3
<1>2. ASSUME NEW t \in Threads, OnFormats(t)
      PROVE  /\ UNCHANGED <<pic, count, made, vid, yuy2, wnd, overtaken>>
             /\ \E l : Goto(t, l) /\ pc[t] \notin Marks /\ l \notin Marks
  <2>1. Goto(t, "leave") /\ pc[t] = "fmts"
    BY <1>2 DEF OnFormats
  <2> QED
    BY <1>2, <2>1 DEF OnFormats, pictures, history
<1>3. ASSUME NEW t \in Threads, Leave(t)
      PROVE  /\ UNCHANGED <<pic, count, made, vid, yuy2, wnd, overtaken>>
             /\ \E l : /\ Goto(t, l) /\ pc[t] \notin Marks
                       /\ l \notin Marks \/ (l = "release" /\ t \notin users')
  <2>1. /\ pc[t] \in {"leave", "fail"} /\ t \notin users'
        /\ Goto(t, "release") \/ Goto(t, "remove") \/ Goto(t, "idle")
    BY <1>3 DEF Leave
  <2> QED
    BY <1>3, <2>1 DEF Leave, pictures, history
<1>4. ASSUME NEW t \in Threads, RemoveConnection(t)
      PROVE  /\ UNCHANGED <<pic, count, made, vid, yuy2, wnd, overtaken>>
             /\ \E l : /\ Goto(t, l) /\ pc[t] \notin Marks
                       /\ l \notin Marks \/ (l = "release" /\ t \notin users')
  <2>1. \/ Goto(t, "release") /\ t \notin users'
        \/ Goto(t, "cleared") \/ Goto(t, "idle")
    <3>1. CASE phase = "live"
      BY <1>4, <3>1 DEF RemoveConnection, Return
    <3>2. CASE phase # "live"
      BY <1>4, <3>2 DEF RemoveConnection, Return
    <3> QED
      BY <3>1, <3>2
  <2>2. pc[t] = "remove"
    BY <1>4 DEF RemoveConnection
  <2> QED
    BY <1>4, <2>1, <2>2 DEF RemoveConnection, pictures, history
<1>5. CASE Cleared
  <2>1. pc[UI] = "cleared" /\ Goto(UI, "idle") /\ UI \in Threads
    BY <1>5 DEF Cleared, Threads
  <2> QED
    BY <1>5, <2>1 DEF Cleared, pictures, history
<1>6. CASE OnDisconnectButton
  <2>1. pc[UI] = "idle" /\ Goto(UI, "remove") /\ UI \in Threads
    BY <1>6 DEF OnDisconnectButton, Threads, Idle
  <2> QED
    BY <1>6, <2>1 DEF OnDisconnectButton, pictures, history
<1>7. CASE WindowMessage \/ OnAbort \/ OnRefresh
  BY <1>7 DEF WindowMessage, OnAbort, OnRefresh, pictures, threads
<1>8. CASE ServerRecv \/ SendFrame \/ CameraFails \/ Goodbye \/ Lose \/ Duplicate
  BY <1>8 DEF ServerRecv, SendFrame, CameraFails, Goodbye, Lose, Duplicate, pictures, threads, history
<1>9. CASE UNCHANGED vars
  BY <1>9 DEF vars, pictures, threads, history
<1> QED
  <2>1. CASE \E t \in Recv : OnRecv(t)
    BY <1>1, <2>1 DEF Threads
  <2>2. CASE \E t \in Threads : OnFormats(t)
    BY <1>2, <2>2
  <2>3. CASE \E t \in Threads : Leave(t)
    BY <1>3, <2>3
  <2>4. CASE \E t \in Threads : RemoveConnection(t)
    BY <1>4, <2>4
  <2> QED
    BY <1>5, <1>6, <1>7, <1>8, <1>9, <2>1, <2>2, <2>3, <2>4 DEF Quiet

\* A step is quiet, or one of those that are not.
LEMMA Loud ==
    ASSUME [Next]_vars, ~Quiet
    PROVE  \/ \E t \in Threads : \/ OnStop(t) \/ ReleaseVid(t) \/ ClearVid(t) \/ OnH264(t)
                                 \/ OnFrame(t) \/ PostDisconnected(t)
           \/ OnOkStep \/ OnHide \/ \E y \in Formats : OnOk(y)
BY DEF Next, Quiet, Step, UIStep, Click

-----------------------------------------------------------------------------
\* The books.
LEMMA BooksFrame ==
    ASSUME Books, UNCHANGED <<made, vid, wnd, count>>, pic'[UI] = pic[UI],
           pc'[UI] \in InOnOk <=> pc[UI] \in InOnOk, pc'[UI] = "set" <=> pc[UI] = "set",
           pc'[UI] = "undo" <=> pc[UI] = "undo",
           \A t \in Threads : pc'[t] = "clear" <=> pc[t] = "clear"
    PROVE  Books'
BY DEF Books, Dropped

\* A thread outside Start and ClearVid moves to such a place.
LEMMA BooksMove ==
    ASSUME Types, Books, UNCHANGED <<made, vid, wnd, count>>, pic'[UI] = pic[UI],
           NEW t \in Threads, NEW l, Goto(t, l),
           pc[t] \notin {"clear"} \cup InOnOk, l \notin {"clear"} \cup InOnOk
    PROVE  Books'
<1>1. pc'[t] = l /\ \A u \in Threads \ {t} : pc'[u] = pc[u]
  BY Moves
<1>2. /\ pc'[UI] \in InOnOk <=> pc[UI] \in InOnOk
      /\ pc'[UI] = "set" <=> pc[UI] = "set"
      /\ pc'[UI] = "undo" <=> pc[UI] = "undo"
  <2>1. CASE t = UI
    BY <1>1, <2>1 DEF InOnOk
  <2>2. CASE t # UI
    BY <1>1, <2>2 DEF Threads
  <2> QED
    BY <2>1, <2>2
<1>3. \A u \in Threads : pc'[u] = "clear" <=> pc[u] = "clear"
  BY <1>1
<1> QED
  BY <1>2, <1>3, BooksFrame

LEMMA BooksQuiet ==
    ASSUME Types, Places, Books, Quiet
    PROVE  Books'
<1>1. /\ UNCHANGED <<pic, count, made, vid, yuy2, wnd, overtaken>>
      /\ \/ UNCHANGED pc
         \/ \E t \in Threads : \E l : /\ Goto(t, l) /\ pc[t] \notin Marks
                                      /\ l \notin Marks \/ (l = "release" /\ t \notin users')
  BY QuietMoves
<1>2. CASE UNCHANGED pc
  BY <1>1, <1>2, BooksFrame
<1>3. CASE ~UNCHANGED pc
  <2>1. PICK t \in Threads : \E l : /\ Goto(t, l) /\ pc[t] \notin Marks
                                    /\ l \notin Marks \/ (l = "release" /\ t \notin users')
    BY <1>1, <1>3
  <2>2. PICK l : /\ Goto(t, l) /\ pc[t] \notin Marks
                 /\ l \notin Marks \/ (l = "release" /\ t \notin users')
    BY <2>1
  <2>3. pc[t] \notin {"clear"} \cup InOnOk /\ l \notin {"clear"} \cup InOnOk
    BY <2>2 DEF Marks, InOnOk
  <2> QED
    BY <1>1, <2>2, <2>3, BooksMove
<1> QED
  BY <1>2, <1>3

LEMMA MadeNat ==
    ASSUME Types
    PROVE  made \in Nat
<1>1. made \in 0 .. MaxPics /\ MaxPics \in Nat
  BY BoundsAssumption DEF Types, TypeOK
<1> QED
  BY <1>1

LEMMA BooksOnOk ==
    ASSUME Types, Places, Books, NEW y \in Formats, OnOk(y)
    PROVE  Books'
<1>1. /\ pc[UI] = "idle" /\ made < MaxPics /\ made' = made + 1 /\ UNCHANGED <<vid, wnd>>
      /\ count' = [count EXCEPT ![made + 1] = 1] /\ pic' = [pic EXCEPT ![UI] = made + 1]
      /\ Goto(UI, "start")
  BY DEF OnOk, Idle
<1>2. pc'[UI] = "start" /\ \A u \in Recv : pc'[u] = pc[u]
  BY <1>1, Moves, UIAssumption DEF Threads
<1>3. pic'[UI] = made + 1
  BY <1>1 DEF Types, TypeOK, Threads
<1>4. pic[UI] = None /\ made \in Nat /\ vid \in 0 .. made /\ wnd \in 0 .. made
  BY <1>1, MadeNat DEF Books, InOnOk
<1>5. Dropped' <=> Dropped
  BY <1>1, <1>2 DEF Dropped, Threads
<1>6. \A p \in Pics : count'[p] = IF p = made + 1 THEN 1 ELSE count[p]
  BY <1>1 DEF Types, TypeOK
<1>7. \A p \in Pics : p # None /\ p \in Nat
  BY DEF Pics, None
<1>8. \A p \in Pics : count'[p] = (IF p = vid' /\ ~Dropped' THEN 1 ELSE 0)
                     + (IF p = wnd' THEN 1 ELSE 0) + (IF p = pic'[UI] THEN 1 ELSE 0)
  <2> TAKE p \in Pics
  <2>1. count[p] = (IF p = vid /\ ~Dropped THEN 1 ELSE 0)
                     + (IF p = wnd THEN 1 ELSE 0) + (IF p = pic[UI] THEN 1 ELSE 0)
    BY DEF Books
  <2>2. CASE p = made + 1
    BY <1>1, <1>3, <1>4, <1>6, <2>2
  <2>3. CASE p # made + 1
    BY <1>1, <1>3, <1>4, <1>5, <1>6, <1>7, <2>1, <2>3
  <2> QED
    BY <2>2, <2>3
<1>9. {vid', wnd', pic'[UI]} \subseteq 0 .. made'
  BY <1>1, <1>3, <1>4
<1>10. /\ pic'[UI] # None <=> pc'[UI] \in InOnOk
       /\ pc'[UI] = "undo" => vid' = pic'[UI] /\ wnd' = pic'[UI]
  BY <1>2, <1>3, <1>4 DEF InOnOk, None
<1>11. /\ \A t, u \in Threads : pc'[t] = "clear" /\ pc'[u] = "clear" => t = u
       /\ \A t \in Threads : pc'[t] = "clear" => vid' # None /\ pc'[UI] \notin {"set", "undo"}
  BY <1>1, <1>2 DEF Books, Threads
<1> QED
  BY <1>8, <1>9, <1>10, <1>11 DEF Books

LEMMA BooksStartRelease ==
    ASSUME Types, Places, Books, undefined' = {}, StartRelease
    PROVE  Books'
<1>1. /\ pc[UI] = "start" /\ UNCHANGED <<made, vid, wnd, pic>> /\ Goto(UI, "set")
      /\ count' = [p \in Pics |-> IF p = vid /\ count[p] > 0 THEN count[p] - 1 ELSE count[p]]
      /\ ~ \E t \in Threads : Stopping(t)
  BY DEF StartRelease
<1>2. pc'[UI] = "set" /\ \A u \in Recv : pc'[u] = pc[u]
  BY <1>1, Moves, UIAssumption DEF Threads
<1>3. \A t \in Threads : pc[t] # "clear" /\ pc'[t] # "clear"
  BY <1>1, <1>2 DEF Stopping, Threads
<1>4. ~Dropped /\ Dropped'
  BY <1>1, <1>2, <1>3 DEF Dropped
<1>5. ASSUME NEW p \in Pics
      PROVE  count'[p] = (IF p = vid' /\ ~Dropped' THEN 1 ELSE 0)
                     + (IF p = wnd' THEN 1 ELSE 0) + (IF p = pic'[UI] THEN 1 ELSE 0)
  <2>1. count[p] = (IF p = vid /\ ~Dropped THEN 1 ELSE 0)
                     + (IF p = wnd THEN 1 ELSE 0) + (IF p = pic[UI] THEN 1 ELSE 0)
    BY DEF Books
  <2>2. count'[p] = IF p = vid /\ count[p] > 0 THEN count[p] - 1 ELSE count[p]
    BY <1>1
  <2> QED
    BY <1>1, <1>4, <2>1, <2>2
<1> QED
  BY <1>1, <1>2, <1>3, <1>5 DEF Books, InOnOk

LEMMA BooksStartSet ==
    ASSUME Types, Places, Books, StartSet
    PROVE  Books'
<1> DEFINE q == pic[UI]
<1>1. /\ pc[UI] = "set" /\ UNCHANGED <<made, pic>> /\ vid' = q /\ wnd' = q
      /\ count' = Shown(q, [count EXCEPT ![q] = @ + 1])
      /\ Goto(UI, "started") \/ Goto(UI, "undo")
  BY DEF StartSet
<1>2. pc'[UI] \in {"started", "undo"} /\ \A u \in Recv : pc'[u] = pc[u]
  BY <1>1, Moves, UIAssumption DEF Threads
<1>3. \A t \in Threads : pc[t] # "clear" /\ pc'[t] # "clear"
  BY <1>1, <1>2 DEF Books, Threads
<1>4. Dropped /\ ~Dropped'
  BY <1>1, <1>2, <1>3 DEF Dropped
<1>5. q # None /\ q \in 0 .. made
  BY <1>1 DEF Books, InOnOk
<1>6. ASSUME NEW p \in Pics
      PROVE  count'[p] = (IF p = vid' /\ ~Dropped' THEN 1 ELSE 0)
                     + (IF p = wnd' THEN 1 ELSE 0) + (IF p = pic'[UI] THEN 1 ELSE 0)
  <2>1. count[p] = (IF p = wnd THEN 1 ELSE 0) + (IF p = q THEN 1 ELSE 0)
    BY <1>4 DEF Books
  <2> DEFINE c == [count EXCEPT ![q] = @ + 1]
  <2>2. c[p] = IF p = q THEN count[p] + 1 ELSE count[p]
    BY DEF Types, TypeOK
  <2>3. count'[p] = c[p] + (IF p = q THEN 1 ELSE 0) - (IF p = wnd /\ c[p] > 0 THEN 1 ELSE 0)
    <3> HIDE DEF c
    <3> QED
      BY <1>1 DEF Shown, c
  <2> HIDE DEF c, q
  <2> QED
    BY <1>1, <1>4, <2>1, <2>2, <2>3 DEF q
<1>7. {vid', wnd', pic'[UI]} \subseteq 0 .. made'
  BY <1>1, <1>5
<1> QED
  BY <1>1, <1>2, <1>3, <1>5, <1>6, <1>7 DEF Books, InOnOk

LEMMA BooksStartUndo ==
    ASSUME Types, Places, Books, StartUndo
    PROVE  Books'
<1> DEFINE q == pic[UI]
<1>1. /\ pc[UI] = "undo" /\ UNCHANGED <<made, pic>> /\ vid' = None /\ wnd' = None
      /\ count' = [count EXCEPT ![q] = IF @ > 1 THEN @ - 2 ELSE 0] /\ Goto(UI, "drop")
  BY DEF StartUndo
<1>2. pc'[UI] = "drop" /\ \A u \in Recv : pc'[u] = pc[u]
  BY <1>1, Moves, UIAssumption DEF Threads
<1>3. \A t \in Threads : pc[t] # "clear" /\ pc'[t] # "clear"
  BY <1>1, <1>2 DEF Books, Threads
<1>4. ~Dropped /\ vid = q /\ wnd = q
  BY <1>1, <1>3 DEF Books, Dropped
<1>5. q # None /\ q \in 0 .. made
  BY <1>1 DEF Books, InOnOk
<1>6. ASSUME NEW p \in Pics
      PROVE  count'[p] = (IF p = vid' /\ ~Dropped' THEN 1 ELSE 0)
                     + (IF p = wnd' THEN 1 ELSE 0) + (IF p = pic'[UI] THEN 1 ELSE 0)
  <2>1. count[p] = IF p = q THEN 3 ELSE 0
    BY <1>4 DEF Books
  <2>2. count'[p] = IF p = q THEN (IF count[p] > 1 THEN count[p] - 2 ELSE 0) ELSE count[p]
    BY <1>1 DEF Types, TypeOK
  <2>3. p # None
    BY DEF Pics, None
  <2> QED
    BY <1>1, <2>1, <2>2, <2>3
<1>7. {vid', wnd', pic'[UI]} \subseteq 0 .. made' /\ made \in Nat
  BY <1>1, <1>5, MadeNat DEF None
<1> QED
  BY <1>1, <1>2, <1>3, <1>5, <1>6, <1>7 DEF Books, InOnOk

LEMMA BooksOnOkEnds ==
    ASSUME Types, Places, Books, OnOkEnds
    PROVE  Books'
<1> DEFINE q == pic[UI]
<1>1. /\ pc[UI] \in {"started", "drop"} /\ UNCHANGED <<made, vid, wnd>>
      /\ pic' = [pic EXCEPT ![UI] = None] /\ Goto(UI, "idle")
      /\ count' = [count EXCEPT ![q] = IF @ = 0 THEN 0 ELSE @ - 1]
  BY DEF OnOkEnds, Release
<1>2. pc'[UI] = "idle" /\ \A u \in Recv : pc'[u] = pc[u]
  BY <1>1, Moves, UIAssumption DEF Threads
<1>3. pic'[UI] = None
  BY <1>1 DEF Types, TypeOK, Threads
<1>4. /\ \A t, u \in Threads : pc'[t] = "clear" /\ pc'[u] = "clear" => t = u
      /\ \A t \in Threads : pc'[t] = "clear" => vid' # None /\ pc'[UI] \notin {"set", "undo"}
  BY <1>1, <1>2 DEF Books, Threads
<1>5. Dropped' <=> Dropped
  BY <1>1, <1>2 DEF Dropped, Threads
<1>6. ASSUME NEW p \in Pics
      PROVE  count'[p] = (IF p = vid' /\ ~Dropped' THEN 1 ELSE 0)
                     + (IF p = wnd' THEN 1 ELSE 0) + (IF p = pic'[UI] THEN 1 ELSE 0)
  <2>1. count[p] = (IF p = vid /\ ~Dropped THEN 1 ELSE 0)
                     + (IF p = wnd THEN 1 ELSE 0) + (IF p = q THEN 1 ELSE 0)
    BY DEF Books
  <2>2. count'[p] = IF p = q THEN (IF count[p] = 0 THEN 0 ELSE count[p] - 1) ELSE count[p]
    BY <1>1 DEF Types, TypeOK
  <2>3. p # None
    BY DEF Pics, None
  <2> QED
    BY <1>1, <1>3, <1>5, <2>1, <2>2, <2>3
<1>7. {vid', wnd', pic'[UI]} \subseteq 0 .. made'
  <2>1. made \in Nat /\ vid \in 0 .. made /\ wnd \in 0 .. made
    BY MadeNat DEF Books
  <2> QED
    BY <1>1, <1>3, <2>1 DEF None
<1> QED
  BY <1>2, <1>3, <1>4, <1>6, <1>7 DEF Books, InOnOk

LEMMA BooksOnHide ==
    ASSUME Types, Places, Books, OnHide
    PROVE  Books'
<1>1. /\ pc[UI] = "idle" /\ UNCHANGED <<made, vid, pic, pc>> /\ wnd' = None
      /\ count' = Shown(None, count)
  BY DEF OnHide, Set, Idle, threads
<1>2. Dropped' <=> Dropped
  BY <1>1 DEF Dropped
<1>3. ASSUME NEW p \in Pics
      PROVE  count'[p] = (IF p = vid' /\ ~Dropped' THEN 1 ELSE 0)
                     + (IF p = wnd' THEN 1 ELSE 0) + (IF p = pic'[UI] THEN 1 ELSE 0)
  <2>1. count[p] = (IF p = vid /\ ~Dropped THEN 1 ELSE 0)
                     + (IF p = wnd THEN 1 ELSE 0) + (IF p = pic[UI] THEN 1 ELSE 0)
    BY DEF Books
  <2>2. p # None
    BY DEF Pics, None
  <2>3. /\ count'[p] = count[p] + (IF p = None THEN 1 ELSE 0)
                         - (IF p = wnd /\ count[p] > 0 THEN 1 ELSE 0)
        /\ count[p] \in Nat
    BY <1>1 DEF Shown, Types, TypeOK
  <2> QED
    BY <1>1, <1>2, <2>1, <2>2, <2>3
<1>4. {vid', wnd', pic'[UI]} \subseteq 0 .. made'
  <2>1. made \in Nat /\ vid \in 0 .. made /\ pic[UI] \in 0 .. made
    BY MadeNat DEF Books
  <2> QED
    BY <1>1, <2>1 DEF None
<1> QED
  BY <1>1, <1>3, <1>4 DEF Books, InOnOk

LEMMA BooksReleaseVid ==
    ASSUME Types, Places, Books, undefined' = {}, NEW t \in Threads, ReleaseVid(t)
    PROVE  Books'
<1>1. /\ pc[t] = "release" /\ ~Starting /\ \A u \in Threads \ {t} : pc[u] # "clear"
      /\ UNCHANGED <<made, vid, wnd, pic>>
  BY DEF ReleaseVid
<1>2. CASE vid = None
  <2>1. UNCHANGED count /\ (Goto(t, "leave") \/ Goto(t, "post"))
    BY <1>2 DEF ReleaseVid
  <2> QED
    BY <1>1, <2>1, BooksMove DEF InOnOk
<1>3. CASE vid # None
  <2>1. count' = [count EXCEPT ![vid] = IF @ = 0 THEN 0 ELSE @ - 1] /\ Goto(t, "clear")
    BY <1>3 DEF ReleaseVid
  <2>2. pc'[t] = "clear" /\ \A u \in Threads \ {t} : pc'[u] = pc[u]
    BY <2>1, Moves
  <2>3. \A u \in Threads : pc[u] # "clear"
    BY <1>1
  <2>4. ~Dropped /\ Dropped'
    BY <1>1, <2>2, <2>3 DEF Dropped, Starting
  <2>5. pc'[UI] \notin {"set", "undo"} /\ (pc'[UI] \in InOnOk <=> pc[UI] \in InOnOk)
    <3>1. CASE t = UI
      BY <1>1, <2>2, <3>1 DEF InOnOk
    <3>2. CASE t # UI
      BY <1>1, <2>2, <3>2 DEF Threads, Starting
    <3> QED
      BY <3>1, <3>2
  <2>6. ASSUME NEW p \in Pics
        PROVE  count'[p] = (IF p = vid' /\ ~Dropped' THEN 1 ELSE 0)
                     + (IF p = wnd' THEN 1 ELSE 0) + (IF p = pic'[UI] THEN 1 ELSE 0)
    <3>1. count[p] = (IF p = vid /\ ~Dropped THEN 1 ELSE 0)
                     + (IF p = wnd THEN 1 ELSE 0) + (IF p = pic[UI] THEN 1 ELSE 0)
      BY DEF Books
    <3>2. count'[p] = IF p = vid THEN (IF count[p] = 0 THEN 0 ELSE count[p] - 1) ELSE count[p]
      BY <2>1 DEF Types, TypeOK
    <3> QED
      BY <1>1, <2>4, <3>1, <3>2
  <2> QED
    BY <1>1, <1>3, <2>2, <2>3, <2>5, <2>6 DEF Books
<1> QED
  BY <1>2, <1>3

LEMMA BooksClearVid ==
    ASSUME Types, Places, Books, NEW t \in Threads, ClearVid(t)
    PROVE  Books'
<1>1. /\ pc[t] = "clear" /\ UNCHANGED <<made, count, wnd, pic>> /\ vid' = None
      /\ Goto(t, "leave") \/ Goto(t, "post")
  BY DEF ClearVid
<1>2. pc'[t] \in {"leave", "post"} /\ \A u \in Threads \ {t} : pc'[u] = pc[u]
  BY <1>1, Moves
<1>3. \A u \in Threads : pc'[u] # "clear"
  BY <1>1, <1>2 DEF Books
<1>4. Dropped /\ pc[UI] \notin {"set", "undo"}
  BY <1>1 DEF Dropped, Books
<1>5. pc'[UI] \notin {"set", "undo"} /\ (pc'[UI] \in InOnOk <=> pc[UI] \in InOnOk)
  <2>1. CASE t = UI
    BY <1>1, <1>2, <2>1 DEF InOnOk
  <2>2. CASE t # UI
    BY <1>2, <1>4, <2>2 DEF Threads
  <2> QED
    BY <2>1, <2>2
<1>6. ASSUME NEW p \in Pics
      PROVE  count'[p] = (IF p = vid' /\ ~Dropped' THEN 1 ELSE 0)
                     + (IF p = wnd' THEN 1 ELSE 0) + (IF p = pic'[UI] THEN 1 ELSE 0)
  <2>1. count[p] = (IF p = wnd THEN 1 ELSE 0) + (IF p = pic[UI] THEN 1 ELSE 0)
    BY <1>4 DEF Books
  <2>2. p # None
    BY DEF Pics, None
  <2> QED
    BY <1>1, <2>1, <2>2
<1>7. {vid', wnd', pic'[UI]} \subseteq 0 .. made'
  <2>1. made \in Nat /\ wnd \in 0 .. made /\ pic[UI] \in 0 .. made
    BY MadeNat DEF Books
  <2> QED
    BY <1>1, <2>1 DEF None
<1>8. pic'[UI] # None <=> pc'[UI] \in InOnOk
  BY <1>1, <1>5 DEF Books
<1> QED
  BY <1>3, <1>5, <1>6, <1>7, <1>8 DEF Books

LEMMA BooksKept ==
    ASSUME Types, Places, Books, undefined' = {}, [Next]_vars
    PROVE  Books'
<1>1. CASE Quiet
  BY <1>1, BooksQuiet
<1>2. ASSUME NEW t \in Threads, OnStop(t) \/ OnH264(t) \/ OnFrame(t) \/ PostDisconnected(t)
      PROVE  Books'
  <2>1. UNCHANGED <<made, vid, wnd, count>>
    BY <1>2 DEF OnStop, OnH264, OnFrame, PostDisconnected, pictures
  <2>2. pic'[UI] = pic[UI]
    <3>1. CASE OnStop(t) \/ PostDisconnected(t)
      BY <3>1 DEF OnStop, PostDisconnected
    <3>2. CASE OnH264(t) \/ OnFrame(t)
      <4>1. t # UI
        BY <3>2 DEF OnH264, OnFrame, Places, InOnOk, Ends
      <4>2. \E q : pic' = [pic EXCEPT ![t] = q]
        BY <3>2 DEF OnH264, OnFrame
      <4> QED
        BY <4>1, <4>2 DEF Types, TypeOK, Threads
    <3> QED
      BY <1>2, <3>1, <3>2
  <2>3. /\ pc[t] \in {"stop", "H264", "decode", "post"}
        /\ \E l \in {"release", "decode", "fail", "leave", "cleared", "idle"} : Goto(t, l)
    <3>1. CASE OnStop(t)
      BY <3>1 DEF OnStop
    <3>2. CASE OnH264(t)
      BY <3>2 DEF OnH264
    <3>3. CASE OnFrame(t)
      BY <3>3 DEF OnFrame
    <3>4. CASE PostDisconnected(t)
      BY <3>4 DEF PostDisconnected, Return
    <3> QED
      BY <1>2, <3>1, <3>2, <3>3, <3>4
  <2>4. PICK l \in {"release", "decode", "fail", "leave", "cleared", "idle"} : Goto(t, l)
    BY <2>3
  <2>5. pc[t] \notin {"clear"} \cup InOnOk /\ l \notin {"clear"} \cup InOnOk
    BY <2>3, <2>4 DEF InOnOk
  <2> QED
    BY <2>1, <2>2, <2>4, <2>5, BooksMove
<1>3. ASSUME NEW t \in Threads, ReleaseVid(t) \/ ClearVid(t) PROVE Books'
  BY <1>3, BooksReleaseVid, BooksClearVid
<1>4. CASE OnOkStep \/ OnHide
  BY <1>4, BooksStartRelease, BooksStartSet, BooksStartUndo, BooksOnOkEnds, BooksOnHide DEF OnOkStep
<1>5. CASE \E y \in Formats : OnOk(y)
  BY <1>5, BooksOnOk
<1> QED
  BY <1>1, <1>2, <1>3, <1>4, <1>5, Loud

-----------------------------------------------------------------------------
\* What is decoded.
LEMMA DecodedSame ==
    ASSUME Decoded, UNCHANGED vid, overtaken => overtaken', Dropped' => Dropped,
           \A t \in Recv : pc'[t] = "decode" => pc[t] = "decode" /\ pic'[t] = pic[t]
    PROVE  Decoded'
BY DEF Decoded

\* A step that gives _vid's picture back while a frame is decoded into it.
LEMMA DecodedOvertaken ==
    ASSUME Decoded, \A t \in Recv : pc'[t] = "decode" => pc[t] = "decode", overtaken => overtaken',
           Decoding /\ vid # None => overtaken'
    PROVE  Decoded'
BY DEF Decoded, Decoding

LEMMA DecodedKept ==
    ASSUME Types, Places, Books, Decoded, undefined' = {}, [Next]_vars
    PROVE  Decoded'
<1> USE UIAssumption DEF Threads
<1>1. CASE Quiet
  <2>1. UNCHANGED <<pic, vid, overtaken>>
    BY <1>1, QuietMoves
  <2>2. CASE UNCHANGED pc
    BY <2>1, <2>2, DecodedSame DEF Dropped
  <2>3. CASE ~UNCHANGED pc
    <3>1. PICK t \in Threads : \E l : /\ Goto(t, l) /\ pc[t] \notin Marks
                                      /\ l \notin Marks \/ (l = "release" /\ t \notin users')
      BY <1>1, <2>3, QuietMoves
    <3>2. PICK l : /\ Goto(t, l) /\ pc[t] \notin Marks
                   /\ l \notin Marks \/ (l = "release" /\ t \notin users')
      BY <3>1
    <3>3. l \notin {"clear", "decode", "set"}
      BY <3>2 DEF Marks, InOnOk
    <3>4. pc'[t] = l /\ \A u \in Threads \ {t} : pc'[u] = pc[u]
      BY <3>2, Moves
    <3>5. \A u \in Recv : pc'[u] = "decode" => pc[u] = "decode"
      BY <3>3, <3>4
    <3>6. Dropped' => Dropped
      BY <3>3, <3>4 DEF Dropped
    <3> QED
      BY <2>1, <3>5, <3>6, DecodedSame
  <2> QED
    BY <2>2, <2>3
<1>2. ASSUME NEW t \in Threads, OnStop(t) \/ OnFrame(t) \/ PostDisconnected(t) PROVE Decoded'
  <2>1. UNCHANGED <<vid, overtaken>> /\ \A u \in Recv \ {t} : pic'[u] = pic[u]
    <3>1. CASE OnStop(t) \/ PostDisconnected(t)
      BY <3>1 DEF OnStop, PostDisconnected, pictures, history
    <3>2. CASE OnFrame(t)
      <4>1. pic' = [pic EXCEPT ![t] = None]
        BY <3>2 DEF OnFrame
      <4> QED
        BY <3>2, <4>1 DEF OnFrame, pictures, Types, TypeOK
    <3> QED
      BY <1>2, <3>1, <3>2
  <2>2. \E l \in {"release", "leave", "cleared", "idle"} : Goto(t, l)
    <3>1. CASE OnStop(t) \/ OnFrame(t)
      BY <3>1 DEF OnStop, OnFrame
    <3>2. CASE PostDisconnected(t)
      BY <3>2 DEF PostDisconnected, Return
    <3> QED
      BY <1>2, <3>1, <3>2
  <2>3. PICK l \in {"release", "leave", "cleared", "idle"} : Goto(t, l)
    BY <2>2
  <2>4. pc'[t] = l /\ \A u \in Threads \ {t} : pc'[u] = pc[u]
    BY <2>3, Moves
  <2>5. Dropped' => Dropped
    BY <2>4 DEF Dropped
  <2> QED
    BY <2>1, <2>4, <2>5, DecodedSame
<1>3. ASSUME NEW t \in Threads, OnH264(t) PROVE Decoded'
  <2>1. /\ pc[t] = "H264" /\ UNCHANGED vid /\ pic' = [pic EXCEPT ![t] = IF yuy2 THEN vid ELSE None]
        /\ Goto(t, IF yuy2 THEN "decode" ELSE "fail") /\ ~(yuy2 /\ vid = None)
        /\ overtaken' = (overtaken \/ pc[UI] = "set" \/ \E r \in Recv : Stopping(r))
    BY <1>3 DEF OnH264, Undefined, pictures
  <2>2. t \in Recv /\ t \in users
    BY <2>1 DEF Places, InOnOk, Ends, Inside
  <2>3. /\ pc'[t] = IF yuy2 THEN "decode" ELSE "fail"
        /\ \A u \in Threads \ {t} : pc'[u] = pc[u]
    BY <2>1, Moves
  <2>4. pic'[t] = (IF yuy2 THEN vid ELSE None) /\ \A u \in Recv \ {t} : pic'[u] = pic[u]
    BY <2>1, <2>2 DEF Types, TypeOK
  <2>5. Dropped' => Dropped
    BY <2>2, <2>3 DEF Dropped
  <2>6. Dropped => overtaken'
    <3>1. pc[UI] # "clear"
      BY <2>2 DEF Places, Types, TypeOK, Ends
    <3> QED
      BY <2>1, <3>1 DEF Dropped, Stopping
  <2>7. overtaken => overtaken'
    BY <2>1
  <2> QED
    BY <2>1, <2>3, <2>4, <2>5, <2>6, <2>7 DEF Decoded
<1>4. ASSUME NEW t \in Threads, ReleaseVid(t) PROVE Decoded'
  <2>1. \E l \in {"leave", "post", "clear"} : Goto(t, l)
    BY <1>4 DEF ReleaseVid
  <2>2. PICK l \in {"leave", "post", "clear"} : Goto(t, l)
    BY <2>1
  <2>3. pc'[t] = l /\ \A u \in Threads \ {t} : pc'[u] = pc[u]
    BY <2>2, Moves
  <2>4. overtaken => overtaken'
    BY <1>4 DEF ReleaseVid
  <2>5. Decoding /\ vid # None => overtaken'
    BY <1>4 DEF ReleaseVid
  <2> QED
    BY <2>3, <2>4, <2>5, DecodedOvertaken
<1>5. ASSUME NEW t \in Threads, ClearVid(t) PROVE Decoded'
  <2>1. pc[t] = "clear" /\ UNCHANGED overtaken /\ (Goto(t, "leave") \/ Goto(t, "post"))
    BY <1>5 DEF ClearVid, history
  <2>2. pc'[t] \in {"leave", "post"} /\ \A u \in Threads \ {t} : pc'[u] = pc[u]
    BY <2>1, Moves
  <2>3. Decoding => overtaken
    BY <2>1 DEF Decoding, Decoded, Dropped
  <2> QED
    BY <2>1, <2>2, <2>3, DecodedOvertaken
<1>6. CASE OnOkStep \/ OnHide \/ \E y \in Formats : OnOk(y)
  <2>1. UNCHANGED pc \/ \E l \in InOnOk \cup {"idle"} : Goto(UI, l)
    BY <1>6 DEF OnOkStep, StartRelease, StartSet, StartUndo, OnOkEnds, OnHide, OnOk, threads, InOnOk
  <2>2. \A u \in Recv : pc'[u] = pc[u]
    BY <2>1, Moves
  <2>3. CASE StartRelease \/ StartUndo
    <3>1. overtaken => overtaken'
      BY <2>3 DEF StartRelease, StartUndo
    <3>2. Decoding /\ vid # None => overtaken'
      BY <2>3 DEF StartRelease, StartUndo
    <3> QED
      BY <2>2, <3>1, <3>2, DecodedOvertaken
  <2>4. CASE StartSet
    <3>1. pc[UI] = "set" /\ UNCHANGED overtaken
      BY <2>4 DEF StartSet
    <3>2. Decoding => overtaken
      BY <3>1 DEF Decoding, Decoded, Dropped
    <3> QED
      BY <2>2, <3>1, <3>2, DecodedOvertaken
  <2>5. CASE OnOkEnds \/ OnHide \/ \E y \in Formats : OnOk(y)
    <3>1. UNCHANGED <<vid, overtaken>>
      BY <2>5 DEF OnOkEnds, OnHide, OnOk
    <3>2. \A u \in Recv : pic'[u] = pic[u]
      <4>1. UNCHANGED pic \/ \E q : pic' = [pic EXCEPT ![UI] = q]
        BY <2>5 DEF OnOkEnds, OnHide, OnOk, threads
      <4> QED
        BY <4>1 DEF Types, TypeOK
    <3>3. pc'[UI] \in {"idle", "start"}
      <4>1. Goto(UI, "idle") \/ Goto(UI, "start") \/ (UNCHANGED pc /\ pc[UI] = "idle")
        BY <2>5 DEF OnOkEnds, OnHide, OnOk, threads, Idle
      <4> QED
        BY <4>1, Moves
    <3>4. Dropped' => Dropped
      BY <2>2, <3>3 DEF Dropped
    <3> QED
      BY <2>2, <3>1, <3>2, <3>4, DecodedSame
  <2> QED
    BY <1>6, <2>3, <2>4, <2>5 DEF OnOkStep
<1> QED
  BY <1>1, <1>2, <1>3, <1>4, <1>5, <1>6, Loud

-----------------------------------------------------------------------------
\* A picture that is kept is counted.
LEMMA Kept ==
    ASSUME Types, Books
    PROVE  \A p \in 0 .. MaxPics :
               /\ p # None /\ p = vid /\ ~Dropped => count[p] # 0
               /\ p # None /\ p = wnd => count[p] # 0
               /\ p # None /\ p = pic[UI] => count[p] # 0
<1>1. \A p \in 0 .. MaxPics : p # None => p \in Pics
  BY BoundsAssumption DEF None, Pics
<1>2. \A p \in Pics :
        /\ p = vid /\ ~Dropped => count[p] # 0
        /\ p = wnd => count[p] # 0
        /\ p = pic[UI] => count[p] # 0
  BY DEF Books
<1> QED
  BY <1>1, <1>2

\* A picture is freed in use only after a race or by overtaking a frame.
LEMMA FreedKept ==
    ASSUME Types, Places, Freed, undefined = {}, Books, Decoded, [Next]_vars
    PROVE  Freed'
<1> SUFFICES ASSUME "freed_picture" \in undefined' PROVE overtaken' \/ "race" \in undefined'
  BY DEF Freed
<1>1. CASE Quiet
  <2>1. UNCHANGED undefined
    <3>1. CASE \E t \in Recv : OnRecv(t)
      BY <3>1 DEF OnRecv, history
    <3>2. CASE \E t \in Threads : OnFormats(t) \/ Leave(t) \/ RemoveConnection(t)
      BY <3>2 DEF OnFormats, Leave, RemoveConnection, history
    <3>3. CASE Cleared \/ WindowMessage \/ OnAbort \/ OnRefresh \/ OnDisconnectButton
      BY <3>3 DEF Cleared, WindowMessage, OnAbort, OnRefresh, OnDisconnectButton, history
    <3>4. CASE ServerRecv \/ SendFrame \/ CameraFails \/ Goodbye \/ Lose \/ Duplicate
      BY <3>4 DEF ServerRecv, SendFrame, CameraFails, Goodbye, Lose, Duplicate, history
    <3>5. CASE UNCHANGED vars
      BY <3>5 DEF vars, history
    <3> QED
      BY <1>1, <3>1, <3>2, <3>3, <3>4, <3>5 DEF Quiet
  <2> QED
    BY <2>1
<1>2. ASSUME NEW t \in Threads, OnStop(t) \/ ClearVid(t) \/ OnH264(t) \/ PostDisconnected(t)
      PROVE  FALSE
  BY <1>2 DEF OnStop, ClearVid, OnH264, PostDisconnected, Undefined, history
<1>3. ASSUME NEW t \in Threads, ReleaseVid(t) PROVE "race" \in undefined'
  <2>1. vid # None /\ count[vid] = 0 /\ pc[t] = "release"
    BY <1>3 DEF ReleaseVid
  <2>2. Dropped
    BY <2>1, Kept DEF Types, TypeOK
  <2>3. Starting \/ \E r \in Threads \ {t} : pc[r] = "clear"
    BY <2>1, <2>2 DEF Dropped, Starting
  <2> QED
    BY <1>3, <2>3 DEF ReleaseVid
<1>4. ASSUME NEW t \in Threads, OnFrame(t) PROVE overtaken'
  <2>1. pc[t] = "decode" /\ count[pic[t]] = 0 /\ UNCHANGED overtaken
    BY <1>4 DEF OnFrame, Undefined
  <2>2. t \in Recv
    BY <2>1 DEF Places, Threads, InOnOk, Ends
  <2>3. SUFFICES ASSUME ~overtaken PROVE FALSE
    BY <2>1
  <2>4. pic[t] = vid /\ vid # None /\ ~Dropped
    BY <2>1, <2>2, <2>3 DEF Decoded
  <2> QED
    BY <2>1, <2>4, Kept DEF Types, TypeOK
<1>5. CASE StartRelease
  <2>1. vid # None /\ count[vid] = 0 /\ pc[UI] = "start"
    BY <1>5 DEF StartRelease
  <2>2. Dropped
    BY <2>1, Kept DEF Types, TypeOK
  <2>3. \E t \in Threads : pc[t] = "clear"
    BY <2>1, <2>2 DEF Dropped
  <2> QED
    BY <1>5, <2>3 DEF StartRelease, Stopping
<1>6. CASE StartSet \/ OnHide
  <2>1. wnd # None /\ count[wnd] = 0
    BY <1>6 DEF StartSet, OnHide, Set, Undefined
  <2> QED
    BY <2>1, Kept DEF Types, TypeOK
<1>7. CASE StartUndo
  <2>1. pc[UI] = "undo" /\ count[pic[UI]] < 2
    BY <1>7 DEF StartUndo, Undefined
  <2>2. /\ vid = pic[UI] /\ wnd = pic[UI] /\ pic[UI] # None
        /\ \A t \in Threads : pc[t] # "clear"
    BY <2>1 DEF Books, InOnOk
  <2>3. ~Dropped /\ pic[UI] \in Pics
    <3>1. pic[UI] \in 0 .. MaxPics
      BY DEF Types, TypeOK, Threads
    <3>2. pic[UI] \in Pics
      BY <2>2, <3>1, BoundsAssumption DEF None, Pics
    <3> QED
      BY <2>1, <2>2, <3>2 DEF Dropped
  <2>4. count[pic[UI]] = 3
    BY <2>2, <2>3 DEF Books
  <2> QED
    BY <2>1, <2>4
<1>8. CASE OnOkEnds
  <2>1. pc[UI] \in {"started", "drop"} /\ count[pic[UI]] = 0
    BY <1>8 DEF OnOkEnds, Release, Undefined
  <2>2. pic[UI] # None
    BY <2>1 DEF Books, InOnOk
  <2>3. pic[UI] \in 0 .. MaxPics
    BY DEF Types, TypeOK, Threads
  <2> QED
    BY <2>1, <2>2, <2>3, Kept
<1>9. ASSUME NEW y \in Formats, OnOk(y) PROVE FALSE
  BY <1>9 DEF OnOk, Undefined
<1> QED
  BY <1>1, <1>2, <1>3, <1>4, <1>5, <1>6, <1>7, <1>8, <1>9, Loud DEF OnOkStep

-----------------------------------------------------------------------------
\* The dialog's flag and the window.
LEMMA EndingStays ==
    ASSUME Types, Ending, posted' = posted \/ \E m \in Messages : posted' = Append(posted, m),
           \A t \in Threads : pc[t] \in {"release", "clear", "post"} =>
               pc'[t] \in {"release", "clear", "post"}
    PROVE  Ending'
<1>1. CASE \E t \in Threads : Stopping(t) \/ pc[t] = "post"
  BY <1>1 DEF Ending, Stopping
<1>2. CASE \E i \in DOMAIN posted : posted[i].kind \in {"e_set", "e_disconnected"}
  <2>1. \E i \in DOMAIN posted' : posted'[i].kind \in {"e_set", "e_disconnected"}
    BY <1>2, StaysPosted DEF Types
  <2> QED
    BY <2>1 DEF Ending
<1> QED
  BY <1>1, <1>2 DEF Ending

LEMMA EndedEnds ==
    ASSUME Ended({"e_set"}) \/ Ended({"e_disconnected"})
    PROVE  Ending
BY DEF Ended, Ending

LEMMA EndedStays ==
    ASSUME Types, NEW k, Ended(k), posted' = posted \/ \E m \in Messages : posted' = Append(posted, m)
    PROVE  Ended(k)'
BY StaysPosted DEF Ended, Types

\* Nothing of what Videos says is touched, and no receive comes to the end.
LEMMA VideosFrame ==
    ASSUME Types, Videos, UNCHANGED <<vid, wnd, bVideo>>, pic'[UI] = pic[UI],
           enabled' \cap {"ID_HIDE"} \subseteq enabled,
           posted' = posted \/ \E m \in Messages : posted' = Append(posted, m),
           \A t \in Threads : pc[t] \in {"release", "clear", "post"} => pc'[t] = pc[t],
           \A t \in users' : Stopping(t)' => t \in users /\ Stopping(t),
           pc'[UI] = pc[UI] \/ pc'[UI] \notin InOnOk
    PROVE  Videos'
<1>1. bVideo' => "ID_HIDE" \notin enabled' /\ pc'[UI] \notin InOnOk
  BY DEF Videos
<1>2. Ending => Ending'
  BY EndingStays
<1>3. /\ bVideo' => Ending' \/ (vid' # None /\ vid' = wnd')
      /\ pc'[UI] = "started" => Ending' \/ (vid' = pic'[UI] /\ wnd' = pic'[UI])
  BY <1>2 DEF Videos, InOnOk
<1>4. ASSUME NEW t \in users', Stopping(t)'
      PROVE  Ended({"e_set"})' \/ (~bVideo' /\ pc'[UI] \notin InOnOk \ {"start"})
  <2>1. Ended({"e_set"}) \/ (~bVideo /\ pc[UI] \notin InOnOk \ {"start"})
    BY <1>4 DEF Videos
  <2>2. CASE Ended({"e_set"})
    BY <2>2, EndedStays
  <2>3. CASE ~bVideo /\ pc[UI] \notin InOnOk \ {"start"}
    BY <2>3
  <2> QED
    BY <2>1, <2>2, <2>3
<1> QED
  BY <1>1, <1>3, <1>4 DEF Videos

LEMMA VideosQuiet ==
    ASSUME Types, Types', Places, Videos, Quiet, ~WindowMessage
    PROVE  Videos'
<1>1. UNCHANGED <<vid, wnd, pic>>
  BY QuietMoves
<1>2. /\ UNCHANGED bVideo /\ enabled' \cap {"ID_HIDE"} \subseteq enabled
      /\ \A u \in users' : u \in users \/ pc[u] \notin Ends
      /\ UNCHANGED posted \/ \E t \in Threads : OnFormats(t)
  <2>1. CASE \E t \in Recv : OnRecv(t)
    <3>1. PICK t \in Recv : OnRecv(t)
      BY <2>1
    <3>2. /\ UNCHANGED <<bVideo, enabled, posted>> /\ users' \subseteq users \cup {t}
          /\ pc[t] = "idle"
      BY <3>1 DEF OnRecv, dialog
    <3> QED
      BY <3>2 DEF Ends
  <2>2. CASE \E t \in Threads : OnFormats(t) \/ Leave(t) \/ RemoveConnection(t)
    <3>1. PICK t \in Threads : OnFormats(t) \/ Leave(t) \/ RemoveConnection(t)
      BY <2>2
    <3>2. UNCHANGED <<bVideo, enabled>> /\ users' \subseteq users /\ (UNCHANGED posted \/ OnFormats(t))
      BY <3>1 DEF OnFormats, Leave, RemoveConnection, dialog
    <3> QED
      BY <3>2
  <2>3. CASE Cleared \/ OnAbort \/ OnRefresh \/ OnDisconnectButton
    BY <2>3 DEF Cleared, OnAbort, OnRefresh, OnDisconnectButton, dialog
  <2>4. CASE ServerRecv \/ SendFrame \/ CameraFails \/ Goodbye \/ Lose \/ Duplicate
    BY <2>4 DEF ServerRecv, SendFrame, CameraFails, Goodbye, Lose, Duplicate, dialog
  <2>5. CASE UNCHANGED vars
    BY <2>5 DEF vars, dialog
  <2> QED
    BY <2>1, <2>2, <2>3, <2>4, <2>5 DEF Quiet
<1>3. posted' = posted \/ \E m \in Messages : posted' = Append(posted, m)
  <2>1. ASSUME NEW t \in Threads, OnFormats(t)
        PROVE  \E m \in Messages : posted' = Append(posted, m)
    <3>1. t \in Recv /\ posted' = Append(posted, Posted("e_list", slot[t]))
      BY <2>1 DEF OnFormats, Places, Threads, InOnOk, Ends
    <3>2. Posted("e_list", slot[t]) \in Messages
      BY <3>1, Packed DEF Types, TypeOK
    <3> QED
      BY <3>1, <3>2
  <2> QED
    BY <1>2, <2>1
<1>4. /\ \A t \in Threads : pc[t] \in {"release", "clear", "post"} => pc'[t] = pc[t]
      /\ \A t \in users' : Stopping(t)' => t \in users /\ Stopping(t)
      /\ pc'[UI] = pc[UI] \/ pc'[UI] \notin InOnOk
  <2>1. users' \subseteq Threads
    BY DEF Types, TypeOK, Threads
  <2>2. CASE UNCHANGED pc
    BY <1>2, <2>2 DEF Stopping, Ends
  <2>3. CASE ~UNCHANGED pc
    <3>1. PICK t \in Threads : \E l : /\ Goto(t, l) /\ pc[t] \notin Marks
                                      /\ l \notin Marks \/ (l = "release" /\ t \notin users')
      BY <2>3, QuietMoves
    <3>2. PICK l : /\ Goto(t, l) /\ pc[t] \notin Marks
                   /\ l \notin Marks \/ (l = "release" /\ t \notin users')
      BY <3>1
    <3>3. pc'[t] = l /\ \A u \in Threads \ {t} : pc'[u] = pc[u]
      BY <3>2, Moves
    <3>4. \A u \in Threads : pc[u] \in {"release", "clear", "post"} => pc'[u] = pc[u]
      BY <3>2, <3>3 DEF Marks
    <3>5. ASSUME NEW u \in users', Stopping(u)' PROVE u \in users /\ Stopping(u)
      <4>1. u # t
        BY <3>2, <3>3, <3>5 DEF Marks, Stopping
      <4>2. pc'[u] = pc[u]
        BY <2>1, <3>3, <4>1
      <4> QED
        BY <1>2, <3>5, <4>2 DEF Stopping, Ends
    <3>6. pc'[UI] = pc[UI] \/ pc'[UI] \notin InOnOk
      BY <3>2, <3>3 DEF Marks, Threads, InOnOk
    <3> QED
      BY <3>4, <3>5, <3>6
  <2> QED
    BY <2>2, <2>3
<1> QED
  BY <1>1, <1>2, <1>3, <1>4, VideosFrame

\* 'stop', OnDisconnect: the dialog is told.
LEMMA VideosTold ==
    ASSUME Types, Places, Videos, NEW t \in Threads, OnStop(t) \/ PostDisconnected(t)
    PROVE  Videos'
<1>1. /\ UNCHANGED <<vid, wnd, pic, bVideo, enabled, users>>
      /\ pc[t] \in {"stop", "post"} /\ (pc[t] = "stop" => OnStop(t))
      /\ \E l \in {"release", "cleared", "idle"} : Goto(t, l)
      /\ \E k \in {"e_set", "e_disconnected"} :
           posted' = Append(posted, Posted(k, 0)) /\ (k = "e_disconnected" => ~OnStop(t))
  <2>1. CASE OnStop(t)
    BY <2>1 DEF OnStop, PostDisconnected, pictures, dialog
  <2>2. CASE PostDisconnected(t)
    BY <2>2 DEF OnStop, PostDisconnected, pictures, dialog, Return
  <2> QED
    BY <2>1, <2>2
<1>2. PICK l \in {"release", "cleared", "idle"} : Goto(t, l)
  BY <1>1
<1>3. pc'[t] = l /\ \A u \in Threads \ {t} : pc'[u] = pc[u]
  BY <1>2, Moves
<1>4. PICK k \in {"e_set", "e_disconnected"} :
        posted' = Append(posted, Posted(k, 0)) /\ (k = "e_disconnected" => ~OnStop(t))
  BY <1>1
<1>5. Posted(k, 0) \in Messages /\ Posted(k, 0).kind = k
  BY Packed, Zeros DEF Posted
<1>6. Ended({k})'
  BY <1>4, <1>5, StaysPosted DEF Ended, Types
<1>7. Ending'
  BY <1>6 DEF Ended, Ending
<1>8. pc'[UI] = pc[UI] \/ pc'[UI] \notin InOnOk
  BY <1>3 DEF InOnOk, Threads
<1>9. ASSUME NEW u \in users', Stopping(u)'
      PROVE  Ended({"e_set"})' \/ (~bVideo' /\ pc'[UI] \notin InOnOk \ {"start"})
  <2>1. CASE k = "e_set"
    BY <1>6, <2>1
  <2>2. CASE k = "e_disconnected"
    <3>1. PostDisconnected(t) /\ (Goto(t, "cleared") \/ Goto(t, "idle"))
      BY <1>4, <2>2 DEF PostDisconnected, Return
    <3>2. pc'[t] \in {"cleared", "idle"}
      BY <3>1, Moves
    <3>3. u # t /\ u \in users /\ u \in Threads
      BY <1>1, <1>9, <3>2 DEF Stopping, Types, TypeOK, Threads
    <3>4. Stopping(u)
      BY <1>3, <1>9, <3>3 DEF Stopping
    <3>5. Ended({"e_set"}) \/ (~bVideo /\ pc[UI] \notin InOnOk \ {"start"})
      BY <3>3, <3>4 DEF Videos
    <3>6. CASE Ended({"e_set"})
      BY <1>4, <1>5, <3>6, EndedStays
    <3>7. CASE ~bVideo /\ pc[UI] \notin InOnOk \ {"start"}
      BY <1>1, <1>8, <3>7
    <3> QED
      BY <3>5, <3>6, <3>7
  <2> QED
    BY <2>1, <2>2
<1> QED
  BY <1>1, <1>7, <1>8, <1>9 DEF Videos

LEMMA VideosEnd ==
    ASSUME Types, Places, Videos, undefined' = {}, NEW t \in Threads, ReleaseVid(t) \/ ClearVid(t)
    PROVE  Videos'
<1>1. /\ UNCHANGED <<wnd, pic, bVideo, enabled, users, posted>> /\ Stopping(t)
      /\ \E l \in {"clear", "post", "leave"} : Goto(t, l) /\ (l = "leave" => t \in users)
  <2>1. CASE ReleaseVid(t)
    <3>1. UNCHANGED <<wnd, pic, bVideo, enabled, users, posted>> /\ Stopping(t)
      BY <2>1 DEF ReleaseVid, dialog, Stopping
    <3>2. \/ Goto(t, "clear") \/ Goto(t, "post")
          \/ Goto(t, "leave") /\ t \in users
      BY <2>1 DEF ReleaseVid
    <3> QED
      BY <3>1, <3>2
  <2>2. CASE ClearVid(t)
    <3>1. UNCHANGED <<wnd, pic, bVideo, enabled, users, posted>> /\ Stopping(t)
      BY <2>2 DEF ClearVid, dialog, Stopping
    <3>2. \/ Goto(t, "post")
          \/ Goto(t, "leave") /\ t \in users
      BY <2>2 DEF ClearVid
    <3> QED
      BY <3>1, <3>2
  <2> QED
    BY <2>1, <2>2
<1>2. PICK l \in {"clear", "post", "leave"} : Goto(t, l) /\ (l = "leave" => t \in users)
  BY <1>1
<1>3. pc'[t] = l /\ \A u \in Threads \ {t} : pc'[u] = pc[u]
  BY <1>2, Moves
<1>4. pc'[UI] = pc[UI] \/ pc'[UI] \notin InOnOk
  BY <1>3 DEF InOnOk, Threads
<1>5. ASSUME NEW u \in users, Stopping(u)
      PROVE  Ended({"e_set"})' \/ (~bVideo' /\ pc'[UI] \notin InOnOk \ {"start"})
  <2>1. Ended({"e_set"}) \/ (~bVideo /\ pc[UI] \notin InOnOk \ {"start"})
    BY <1>5 DEF Videos
  <2> QED
    BY <1>1, <1>4, <2>1 DEF Ended
<1>6. Ending' \/ (~bVideo' /\ pc'[UI] # "started")
  <2>1. CASE l \in {"clear", "post"}
    BY <1>3, <2>1 DEF Ending, Stopping
  <2>2. CASE l = "leave"
    <3>1. Ended({"e_set"})' \/ (~bVideo' /\ pc'[UI] \notin InOnOk \ {"start"})
      BY <1>1, <1>2, <1>5, <2>2
    <3> QED
      BY <3>1 DEF Ended, Ending, InOnOk
  <2> QED
    BY <2>1, <2>2
<1>7. ASSUME NEW u \in users', Stopping(u)'
      PROVE  u \in users /\ Stopping(u)
  <2>1. u \in Threads
    BY <1>1, <1>7 DEF Types, TypeOK, Threads
  <2> QED
    BY <1>1, <1>3, <1>7, <2>1 DEF Stopping
<1> QED
  BY <1>1, <1>4, <1>5, <1>6, <1>7 DEF Videos

LEMMA VideosStart ==
    ASSUME Types, Places, Books, Videos, undefined' = {},
           OnOkStep \/ OnHide \/ \E y \in Formats : OnOk(y)
    PROVE  Videos'
<1>1. /\ UNCHANGED <<users, posted>>
      /\ UNCHANGED pc \/ \E l \in InOnOk \cup {"idle"} : Goto(UI, l)
  BY DEF OnOkStep, StartRelease, StartSet, StartUndo, OnOkEnds, OnHide, OnOk, threads, InOnOk
<1>2. \A u \in Recv : pc'[u] = pc[u]
  BY <1>1, Moves, UIAssumption DEF Threads
<1>3. \A u \in users' : Stopping(u)' => u \in users /\ Stopping(u)
  BY <1>1, <1>2 DEF Stopping, Types, TypeOK
<1>4. Ended({"e_set"}) => Ended({"e_set"})'
  BY <1>1 DEF Ended
<1>5. CASE \E y \in Formats : OnOk(y)
  <2>1. pc[UI] = "idle" /\ Goto(UI, "start") /\ ~bVideo /\ UNCHANGED bVideo
    BY <1>5 DEF OnOk, Idle, dialog
  <2>2. pc'[UI] = "start"
    BY <2>1, Moves DEF Threads
  <2> QED
    BY <1>3, <2>1, <2>2 DEF Videos
<1>6. CASE StartRelease
  <2>1. /\ pc[UI] = "start" /\ Goto(UI, "set") /\ UNCHANGED bVideo
        /\ \A u \in Threads : ~Stopping(u)
    BY <1>6 DEF StartRelease, dialog
  <2>2. pc'[UI] = "set"
    BY <2>1, Moves DEF Threads
  <2>3. \A u \in users : u \in Threads
    BY DEF Types, TypeOK, Threads
  <2> QED
    BY <1>3, <2>1, <2>2, <2>3 DEF Videos, InOnOk
<1>7. CASE StartSet \/ StartUndo
  <2>1. /\ pc[UI] \in {"set", "undo"} /\ UNCHANGED <<bVideo, pic>>
        /\ \/ Goto(UI, "started") /\ vid' = pic[UI] /\ wnd' = pic[UI]
           \/ Goto(UI, "undo") \/ Goto(UI, "drop")
    BY <1>7 DEF StartSet, StartUndo, dialog
  <2>2. /\ pc'[UI] \in {"started", "undo", "drop"}
        /\ pc'[UI] = "started" => vid' = pic'[UI] /\ wnd' = pic'[UI]
    BY <2>1, Moves DEF Threads
  <2>3. ~bVideo /\ \A u \in users : Stopping(u) => Ended({"e_set"})
    BY <2>1 DEF Videos, InOnOk
  <2> QED
    BY <1>3, <1>4, <2>1, <2>2, <2>3 DEF Videos
<1>8. CASE OnOkEnds
  <2>1. /\ pc[UI] \in {"started", "drop"} /\ Goto(UI, "idle") /\ UNCHANGED <<vid, wnd>>
        /\ \/ pc[UI] = "started" /\ enabled' = {"IDABORT"}
           \/ UNCHANGED bVideo
    BY <1>8 DEF OnOkEnds
  <2>2. pc'[UI] = "idle"
    BY <2>1, Moves DEF Threads
  <2>3. /\ ~bVideo /\ pic[UI] # None
        /\ \A u \in users : Stopping(u) => Ended({"e_set"})
    BY <2>1 DEF Videos, InOnOk, Books
  <2>4. pc[UI] = "started" => Ending' \/ (vid' # None /\ vid' = wnd')
    <3>1. Ending => Ending'
      <4>1. \A u \in Threads : pc[u] \in {"release", "clear", "post"} => pc'[u] = pc[u]
        BY <1>2, <2>1 DEF Threads
      <4> QED
        BY <1>1, <4>1, EndingStays
    <3> QED
      BY <2>1, <2>3, <3>1 DEF Videos
  <2> QED
    BY <1>3, <1>4, <2>1, <2>2, <2>3, <2>4 DEF Videos, InOnOk
<1>9. CASE OnHide
  <2>1. pc[UI] = "idle" /\ UNCHANGED <<pc, bVideo>> /\ ~bVideo
    BY <1>9 DEF OnHide, Idle, threads, Videos
  <2> QED
    BY <1>3, <2>1 DEF Videos, InOnOk
<1> QED
  BY <1>5, <1>6, <1>7, <1>8, <1>9 DEF OnOkStep

LEMMA VideosMessage ==
    ASSUME Types, Places, Videos, WindowMessage
    PROVE  Videos'
<1> DEFINE m == Head(posted)
<1>1. /\ posted # <<>> /\ posted' = Tail(posted) /\ pc[UI] = "idle"
      /\ UNCHANGED <<pc, users, pic, vid, wnd>>
  BY DEF WindowMessage, Idle, threads, pictures
<1>2. \A u \in users' : Stopping(u)' => u \in users /\ Stopping(u)
  BY <1>1 DEF Stopping
<1>3. CASE m.kind \in {"e_set", "e_disconnected"}
  <2>1. bVideo' = FALSE
    BY <1>3 DEF WindowMessage, OnSet, OnDisconnected
  <2> QED
    BY <1>1, <2>1 DEF Videos, InOnOk
<1>4. CASE m.kind \notin {"e_set", "e_disconnected"}
  <2>1. UNCHANGED bVideo /\ ("ID_HIDE" \in enabled' => "ID_HIDE" \in enabled)
    <3>1. CASE m.kind = "e_connected"
      BY <3>1 DEF WindowMessage, OnConnected
    <3>2. CASE m.kind = "e_list"
      BY <3>2 DEF WindowMessage, AddCameras
    <3> QED
      BY <1>4, <3>1, <3>2 DEF WindowMessage
  <2>2. /\ Ended({"e_set"}) => Ended({"e_set"})'
        /\ Ended({"e_set", "e_disconnected"}) => Ended({"e_set", "e_disconnected"})'
    BY <1>1, <1>4, StaysPosted DEF Ended, Types
  <2>3. Ending => Ending'
    BY <1>1, <2>2 DEF Ending, Ended, Stopping
  <2> QED
    BY <1>1, <1>2, <2>1, <2>2, <2>3 DEF Videos, InOnOk
<1> QED
  BY <1>3, <1>4

LEMMA VideosKept ==
    ASSUME Types, Places, SlotsTaken, Books, Videos, undefined' = {}, [Next]_vars
    PROVE  Videos'
<1>1. CASE WindowMessage
  BY <1>1, VideosMessage
<1>2. CASE Quiet /\ ~WindowMessage
  BY <1>2, TypesKept, VideosQuiet
<1>3. ASSUME NEW t \in Threads, OnH264(t) \/ OnFrame(t) PROVE Videos'
  <2>1. /\ UNCHANGED <<vid, wnd, bVideo, enabled, posted, users>>
        /\ pc[t] \in {"H264", "decode"}
        /\ \E l \in {"decode", "fail", "leave"} : Goto(t, l)
        /\ \E q : pic' = [pic EXCEPT ![t] = q]
    BY <1>3 DEF OnH264, OnFrame, pictures, dialog
  <2>2. PICK l \in {"decode", "fail", "leave"} : Goto(t, l)
    BY <2>1
  <2>3. pc'[t] = l /\ \A u \in Threads \ {t} : pc'[u] = pc[u]
    BY <2>2, Moves
  <2>4. t # UI
    BY <2>1 DEF Places, InOnOk, Ends
  <2>5. pic'[UI] = pic[UI] /\ pc'[UI] = pc[UI]
    BY <2>1, <2>3, <2>4 DEF Types, TypeOK, Threads
  <2>6. /\ \A u \in Threads : pc[u] \in {"release", "clear", "post"} => pc'[u] = pc[u]
        /\ \A u \in users' : Stopping(u)' => u \in users /\ Stopping(u)
    <3>1. \A u \in users : u \in Threads
      BY DEF Types, TypeOK, Threads
    <3> QED
      BY <2>1, <2>3, <3>1 DEF Stopping
  <2> QED
    BY <2>1, <2>5, <2>6, VideosFrame
<1>4. ASSUME NEW t \in Threads, \/ OnStop(t) \/ PostDisconnected(t) \/ ReleaseVid(t) \/ ClearVid(t)
      PROVE  Videos'
  BY <1>4, VideosTold, VideosEnd
<1>5. CASE OnOkStep \/ OnHide \/ \E y \in Formats : OnOk(y)
  BY <1>5, VideosStart
<1> QED
  BY <1>1, <1>2, <1>3, <1>4, <1>5, Loud

-----------------------------------------------------------------------------
\* Each of the three who may keep a picture counts once.
LEMMA ThreeHolders ==
    ASSUME NEW S \in SUBSET {"_vid", "window", "OnOk"}
    PROVE  Cardinality(S) = (IF "_vid" \in S THEN 1 ELSE 0) + (IF "window" \in S THEN 1 ELSE 0)
                              + (IF "OnOk" \in S THEN 1 ELSE 0)
<1> DEFINE A == S \cap {"_vid"}
<1> DEFINE B == S \cap {"_vid", "window"}
<1>1. IsFiniteSet(A) /\ Cardinality(A) = IF "_vid" \in S THEN 1 ELSE 0
  <2>1. CASE "_vid" \in S
    <3>1. A = {"_vid"}
      BY <2>1
    <3> HIDE DEF A
    <3> QED
      BY <2>1, <3>1, FS_Singleton
  <2>2. CASE "_vid" \notin S
    <3>1. A = {}
      BY <2>2
    <3> HIDE DEF A
    <3> QED
      BY <2>2, <3>1, FS_EmptySet
  <2> QED
    BY <2>1, <2>2
<1>2. IsFiniteSet(B) /\ Cardinality(B) = Cardinality(A) + (IF "window" \in S THEN 1 ELSE 0)
  <2>1. CASE "window" \in S
    <3>1. B = A \cup {"window"} /\ "window" \notin A
      BY <2>1
    <3> HIDE DEF A, B
    <3> QED
      BY <1>1, <2>1, <3>1, FS_AddElement
  <2>2. CASE "window" \notin S
    <3>1. B = A
      BY <2>2
    <3> HIDE DEF A, B
    <3> QED
      BY <1>1, <2>2, <3>1
  <2> QED
    BY <2>1, <2>2
<1>3. Cardinality(S) = Cardinality(B) + (IF "OnOk" \in S THEN 1 ELSE 0)
  <2>1. CASE "OnOk" \in S
    <3>1. S = B \cup {"OnOk"} /\ "OnOk" \notin B
      BY <2>1
    <3> HIDE DEF A, B
    <3> QED
      BY <1>1, <1>2, <2>1, <3>1, FS_AddElement
  <2>2. CASE "OnOk" \notin S
    <3>1. S = B
      BY <2>2
    <3> HIDE DEF A, B
    <3> QED
      BY <1>1, <1>2, <2>2, <3>1
  <2> QED
    BY <2>1, <2>2
<1> HIDE DEF A, B
<1> QED
  BY <1>1, <1>2, <1>3

LEMMA HoldersCounted ==
    ASSUME NEW p
    PROVE  Holders(p) = (IF p = vid THEN 1 ELSE 0) + (IF p = wnd THEN 1 ELSE 0)
                          + (IF p = pic[UI] THEN 1 ELSE 0)
<1> DEFINE S == {h \in {"_vid", "window", "OnOk"} :
        p = CASE h = "_vid" -> vid [] h = "window" -> wnd [] h = "OnOk" -> pic[UI]}
<1>1. /\ "_vid" \in S <=> p = vid
      /\ "window" \in S <=> p = wnd
      /\ "OnOk" \in S <=> p = pic[UI]
  OBVIOUS
<1>2. S \in SUBSET {"_vid", "window", "OnOk"} /\ Holders(p) = Cardinality(S)
  BY DEF Holders
<1> HIDE DEF S
<1> QED
  BY <1>1, <1>2, ThreeHolders

-----------------------------------------------------------------------------
LEMMA InitDefined == Init => Freed /\ Defined
<1> SUFFICES ASSUME Init PROVE Freed /\ Books /\ Decoded /\ Videos
  BY DEF Defined
<1>1. /\ undefined = {} /\ users = {} /\ bVideo = FALSE /\ made = 0 /\ vid = None /\ wnd = None
      /\ count = [p \in Pics |-> 0]
  BY DEF Init
<1>2. pic[UI] = None /\ \A t \in Threads : pc[t] = "idle"
  BY DEF Init, Threads
<1>3. \A p \in Pics : p # None /\ count[p] = 0
  BY <1>1 DEF Pics, None
<1>4. ~Dropped
  BY <1>2 DEF Dropped, Threads
<1>5. Books
  <2>1. {vid, wnd, pic[UI]} \subseteq 0 .. made
    BY <1>1, <1>2 DEF None
  <2> QED
    BY <1>1, <1>2, <1>3, <2>1 DEF Books, InOnOk, Threads
<1>6. Videos
  BY <1>1, <1>2 DEF Videos, Threads
<1> QED
  BY <1>1, <1>2, <1>5, <1>6 DEF Freed, Decoded, Threads

LEMMA InitInv == Init => IInv
BY TypesInit, ListInit, InitDefined DEF IInv

LEMMA NextInv == IInv /\ [Next]_vars => IInv'
<1> SUFFICES ASSUME IInv, [Next]_vars PROVE IInv'
  OBVIOUS
<1>1. Types' /\ Places' /\ SlotsTaken' /\ ListInv'
  BY TypesKept, PlacesKept, SlotsKept, ListKept DEF IInv
<1>2. CASE undefined = {}
  <2>1. Books /\ Decoded /\ Videos
    BY <1>2 DEF IInv, Defined
  <2>2. Freed'
    BY <1>2, <2>1, FreedKept DEF IInv
  <2>3. undefined' = {} => Books' /\ Decoded' /\ Videos'
    BY <2>1, BooksKept, DecodedKept, VideosKept DEF IInv
  <2> QED
    BY <1>1, <2>2, <2>3 DEF IInv, Defined
<1>3. CASE undefined # {}
  <2>1. UNCHANGED vars
    BY <1>3 DEF Next
  <2>2. UNCHANGED <<undefined, overtaken>>
    BY <2>1 DEF vars, history
  <2> QED
    BY <1>1, <1>3, <2>2 DEF IInv, Defined, Freed
<1> QED
  BY <1>2, <1>3

LEMMA InvCounted == IInv => PictureIsCounted
<1> SUFFICES ASSUME IInv, undefined = {}, pc[UI] # "set", \A t \in Threads : pc[t] # "clear",
                    NEW p \in Pics
             PROVE  count[p] = Holders(p)
  BY DEF IInv, Freed, PictureIsCounted
<1>1. Books /\ ~Dropped
  BY DEF IInv, Defined, Dropped
<1>2. count[p] = (IF p = vid THEN 1 ELSE 0) + (IF p = wnd THEN 1 ELSE 0)
                   + (IF p = pic[UI] THEN 1 ELSE 0)
  BY <1>1 DEF Books
<1> QED
  BY <1>2, HoldersCounted

LEMMA InvShown == IInv => ShownIsDecoded
BY DEF IInv, Defined, Videos, ShownIsDecoded

LEMMA InvList == IInv => ListIsCurrent
BY DEF IInv, ListInv, ListIsCurrent

\* What each variable of the client may be.
THEOREM TypeCorrect == Spec => []TypeOK
<1>1. IInv => TypeOK
  BY DEF IInv, Types
<1> QED
  BY <1>1, InitInv, NextInv, PTL DEF Spec

\* VBmp's count is the number of those who keep the picture (_vid, the window, OnOk),
\* and none is released twice or while a frame is decoded into it, but after two
\* threads were in _vid at once or when 'stop' or Start overtook the frame.
THEOREM PicturesAreCounted == Spec => []PictureIsCounted
BY InitInv, NextInv, InvCounted, PTL DEF Spec

\* While the dialog says there is video, the window shows the picture the frames
\* are decoded into, or the end of it is on its way.
THEOREM WindowShowsDecoded == Spec => []ShownIsDecoded
BY InitInv, NextInv, InvShown, PTL DEF Spec

\* The combo boxes point into the list AddCameras keeps, unless the user asked again
\* before the answer came or the network doubled a packet.
THEOREM ListStays == Spec => []ListIsCurrent
BY InitInv, NextInv, InvList, PTL DEF Spec

\* The first instance that is run, for every number of receives, pictures, frames
\* and faults: what the runs claim of it.
LEMMA FirstInstance ==
    ASSUME IInv, mode = "pictures", [MCNext]_<<vars, mode>>
    PROVE  IInv' /\ mode' = "pictures"
<1>1. [Next]_vars /\ mode' = mode
  BY DEF MCNext
<1> QED
  BY <1>1, NextInv

\* PictureInUse of the instance "pictures".
THEOREM PicturesInUse == MCSpec /\ mode = "pictures" => []PictureInUse
<1>1. MCInit /\ mode = "pictures" => IInv /\ mode = "pictures"
  BY InitInv DEF MCInit
<1>2. (IInv /\ mode = "pictures") /\ [MCNext]_<<vars, mode>> => (IInv /\ mode = "pictures")'
  BY FirstInstance
<1>3. IInv /\ mode = "pictures" => PictureInUse
  BY InvCounted, InvShown DEF PictureInUse
<1> QED
  BY <1>1, <1>2, <1>3, PTL DEF MCSpec

\* ListsCurrent of the instance "pictures".
THEOREM ListsInUse == MCSpec /\ mode = "pictures" => []ListsCurrent
<1>1. MCInit /\ mode = "pictures" => IInv /\ mode = "pictures"
  BY InitInv DEF MCInit
<1>2. (IInv /\ mode = "pictures") /\ [MCNext]_<<vars, mode>> => (IInv /\ mode = "pictures")'
  BY FirstInstance
<1>3. IInv /\ mode = "pictures" => ListsCurrent
  BY InvList DEF ListsCurrent
<1> QED
  BY <1>1, <1>2, <1>3, PTL DEF MCSpec
=============================================================================
