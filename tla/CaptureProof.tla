---------------------------- MODULE CaptureProof ----------------------------
(***************************************************************************)
(* Proofs about KsRead and Capture, for any finite sets of threads and     *)
(* frames, any number of pins and any number of reads.                     *)
(*                                                                         *)
(* What the threads have still to do is on their stacks (todo), so who has *)
(* which reference, frame, read or lock is seen there.  The invariant      *)
(* (PinInv) therefore counts places: the pairs of a thread and a height at *)
(* which a call of some kind is.  A pin's references are its pending reads,*)
(* the calls that will release one, and the owner's pointer (PinBook); each*)
(* of its frames is in one place (FrameBook); the reads under way are      *)
(* bounded (ReadBook).  None of the properties can do without: a reference *)
(* is dropped at the end of a chain of calls that was begun by another     *)
(* thread, and that it was the last one only the whole account tells.      *)
(*                                                                         *)
(* A step takes the first call of one stack and puts others in its place   *)
(* (Pushed), so each count changes by what that call and those calls are   *)
(* worth; that is proved once (Counted, CountOne, Traded), and a step has  *)
(* only to show that its assignments make up for it (Settled).  The other  *)
(* parts say where calls are: who uses a pin without a reference of its own*)
(* (Backed), who has a lock (LockPlaces, Locked), that an open handle will *)
(* be closed (Handles), that a pin being opened is known to its opener only*)
(* (Fresh) and that one thread at a time opens or stops one (Solo).        *)
(*                                                                         *)
(* The lemmas have the sets and sizes as parameters, so that they hold for *)
(* each of the compositions of MCCapture as well as for Capture itself;    *)
(* MCCapture's theorems, and the viewer's, are in ViewerProof.             *)
(***************************************************************************)
EXTENDS Capture, SequenceTheorems, FiniteSetTheorems, TLAPS

\* The calls of a pin, of a pin with a frame, of a picture, and the others.
PinOps   == {"create", "run", "read", "release", "pinstop", "setstate", "setstop", "close", "unlock"}
FrameOps == {"issue", "ioctl", "fail", "process", "push"}
PicOps   == {"set", "vidrel", "post"}
PlainOps == {"strt", "stop", "cstop", "clear", "refuse", "leave", "disconnect", "h264stop",
             "box", "destroy", "rundown"}
Items(M, F) == [op : PlainOps] \cup [op : PinOps, pin : 1 .. M]
                 \cup [op : FrameOps, pin : 1 .. M, frame : F] \cup [op : PicOps, pic : 1 .. M]

\* A stack's height; its calls are numbered from below, so that a step keeps the numbers
\* of the calls that it leaves.
Height(f, t)  == Len(f[t])
Item(f, t, h) == f[t][Len(f[t]) + 1 - h]

\* Where the calls of kind K are, and how many there are.
PlacesOf(f, T, K) == UNION {{t} \X {h \in 1 .. Height(f, t) : Item(f, t, h) \in K} : t \in T}
Number(f, T, K) == Cardinality(PlacesOf(f, T, K))

\* A truth value, counted.
One(b) == IF b THEN 1 ELSE 0

\* A call of RefOps has a reference to its pin, one of HoldOps has its frame, and one of
\* ReadOps is a read under way.
RefOps  == {"issue", "ioctl", "fail", "release", "create", "run"}
HoldOps == {"issue", "ioctl", "fail", "push"}
ReadOps == {"read", "issue", "ioctl", "fail"}
RefsOf(E, p)  == {c \in E : c.op \in RefOps /\ c.pin = p}
HoldsOf(E, p, f) == {c \in E : c.op \in HoldOps /\ c.pin = p /\ c.frame = f}
ReadsOf(E, p) == {c \in E : c.op \in ReadOps /\ c.pin = p}

\* One thread at a time opens or stops a pin; a call of NeedOps uses the pin with the
\* reference of another call or of the owner.
SoloOps == {"strt", "stop", "cstop", "clear", "create", "run", "refuse"}
NeedOps == {"read", "process", "push", "pinstop", "setstate", "setstop"}

\* Some call is of these,
Somewhere(f, T, ops) == \E t \in T : \E h \in 1 .. Height(f, t) : Item(f, t, h).op \in ops

\* and of this pin.
OnPin(f, T, ops, p) ==
    \E t \in T : \E h \in 1 .. Height(f, t) : Item(f, t, h).op \in ops /\ Item(f, t, h).pin = p

\* The owner's variable is a reference, until the owner's stop begins to clear it.
Owned(T, p) == pin = p /\ ~Somewhere(todo, T, {"clear"})

PinTypes(T, F, M) ==
    /\ todo \in [T -> Seq(Items(M, F))]
    /\ made \in 0 .. M /\ pin \in 0 .. made
    /\ handle \in [1 .. M -> {"none", "open", "closing", "closed"}]
    /\ users \in [1 .. M -> SUBSET T] /\ refs \in [1 .. M -> Nat]
    /\ running \in [1 .. M -> BOOLEAN]
    /\ free \in [1 .. M -> SUBSET F] /\ posted \in [1 .. M -> SUBSET F]
    /\ dead \subseteq 1 .. made /\ lost \subseteq 1 .. made /\ dry \in BOOLEAN
    /\ pin \notin lost

\* The references of a pin are the reads pending, the calls that have one, and the owner's
\* (or that of a pin which Create forgot); at none it is dead.
PinBook(T, F, M, p) ==
    /\ refs[p] = Cardinality(posted[p]) + Number(todo, T, RefsOf(Items(M, F), p))
                   + One(p \in lost \/ Owned(T, p))
    /\ p \in dead <=> p <= made /\ refs[p] = 0
    /\ p > made => refs[p] = 0

\* A frame of an open pin is free, pending, or with one call.
FrameBook(T, F, M, p, f) ==
    Number(todo, T, HoldsOf(Items(M, F), p, f)) + One(f \in free[p]) + One(f \in posted[p])
        = One(handle[p] # "none")

\* No more than Reads reads are under way.
ReadBook(T, F, M, p) ==
    Cardinality(posted[p]) + Number(todo, T, ReadsOf(Items(M, F), p)) <= Reads
PinBooks(T, F, M) == \A p \in 1 .. M : PinBook(T, F, M, p)
FrameBooks(T, F, M) == \A p \in 1 .. M : \A f \in F : FrameBook(T, F, M, p, f)
ReadBooks(T, F, M) == \A p \in 1 .. M : ReadBook(T, F, M, p)

\* Calls are of pins that were made, and opened unless they open it.
Known(f, T) == \A t \in T : \A h \in 1 .. Height(f, t) :
    LET c == Item(f, t, h) IN
    /\ c.op \in PinOps \cup FrameOps => c.pin <= made
    /\ c.op \in (PinOps \cup FrameOps) \ {"create"} => handle[c.pin] # "none"

\* A filled frame is with the thread that completed the read, at the bottom of its stack.
Filled(f, T, Q) == \A t \in T : \A h \in 1 .. Height(f, t) :
    LET c == Item(f, t, h) IN
    /\ c.op = "push" => h = 2 /\ t \in Q
    /\ c.op = "process" => /\ h = 3 /\ Item(f, t, 2).op = "push"
                           /\ Item(f, t, 2).pin = c.pin /\ Item(f, t, 2).frame = c.frame

\* Below a call that uses a pin is the one that will release it, unless the thread inside
\* OnUserData has just made the pin the owner's.
ReleaseBelow(f, t, h, p) == \E k \in 1 .. h - 1 : Item(f, t, k).op = "release" /\ Item(f, t, k).pin = p
Starting(f, T, B, t, p) == t \in B /\ pin = p /\ ~Somewhere(f, T, SoloOps)
Backed(f, T, B) == \A t \in T : \A h \in 1 .. Height(f, t) :
    LET c == Item(f, t, h) IN
    c.op \in NeedOps => ReleaseBelow(f, t, h, c.pin) \/ Starting(f, T, B, t, c.pin)

\* The lock of a pin is left by the first call, or after it by the call inside;
LockPlaces(f, T) == \A t \in T : \A h \in 1 .. Height(f, t) :
    LET c == Item(f, t, h) IN
    /\ c.op = "unlock" => \/ h = Height(f, t)
                          \/ h = Height(f, t) - 1 /\ Item(f, t, Height(f, t)).op \in {"ioctl", "setstop"}
    /\ c.op \in {"ioctl", "setstop"} =>
          h = Height(f, t) /\ h > 1 /\ Item(f, t, h - 1).op = "unlock" /\ Item(f, t, h - 1).pin = c.pin

\* those who use the pin's handle are the threads with such a call.
Locked(f, T, M) == \A p \in 1 .. M : users[p] = {t \in T : OnPin(f, {t}, {"unlock"}, p)}

\* A thread is about to drop the last reference.
Releasing(T, p) == refs[p] = 1 /\ \E t \in T :
    LET n == Height(todo, t) IN
    n > 0 /\ Item(todo, t, n).op = "release" /\ Item(todo, t, n).pin = p

\* An open handle will be closed: by the owner's stop, by a call, or by the destructor.
WillClose(T, p) ==
    \/ Owned(T, p)
    \/ OnPin(todo, T, {"run", "close", "pinstop"}, p)
    \/ Releasing(T, p)

\* A closing handle has users, a running pin has a handle.
HandleIs(T, p) ==
    /\ p > made \/ p \in lost => handle[p] = "none"
    /\ handle[p] = "closing" => users[p] # {}
    /\ users[p] # {} \/ running[p] => handle[p] \in {"open", "closing"}
    /\ handle[p] = "open" => WillClose(T, p)
    /\ Owned(T, p) => handle[p] # "none"
Handles(T, M) == \A p \in 1 .. M : HandleIs(T, p)

\* A pin that is being opened is known to one call only.
Fresh(T, M) == \A t \in T : \A h \in 1 .. Height(todo, t) :
    LET c == Item(todo, t, h) IN
    c.op \in {"create", "run"} =>
        /\ pin = 0 /\ c.pin \notin lost /\ posted[c.pin] = {}
        /\ handle[c.pin] = IF c.op = "create" THEN "none" ELSE "open"
        /\ \A u \in T : \A k \in 1 .. Height(todo, u) :
              LET d == Item(todo, u, k) IN
              d.op \in PinOps \cup FrameOps /\ d.pin = c.pin => u = t /\ k = h

\* No two threads open or stop pins.
Solo(f, T) == \A t, u \in T : \A h \in 1 .. Height(f, t) : \A k \in 1 .. Height(f, u) :
    Item(f, t, h).op \in SoloOps /\ Item(f, u, k).op \in SoloOps => t = u /\ h = k

\* With a buffer for each thread of the pool and each read, a read finds one.
Spare(Q, F) == Cardinality(Q) + Reads <= Cardinality(F) => ~dry

\* The invariant of KsRead: threads T of which Q are the pool's, frames F, M pins; B are the
\* threads that may have opened the owner's pin.
PinInv(T, Q, F, M, B) ==
    /\ PinTypes(T, F, M) /\ PinBooks(T, F, M) /\ FrameBooks(T, F, M) /\ ReadBooks(T, F, M)
    /\ Known(todo, T) /\ Filled(todo, T, Q) /\ Backed(todo, T, B)
    /\ LockPlaces(todo, T) /\ Locked(todo, T, M) /\ Handles(T, M) /\ Fresh(T, M) /\ Solo(todo, T)
    /\ Spare(Q, F)

\* A thread inside OnUserData will leave; only there a pin is opened, and only there, or
\* after the session, stopped.
SessionPlaces(T) == \A t \in T : \A h \in 1 .. Height(todo, t) :
    LET op == Item(todo, t, h).op IN
    /\ op = "leave" => /\ t \in inside
                       /\ \/ h = 1
                          \/ h = 2 /\ Height(todo, t) = 2 /\ Item(todo, t, 1).op = "disconnect"
    /\ op \in SoloOps \ {"cstop", "clear"} => t \in inside /\ h = 2 /\ Item(todo, t, 1).op = "leave"
    /\ op \in {"cstop", "clear"} => t \in inside \/ phase = "off"

\* The invariant of the session: those of O receive, one at a time.
SessionInv(T, M, O) ==
    /\ phase \in {"live", "closing", "off"} /\ inside \subseteq O /\ overlap = FALSE
    /\ stoping \in [1 .. M -> BOOLEAN]
    /\ phase = "off" => inside = {} /\ (pin # 0 => Somewhere(todo, T, {"cstop", "clear"}))
    /\ \A t, u \in inside : t = u
    /\ \A t \in inside : Somewhere(todo, {t}, {"leave"})
    /\ SessionPlaces(T)

-----------------------------------------------------------------------------
\* t keeps the lowest b of its calls and has these on top of them; the others have theirs.
Pushed(f, g, T, t, b, calls) ==
    /\ \A u \in T \ {t} : g[u] = f[u]
    /\ b \in 0 .. Height(f, t) /\ Height(g, t) = b + Len(calls)
    /\ \A h \in 1 .. b : Item(g, t, h) = Item(f, t, h)
    /\ \A i \in 1 .. Len(calls) : Item(g, t, b + Len(calls) + 1 - i) = calls[i]

\* What is taken off the stack of t counts so much, and what is put there.
Dropped(f, t, b, K) == Cardinality({h \in b + 1 .. Height(f, t) : Item(f, t, h) \in K})
Given(calls, K) == Cardinality({i \in 1 .. Len(calls) : calls[i] \in K})

\* A stack's height, and its calls.
LEMMA HeightIsNat ==
    ASSUME NEW T, NEW E, NEW f \in [T -> Seq(E)], NEW t \in T
    PROVE  /\ Height(f, t) \in Nat
           /\ \A h \in 1 .. Height(f, t) : Item(f, t, h) \in E
           /\ f[t] = <<>> <=> Height(f, t) = 0
           /\ f[t] # <<>> => Item(f, t, Height(f, t)) = Head(f[t])
<1>1. f[t] \in Seq(E)
  OBVIOUS
<1>2. ASSUME NEW s \in Seq(E)
      PROVE  /\ Len(s) \in Nat
             /\ \A h \in 1 .. Len(s) : s[Len(s) + 1 - h] \in E
             /\ s = <<>> <=> Len(s) = 0
             /\ s # <<>> => s[Len(s) + 1 - Len(s)] = Head(s)
  <2>1. \A h \in 1 .. Len(s) : Len(s) + 1 - h \in 1 .. Len(s)
    OBVIOUS
  <2>2. Len(s) + 1 - Len(s) = 1
    OBVIOUS
  <2> QED
    BY <2>1, <2>2, EmptySeq
<1> QED
  BY <1>1, <1>2 DEF Height, Item

\* The first call is taken, and makes others.
LEMMA DoPushes ==
    ASSUME NEW T, NEW E, NEW f \in [T -> Seq(E)], NEW t \in T, f[t] # <<>>,
           NEW calls \in Seq(E), NEW g, g = [f EXCEPT ![t] = calls \o Tail(f[t])]
    PROVE  g \in [T -> Seq(E)] /\ Pushed(f, g, T, t, Height(f, t) - 1, calls)
<1> DEFINE s == f[t]
           r == calls \o Tail(s)
           n == Len(s)
           k == Len(calls)
<1>1. s \in Seq(E) /\ n \in Nat /\ n > 0 /\ k \in Nat
  BY EmptySeq
<1>2. Tail(s) \in Seq(E) /\ Len(Tail(s)) = n - 1
  BY <1>1, HeadTailProperties
<1>3. r \in Seq(E) /\ Len(r) = k + (n - 1)
  BY <1>1, <1>2, ConcatProperties
<1>4. g \in [T -> Seq(E)] /\ g[t] = r /\ \A u \in T \ {t} : g[u] = f[u]
  BY <1>3
<1>5. ASSUME NEW h \in 1 .. n - 1 PROVE r[Len(r) + 1 - h] = s[n + 1 - h]
  <2>1. Len(r) + 1 - h \in k + 1 .. k + Len(Tail(s)) /\ Len(r) + 1 - h - k = n - h
    BY <1>1, <1>2, <1>3
  <2>2. r[Len(r) + 1 - h] = Tail(s)[n - h]
    BY <1>1, <1>2, <2>1, ConcatProperties
  <2>3. n - h \in 1 .. n - 1 /\ n - h + 1 = n + 1 - h
    BY <1>1
  <2> QED
    BY <2>2, <2>3, <1>1, <1>2, HeadTailProperties
<1>6. ASSUME NEW i \in 1 .. k PROVE r[Len(r) + 1 - (n - 1 + k + 1 - i)] = calls[i]
  <2>1. Len(r) + 1 - (n - 1 + k + 1 - i) = i
    BY <1>1, <1>3
  <2> QED
    BY <2>1, <1>1, <1>2, ConcatProperties
<1> HIDE DEF r, s, n, k
<1>7. Height(f, t) = n /\ Height(g, t) = Len(r)
  BY <1>4 DEF Height, n, s
<1>8. /\ \A h \in 1 .. n - 1 : Item(g, t, h) = Item(f, t, h)
      /\ \A i \in 1 .. k : Item(g, t, n - 1 + k + 1 - i) = calls[i]
  BY <1>4, <1>5, <1>6 DEF Item, n, s
<1>9. n - 1 \in 0 .. n /\ Len(r) = n - 1 + k
  BY <1>1, <1>3
<1>10. Pushed(f, g, T, t, n - 1, calls)
  BY <1>4, <1>7, <1>8, <1>9 DEF Pushed, k
<1> QED
  BY <1>4, <1>7, <1>10

\* All that t had to do is replaced; or it had nothing to do.
LEMMA NewPushes ==
    ASSUME NEW T, NEW E, NEW f \in [T -> Seq(E)], NEW t \in T,
           NEW calls \in Seq(E), NEW g, g = [f EXCEPT ![t] = calls]
    PROVE  g \in [T -> Seq(E)] /\ Pushed(f, g, T, t, 0, calls)
<1>1. g \in [T -> Seq(E)] /\ g[t] = calls /\ \A u \in T \ {t} : g[u] = f[u]
  OBVIOUS
<1>2. Len(calls) \in Nat /\ Height(f, t) \in Nat /\ Height(g, t) = Len(calls)
  BY <1>1, HeightIsNat DEF Height
<1>3. ASSUME NEW i \in 1 .. Len(calls) PROVE Item(g, t, 0 + Len(calls) + 1 - i) = calls[i]
  <2>1. Len(calls) + 1 - (0 + Len(calls) + 1 - i) = i
    BY <1>2
  <2> QED
    BY <2>1, <1>1 DEF Item
<1>4. 0 \in 0 .. Height(f, t) /\ Height(g, t) = 0 + Len(calls) /\ 1 .. 0 = {}
  BY <1>2
<1> QED
  BY <1>1, <1>3, <1>4 DEF Pushed

\* Where the calls of the new stacks come from; and what becomes of the old ones.
Comes(f, g, T, t, b, calls) == \A u \in T : \A h \in 1 .. Height(g, u) :
    \/ /\ h \in 1 .. Height(f, u) /\ (u = t => h <= b)
       /\ Item(g, u, h) = Item(f, u, h)
    \/ /\ u = t /\ h > b /\ h \in Nat
       /\ \E i \in 1 .. Len(calls) : h = b + Len(calls) + 1 - i /\ Item(g, u, h) = calls[i]
Stays(f, g, T, t, b) == \A u \in T : \A h \in 1 .. Height(f, u) : (u = t => h <= b) =>
    h \in 1 .. Height(g, u) /\ Item(g, u, h) = Item(f, u, h)

\* Pushed says where each call came from, and that what was kept is still there.
LEMMA Origin ==
    ASSUME NEW T, NEW E, NEW f \in [T -> Seq(E)], NEW g \in [T -> Seq(E)], NEW t \in T,
           NEW b, NEW calls \in Seq(E), Pushed(f, g, T, t, b, calls)
    PROVE  Comes(f, g, T, t, b, calls) /\ Stays(f, g, T, t, b)
<1>1. ASSUME NEW u \in T, NEW h \in 1 .. Height(g, u)
      PROVE  \/ /\ h \in 1 .. Height(f, u) /\ (u = t => h <= b)
                /\ Item(g, u, h) = Item(f, u, h)
             \/ /\ u = t /\ h > b /\ h \in Nat
                /\ \E i \in 1 .. Len(calls) : h = b + Len(calls) + 1 - i /\ Item(g, u, h) = calls[i]
  <2>1. CASE u # t
    BY <2>1 DEF Pushed, Height, Item
  <2>2. CASE u = t /\ h <= b
    BY <2>2, HeightIsNat, SMTT(30) DEF Pushed
  <2>3. CASE u = t /\ ~(h <= b)
    <3> DEFINE i == b + Len(calls) + 1 - h
    <3>1. Len(calls) \in Nat /\ b \in Nat /\ h \in Nat /\ h > b /\ h <= b + Len(calls)
      BY <2>3, HeightIsNat DEF Pushed
    <3>2. i \in 1 .. Len(calls) /\ h = b + Len(calls) + 1 - i
      BY <3>1
    <3> HIDE DEF i
    <3>3. Item(g, t, b + Len(calls) + 1 - i) = calls[i]
      BY <3>2 DEF Pushed
    <3> QED
      BY <2>3, <3>1, <3>2, <3>3
  <2> QED
    BY <2>1, <2>2, <2>3
<1>2. ASSUME NEW u \in T, NEW h \in 1 .. Height(f, u), u = t => h <= b
      PROVE  h \in 1 .. Height(g, u) /\ Item(g, u, h) = Item(f, u, h)
  <2>1. CASE u # t
    BY <2>1 DEF Pushed, Height, Item
  <2>2. CASE u = t
    BY <1>2, <2>2, HeightIsNat DEF Pushed
  <2> QED
    BY <2>1, <2>2
<1> QED
  BY <1>1, <1>2 DEF Comes, Stays

\* There are finitely many places.
LEMMA PlacesFinite ==
    ASSUME NEW T, IsFiniteSet(T), NEW E, NEW f \in [T -> Seq(E)], NEW K
    PROVE  IsFiniteSet(PlacesOf(f, T, K)) /\ Number(f, T, K) \in Nat
<1> DEFINE R == {1 .. Height(f, t) : t \in T}
           g == [t \in T |-> 1 .. Height(f, t)]
<1>1. g \in Surjection(T, R)
  BY DEF Surjection
<1>2. IsFiniteSet(R)
  BY <1>1, FS_Surjection
<1>3. \A S \in R : IsFiniteSet(S)
  <2>1. \A t \in T : Height(f, t) \in Nat
    BY HeightIsNat
  <2>2. \A n \in Nat : IsFiniteSet(1 .. n)
    BY FS_Interval
  <2> QED
    BY <2>1, <2>2
<1>4. IsFiniteSet(T \X UNION R)
  BY <1>2, <1>3, FS_UNION, FS_Product
<1>5. PlacesOf(f, T, K) \in SUBSET (T \X UNION R)
  BY DEF PlacesOf
<1> QED
  BY <1>4, <1>5, FS_Subset, FS_CardinalityType DEF Number

\* A place, and what two different ones say of the number.
LEMMA InPlaces ==
    ASSUME NEW T, NEW f, NEW K, NEW t, NEW h
    PROVE  <<t, h>> \in PlacesOf(f, T, K)
             <=> t \in T /\ h \in 1 .. Height(f, t) /\ Item(f, t, h) \in K
BY DEF PlacesOf

\* A place is a thread and a height.
LEMMA EachIsPlace ==
    ASSUME NEW T, NEW f, NEW K, NEW x \in PlacesOf(f, T, K)
    PROVE  /\ x = <<x[1], x[2]>> /\ x[1] \in T /\ x[2] \in 1 .. Height(f, x[1])
           /\ Item(f, x[1], x[2]) \in K
BY DEF PlacesOf

\* The number is positive just when there is a place.
LEMMA SomePlace ==
    ASSUME NEW T, IsFiniteSet(T), NEW E, NEW f \in [T -> Seq(E)], NEW K
    PROVE  Number(f, T, K) > 0 <=> \E t \in T : \E h \in 1 .. Height(f, t) : Item(f, t, h) \in K
<1>1. IsFiniteSet(PlacesOf(f, T, K)) /\ Number(f, T, K) \in Nat
  BY PlacesFinite
<1>2. Number(f, T, K) = 0 <=> PlacesOf(f, T, K) = {}
  BY <1>1, FS_EmptySet DEF Number
<1>3. ASSUME NEW x \in PlacesOf(f, T, K)
      PROVE  \E t \in T : \E h \in 1 .. Height(f, t) : Item(f, t, h) \in K
  BY EachIsPlace
<1>4. ASSUME NEW t \in T, NEW h \in 1 .. Height(f, t), Item(f, t, h) \in K
      PROVE  PlacesOf(f, T, K) # {}
  BY <1>4, InPlaces
<1> QED
  BY <1>1, <1>2, <1>3, <1>4

\* Two different places make more than one.
LEMMA TwoPlaces ==
    ASSUME NEW T, IsFiniteSet(T), NEW E, NEW f \in [T -> Seq(E)], NEW K,
           NEW t \in T, NEW h \in 1 .. Height(f, t), Item(f, t, h) \in K,
           NEW u \in T, NEW k \in 1 .. Height(f, u), Item(f, u, k) \in K,
           t # u \/ h # k
    PROVE  Number(f, T, K) > 1
<1>1. IsFiniteSet(PlacesOf(f, T, K)) /\ Number(f, T, K) \in Nat
  BY PlacesFinite
<1>2. <<t, h>> \in PlacesOf(f, T, K) /\ <<u, k>> \in PlacesOf(f, T, K) /\ <<t, h>> # <<u, k>>
  BY InPlaces
<1>3. Number(f, T, K) # 0
  BY <1>1, <1>2, FS_EmptySet DEF Number
<1>4. Number(f, T, K) # 1
  <2> SUFFICES ASSUME Number(f, T, K) = 1 PROVE FALSE
    OBVIOUS
  <2>1. PICK x : PlacesOf(f, T, K) = {x}
    BY <1>1, FS_Singleton DEF Number
  <2> QED
    BY <1>2, <2>1
<1> QED
  BY <1>1, <1>3, <1>4

\* The number of pairs with one thread is the number of heights.
LEMMA Slice ==
    ASSUME NEW t, NEW D, IsFiniteSet(D)
    PROVE  IsFiniteSet({t} \X D) /\ Cardinality({t} \X D) = Cardinality(D)
<1> DEFINE g == [h \in D |-> <<t, h>>]
<1>1. /\ g \in [D -> {t} \X D]
      /\ \A x \in {t} \X D : \E h \in D : g[h] = x
      /\ \A h, k \in D : g[h] = g[k] => h = k
  OBVIOUS
<1> HIDE DEF g
<1>2. g \in Injection(D, {t} \X D) /\ g \in Surjection(D, {t} \X D)
  BY <1>1 DEF Injection, Surjection, IsInjective
<1>3. g \in Bijection(D, {t} \X D)
  BY <1>2 DEF Bijection
<1> QED
  BY <1>3, FS_Bijection DEF ExistsBijection

\* The number of heights is the same from either end of a stack.
LEMMA Slided ==
    ASSUME NEW J \in SUBSET Int, IsFiniteSet(J), NEW c \in Int, NEW H, H = {c - i : i \in J}
    PROVE  IsFiniteSet(H) /\ Cardinality(H) = Cardinality(J)
<1> DEFINE g == [i \in J |-> c - i]
<1>1. g \in [J -> H] /\ (\A h \in H : \E i \in J : g[i] = h)
  OBVIOUS
<1>2. \A i, j \in J : g[i] = g[j] => i = j
  OBVIOUS
<1> HIDE DEF g
<1>3. g \in Injection(J, H) /\ g \in Surjection(J, H)
  BY <1>1, <1>2 DEF Injection, Surjection, IsInjective
<1>4. g \in Bijection(J, H)
  BY <1>3 DEF Bijection
<1> QED
  BY <1>4, FS_Bijection DEF ExistsBijection

\* A step takes what it drops and gives what it puts.
LEMMA Counted ==
    ASSUME NEW T, IsFiniteSet(T), NEW E, NEW f \in [T -> Seq(E)], NEW g \in [T -> Seq(E)],
           NEW t \in T, NEW b, NEW calls \in Seq(E), Pushed(f, g, T, t, b, calls), NEW K
    PROVE  /\ Number(g, T, K) + Dropped(f, t, b, K) = Number(f, T, K) + Given(calls, K)
           /\ Number(g, T, K) \in Nat /\ Number(f, T, K) \in Nat
           /\ Dropped(f, t, b, K) \in Nat /\ Given(calls, K) \in Nat
<1> DEFINE P == PlacesOf(f, T, K)
           Q == PlacesOf(g, T, K)
           A == {x \in P : x[1] = t => x[2] <= b}
           D == {h \in b + 1 .. Height(f, t) : Item(f, t, h) \in K}
           J == {i \in 1 .. Len(calls) : calls[i] \in K}
           c == b + Len(calls) + 1
           H == {c - i : i \in J}
<1>0. Comes(f, g, T, t, b, calls) /\ Stays(f, g, T, t, b)
  BY Origin
<1>1. IsFiniteSet(P) /\ IsFiniteSet(Q) /\ Number(f, T, K) \in Nat /\ Number(g, T, K) \in Nat
  BY PlacesFinite
<1>2. b \in Nat /\ b <= Height(f, t) /\ Height(f, t) \in Nat /\ Len(calls) \in Nat /\ c \in Int
  <2>1. Height(f, t) \in Nat /\ Len(calls) \in Nat
    BY HeightIsNat
  <2>2. b \in 0 .. Height(f, t)
    BY DEF Pushed
  <2> QED
    BY <2>1, <2>2
<1>3. IsFiniteSet(D) /\ IsFiniteSet(J) /\ J \in SUBSET Int
  <2>1. IsFiniteSet(b + 1 .. Height(f, t)) /\ IsFiniteSet(1 .. Len(calls))
    BY <1>2, FS_Interval
  <2>2. D \in SUBSET (b + 1 .. Height(f, t)) /\ J \in SUBSET (1 .. Len(calls)) /\ J \in SUBSET Int
    OBVIOUS
  <2> HIDE DEF D, J
  <2> QED
    BY <2>1, <2>2, FS_Subset
<1>4. IsFiniteSet(H) /\ Cardinality(H) = Cardinality(J)
  <2> HIDE DEF J, c
  <2> QED
    BY <1>2, <1>3, Slided, ZenonT(40)
<1>5. P = A \cup ({t} \X D) /\ A \cap ({t} \X D) = {}
  <2>1. ASSUME NEW x \in P PROVE x \in A \/ x \in {t} \X D
    <3>1. CASE x[1] = t => x[2] <= b
      BY <3>1
    <3>2. CASE x[1] = t /\ ~(x[2] <= b)
      <4>1. x = <<t, x[2]>> /\ x[2] \in 1 .. Height(f, t) /\ Item(f, t, x[2]) \in K
        BY <3>2, EachIsPlace
      <4>2. x[2] \in D
        BY <1>2, <3>2, <4>1
      <4> QED
        BY <4>1, <4>2
    <3> QED
      BY <3>1, <3>2
  <2>2. ASSUME NEW h \in D PROVE <<t, h>> \in P /\ ~(h <= b)
    <3>1. h \in 1 .. Height(f, t) /\ ~(h <= b) /\ Item(f, t, h) \in K
      BY <1>2
    <3> QED
      BY <3>1, InPlaces
  <2> QED
    BY <2>1, <2>2
<1>6. Q = A \cup ({t} \X H) /\ A \cap ({t} \X H) = {}
  <2>1. ASSUME NEW x \in Q PROVE x \in A \/ x \in {t} \X H
    <3>1. x = <<x[1], x[2]>> /\ x[1] \in T /\ x[2] \in 1 .. Height(g, x[1]) /\ Item(g, x[1], x[2]) \in K
      BY EachIsPlace
    <3>2. CASE /\ x[2] \in 1 .. Height(f, x[1]) /\ (x[1] = t => x[2] <= b)
               /\ Item(g, x[1], x[2]) = Item(f, x[1], x[2])
      BY <3>1, <3>2, InPlaces
    <3>3. CASE /\ x[1] = t
               /\ \E i \in 1 .. Len(calls) : x[2] = b + Len(calls) + 1 - i /\ Item(g, x[1], x[2]) = calls[i]
      <4>1. PICK i \in 1 .. Len(calls) : x[2] = b + Len(calls) + 1 - i /\ Item(g, x[1], x[2]) = calls[i]
        BY <3>3
      <4>2. i \in J
        BY <3>1, <3>3, <4>1
      <4>4. x[2] = c - i
        BY <1>2, <4>1
      <4>3. x[2] \in H
        BY <4>2, <4>4
      <4> QED
        BY <3>1, <3>3, <4>3
    <3>4. \/ /\ x[2] \in 1 .. Height(f, x[1]) /\ (x[1] = t => x[2] <= b)
             /\ Item(g, x[1], x[2]) = Item(f, x[1], x[2])
          \/ /\ x[1] = t
             /\ \E i \in 1 .. Len(calls) : x[2] = b + Len(calls) + 1 - i /\ Item(g, x[1], x[2]) = calls[i]
      <4> DEFINE u == x[1]
                 h == x[2]
      <4>1. u \in T /\ h \in 1 .. Height(g, u)
        BY <3>1
      <4> HIDE DEF Q, P, A, D, J, H, c, u, h
      <4>2. \/ h \in 1 .. Height(f, u) /\ (u = t => h <= b) /\ Item(g, u, h) = Item(f, u, h)
            \/ /\ u = t
               /\ \E i \in 1 .. Len(calls) : h = b + Len(calls) + 1 - i /\ Item(g, u, h) = calls[i]
        BY <4>1, <1>0 DEF Comes
      <4> QED
        BY <4>2 DEF u, h
    <3> QED
      BY <3>2, <3>3, <3>4
  <2>2. ASSUME NEW x \in A PROVE x \in Q
    <3>1. x = <<x[1], x[2]>> /\ x[1] \in T /\ x[2] \in 1 .. Height(f, x[1]) /\ Item(f, x[1], x[2]) \in K
      BY EachIsPlace
    <3>2. x[1] = t => x[2] <= b
      OBVIOUS
    <3>3. x[2] \in 1 .. Height(g, x[1]) /\ Item(g, x[1], x[2]) = Item(f, x[1], x[2])
      <4> DEFINE u == x[1]
                 h == x[2]
      <4>1. u \in T /\ h \in 1 .. Height(f, u) /\ (u = t => h <= b)
        BY <3>1, <3>2
      <4> HIDE DEF Q, P, A, D, J, H, c, u, h
      <4>2. h \in 1 .. Height(g, u) /\ Item(g, u, h) = Item(f, u, h)
        BY <4>1, <1>0 DEF Stays
      <4> QED
        BY <4>2 DEF u, h
    <3> QED
      BY <3>1, <3>3, InPlaces
  <2>3. ASSUME NEW h \in H PROVE <<t, h>> \in Q /\ ~(h <= b)
    <3>1. PICK i \in 1 .. Len(calls) : calls[i] \in K /\ h = c - i
      OBVIOUS
    <3>2. h \in 1 .. Height(g, t) /\ ~(h <= b)
      BY <1>2, <3>1 DEF Pushed
    <3>3. Item(g, t, h) = calls[i]
      BY <3>1 DEF Pushed
    <3> QED
      BY <3>1, <3>2, <3>3, InPlaces
  <2> QED
    BY <2>1, <2>2, <2>3
<1>7. IsFiniteSet(A)
  BY <1>1, FS_Subset
<1>8. /\ IsFiniteSet({t} \X D) /\ Cardinality({t} \X D) = Cardinality(D)
      /\ IsFiniteSet({t} \X H) /\ Cardinality({t} \X H) = Cardinality(H)
  <2> HIDE DEF D, H
  <2> QED
    BY <1>3, <1>4, Slice
<1>9. Cardinality({}) = 0
  BY FS_EmptySet
<1>10. /\ Cardinality(A) \in Nat /\ Cardinality(D) \in Nat /\ Cardinality(H) \in Nat
       /\ Cardinality(J) \in Nat
  BY <1>3, <1>4, <1>7, FS_CardinalityType
<1>11. Cardinality(P) = Cardinality(A) + Cardinality(D)
  <2> DEFINE S == {t} \X D
  <2>1. P = A \cup S /\ A \cap S = {} /\ IsFiniteSet(S) /\ Cardinality(S) = Cardinality(D)
    BY <1>5, <1>8
  <2> HIDE DEF P, A, D, S
  <2>2. Cardinality(A \cup S) = Cardinality(A) + Cardinality(S) - Cardinality(A \cap S)
    BY <1>7, <2>1, FS_Union
  <2>3. Cardinality(A \cap S) = 0
    BY <2>1, <1>9
  <2> QED
    BY <2>1, <2>2, <2>3, <1>10
<1>12. Cardinality(Q) = Cardinality(A) + Cardinality(H)
  <2> DEFINE S == {t} \X H
  <2>1. Q = A \cup S /\ A \cap S = {} /\ IsFiniteSet(S) /\ Cardinality(S) = Cardinality(H)
    BY <1>6, <1>8
  <2> HIDE DEF Q, A, H, S
  <2>2. Cardinality(A \cup S) = Cardinality(A) + Cardinality(S) - Cardinality(A \cap S)
    BY <1>7, <2>1, FS_Union
  <2>3. Cardinality(A \cap S) = 0
    BY <2>1, <1>9
  <2> QED
    BY <2>1, <2>2, <2>3, <1>10
<1>13. /\ Number(f, T, K) = Cardinality(P) /\ Number(g, T, K) = Cardinality(Q)
       /\ Dropped(f, t, b, K) = Cardinality(D) /\ Given(calls, K) = Cardinality(J)
  BY DEF Number, Dropped, Given
<1> HIDE DEF P, Q, A, D, J, H
<1> QED
  BY <1>1, <1>4, <1>10, <1>11, <1>12, <1>13

\* No call of the kind is given,
LEMMA GivenNone ==
    ASSUME NEW calls, NEW K, \A i \in 1 .. Len(calls) : calls[i] \notin K
    PROVE  Given(calls, K) = 0
<1>1. {i \in 1 .. Len(calls) : calls[i] \in K} = {}
  OBVIOUS
<1> QED
  BY <1>1, FS_EmptySet DEF Given

\* or exactly one.
LEMMA GivenOne ==
    ASSUME NEW calls, NEW K, NEW j \in 1 .. Len(calls), calls[j] \in K,
           \A i \in 1 .. Len(calls) : i # j => calls[i] \notin K
    PROVE  Given(calls, K) = 1
<1>1. {i \in 1 .. Len(calls) : calls[i] \in K} = {j}
  OBVIOUS
<1> QED
  BY <1>1, FS_Singleton DEF Given

\* Of the first call alone,
LEMMA DroppedTop ==
    ASSUME NEW T, NEW E, NEW f \in [T -> Seq(E)], NEW t \in T, f[t] # <<>>, NEW K
    PROVE  Dropped(f, t, Height(f, t) - 1, K) = One(Item(f, t, Height(f, t)) \in K)
<1>1. Height(f, t) \in Nat /\ Height(f, t) > 0
  BY HeightIsNat
<1>2. Height(f, t) - 1 + 1 .. Height(f, t) = {Height(f, t)}
  BY <1>1
<1>3. {h \in Height(f, t) - 1 + 1 .. Height(f, t) : Item(f, t, h) \in K}
        = IF Item(f, t, Height(f, t)) \in K THEN {Height(f, t)} ELSE {}
  BY <1>2
<1> QED
  BY <1>3, FS_Singleton, FS_EmptySet DEF Dropped, One

\* or of nothing of the kind.
LEMMA DroppedNone ==
    ASSUME NEW f, NEW t, NEW b, NEW K, \A h \in b + 1 .. Height(f, t) : Item(f, t, h) \notin K
    PROVE  Dropped(f, t, b, K) = 0
<1>1. {h \in b + 1 .. Height(f, t) : Item(f, t, h) \in K} = {}
  OBVIOUS
<1> QED
  BY <1>1, FS_EmptySet DEF Dropped

-----------------------------------------------------------------------------
\* The step of a thread: todo and todo' as Pushed has them.
Moved(T, F, M, t, b, calls) ==
    /\ IsFiniteSet(T) /\ t \in T /\ calls \in Seq(Items(M, F))
    /\ todo \in [T -> Seq(Items(M, F))] /\ todo' \in [T -> Seq(Items(M, F))]
    /\ Pushed(todo, todo', T, t, b, calls)

\* The calls that name a pin, and those under the lock of one.
HasPin == PinOps \cup FrameOps
LockOps == {"unlock", "ioctl", "setstop"}

\* What a call of each kind has.
LEMMA Kinds_ ==
    ASSUME NEW M, NEW F, NEW c \in Items(M, F)
    PROVE  /\ c.op \in HasPin => c.pin \in 1 .. M
           /\ c.op \in FrameOps => c.frame \in F
           /\ c.op \in PicOps => c.pic \in 1 .. M
           /\ c.op \in PlainOps \cup HasPin \cup PicOps
<1>1. CASE c \in [op : PlainOps]
  BY <1>1 DEF PlainOps, HasPin, PinOps, FrameOps, PicOps
<1>2. CASE c \in [op : PinOps, pin : 1 .. M]
  BY <1>2 DEF PlainOps, HasPin, PinOps, FrameOps, PicOps
<1>3. CASE c \in [op : FrameOps, pin : 1 .. M, frame : F]
  BY <1>3 DEF PlainOps, HasPin, PinOps, FrameOps, PicOps
<1>4. CASE c \in [op : PicOps, pic : 1 .. M]
  BY <1>4 DEF PlainOps, HasPin, PinOps, FrameOps, PicOps
<1> QED
  BY <1>1, <1>2, <1>3, <1>4 DEF Items

\* The records that the actions build: a call of a pin,
LEMMA OnIs ==
    ASSUME NEW op, NEW p
    PROVE  On(op, p).op = op /\ On(op, p).pin = p
BY DEF On

\* which is one of the calls;
LEMMA OnItem ==
    ASSUME NEW M, NEW F, NEW op \in PinOps, NEW p \in 1 .. M
    PROVE  On(op, p) \in Items(M, F)
BY DEF On, Items

\* a call of a pin with a frame,
LEMMA WithIs ==
    ASSUME NEW op, NEW p, NEW f
    PROVE  With(op, p, f).op = op /\ With(op, p, f).pin = p /\ With(op, p, f).frame = f
BY DEF With

\* which is one of the calls;
LEMMA WithItem ==
    ASSUME NEW M, NEW F, NEW op \in FrameOps, NEW p \in 1 .. M, NEW f \in F
    PROVE  With(op, p, f) \in Items(M, F)
BY DEF With, Items

\* a call of neither,
LEMMA CallIs ==
    ASSUME NEW op
    PROVE  Call(op).op = op
BY DEF Call

\* which is one of the calls.
LEMMA CallItem ==
    ASSUME NEW M, NEW F, NEW op \in PlainOps
    PROVE  Call(op) \in Items(M, F)
BY DEF Call, Items

\* All that Moved says, in parts.
LEMMA MovedIs ==
    ASSUME NEW T, NEW F, NEW M, NEW t, NEW b, NEW calls, Moved(T, F, M, t, b, calls)
    PROVE  /\ Comes(todo, todo', T, t, b, calls) /\ Stays(todo, todo', T, t, b)
           /\ t \in T /\ b \in Nat /\ b <= Height(todo, t) /\ Len(calls) \in Nat
           /\ Height(todo', t) = b + Len(calls)
           /\ \A u \in T : Height(todo, u) \in Nat /\ Height(todo', u) \in Nat
           /\ \A u \in T \ {t} : todo'[u] = todo[u]
           /\ \A i \in 1 .. Len(calls) : calls[i] \in Items(M, F)
           /\ \A i \in 1 .. Len(calls) : Item(todo', t, b + Len(calls) + 1 - i) = calls[i]
<1>1. Comes(todo, todo', T, t, b, calls) /\ Stays(todo, todo', T, t, b)
  BY Origin DEF Moved
<1>2. \A u \in T : Height(todo, u) \in Nat /\ Height(todo', u) \in Nat
  BY HeightIsNat DEF Moved
<1>3. b \in 0 .. Height(todo, t) /\ Len(calls) \in Nat
  BY DEF Moved, Pushed
<1>4. b \in Nat /\ b <= Height(todo, t)
  BY <1>2, <1>3 DEF Moved
<1> QED
  BY <1>1, <1>2, <1>3, <1>4 DEF Moved, Pushed

\* Before and after it the stacks hold calls.
LEMMA ItemsOf ==
    ASSUME NEW T, NEW F, NEW M, NEW t, NEW b, NEW calls, Moved(T, F, M, t, b, calls)
    PROVE  /\ \A u \in T : \A h \in 1 .. Height(todo, u) : Item(todo, u, h) \in Items(M, F)
           /\ \A u \in T : \A h \in 1 .. Height(todo', u) : Item(todo', u, h) \in Items(M, F)
BY HeightIsNat DEF Moved

\* What is dropped and what is put on is none of these.
Untouched(f, t, b, calls, ops) ==
    /\ \A h \in b + 1 .. Height(f, t) : Item(f, t, h).op \notin ops
    /\ \A i \in 1 .. Len(calls) : calls[i].op \notin ops

\* A step's account of one kind of call.
LEMMA Tally ==
    ASSUME NEW T, NEW F, NEW M, NEW t, NEW b, NEW calls, Moved(T, F, M, t, b, calls), NEW K
    PROVE  /\ Number(todo', T, K) + Dropped(todo, t, b, K) = Number(todo, T, K) + Given(calls, K)
           /\ Number(todo', T, K) \in Nat /\ Number(todo, T, K) \in Nat
           /\ Dropped(todo, t, b, K) \in Nat /\ Given(calls, K) \in Nat
<1> DEFINE E == Items(M, F)
<1>1. /\ IsFiniteSet(T) /\ t \in T /\ calls \in Seq(E)
      /\ todo \in [T -> Seq(E)] /\ todo' \in [T -> Seq(E)]
      /\ Pushed(todo, todo', T, t, b, calls)
  BY DEF Moved
<1> HIDE DEF E
<1> QED
  BY <1>1, Counted

\* A kind that the step neither drops nor gives keeps its number.
LEMMA SameNumber ==
    ASSUME NEW T, NEW F, NEW M, NEW t, NEW b, NEW calls, Moved(T, F, M, t, b, calls),
           NEW K,
           \A h \in b + 1 .. Height(todo, t) : Item(todo, t, h) \notin K,
           \A i \in 1 .. Len(calls) : calls[i] \notin K
    PROVE  Number(todo', T, K) = Number(todo, T, K)
<1>1. /\ Number(todo', T, K) + Dropped(todo, t, b, K) = Number(todo, T, K) + Given(calls, K)
      /\ Number(todo', T, K) \in Nat /\ Number(todo, T, K) \in Nat
  BY Tally
<1>2. Given(calls, K) = 0
  BY GivenNone
<1>3. Dropped(todo, t, b, K) = 0
  BY DroppedNone
<1> QED
  BY <1>1, <1>2, <1>3

\* An operation that is nowhere touched is somewhere before if it is after.
LEMMA SameSomewhere ==
    ASSUME NEW T, NEW F, NEW M, NEW t, NEW b, NEW calls, Moved(T, F, M, t, b, calls),
           NEW ops
    PROVE  /\ /\ \A i \in 1 .. Len(calls) : calls[i].op \notin ops
              /\ Somewhere(todo', T, ops)
              => Somewhere(todo, T, ops)
           /\ /\ \A h \in b + 1 .. Height(todo, t) : Item(todo, t, h).op \notin ops
              /\ Somewhere(todo, T, ops)
              => Somewhere(todo', T, ops)
<1>1. ASSUME \A i \in 1 .. Len(calls) : calls[i].op \notin ops, Somewhere(todo', T, ops)
      PROVE  Somewhere(todo, T, ops)
  <2>1. PICK u \in T : \E h \in 1 .. Height(todo', u) : Item(todo', u, h).op \in ops
    BY <1>1 DEF Somewhere
  <2>2. PICK h \in 1 .. Height(todo', u) : Item(todo', u, h).op \in ops
    BY <2>1
  <2>3. h \in 1 .. Height(todo, u) /\ Item(todo, u, h) = Item(todo', u, h)
    <3>1. Comes(todo, todo', T, t, b, calls)
      BY MovedIs
    <3>2. ~(\E i \in 1 .. Len(calls) : Item(todo', u, h) = calls[i])
      BY <1>1, <2>2
    <3> QED
      BY <3>1, <3>2 DEF Comes
  <2> QED
    BY <2>2, <2>3 DEF Somewhere
<1>2. ASSUME \A h \in b + 1 .. Height(todo, t) : Item(todo, t, h).op \notin ops,
             Somewhere(todo, T, ops)
      PROVE  Somewhere(todo', T, ops)
  <2>1. PICK u \in T : \E h \in 1 .. Height(todo, u) : Item(todo, u, h).op \in ops
    BY <1>2 DEF Somewhere
  <2>0. PICK h \in 1 .. Height(todo, u) : Item(todo, u, h).op \in ops
    BY <2>1
  <2>2. u = t => h <= b
    BY <1>2, <2>0, MovedIs
  <2> QED
    BY <2>0, <2>2, MovedIs DEF Stays, Somewhere
<1> QED
  BY <1>1, <1>2

\* The same for the calls of one pin.
LEMMA SameOnPin ==
    ASSUME NEW T, NEW F, NEW M, NEW t, NEW b, NEW calls, Moved(T, F, M, t, b, calls),
           NEW ops, NEW p
    PROVE  /\ /\ \A i \in 1 .. Len(calls) : ~(calls[i].op \in ops /\ calls[i].pin = p)
              /\ OnPin(todo', T, ops, p)
              => OnPin(todo, T, ops, p)
           /\ /\ \A h \in b + 1 .. Height(todo, t) :
                    ~(Item(todo, t, h).op \in ops /\ Item(todo, t, h).pin = p)
              /\ OnPin(todo, T, ops, p)
              => OnPin(todo', T, ops, p)
<1>1. ASSUME \A i \in 1 .. Len(calls) : ~(calls[i].op \in ops /\ calls[i].pin = p),
             OnPin(todo', T, ops, p)
      PROVE  OnPin(todo, T, ops, p)
  <2>1. PICK u \in T : \E h \in 1 .. Height(todo', u) : Item(todo', u, h).op \in ops /\ Item(todo', u, h).pin = p
    BY <1>1 DEF OnPin
  <2>2. PICK h \in 1 .. Height(todo', u) : Item(todo', u, h).op \in ops /\ Item(todo', u, h).pin = p
    BY <2>1
  <2>3. h \in 1 .. Height(todo, u) /\ Item(todo, u, h) = Item(todo', u, h)
    <3>1. Comes(todo, todo', T, t, b, calls)
      BY MovedIs
    <3>2. ~(\E i \in 1 .. Len(calls) : Item(todo', u, h) = calls[i])
      BY <1>1, <2>2
    <3> QED
      BY <3>1, <3>2 DEF Comes
  <2> QED
    BY <2>2, <2>3 DEF OnPin
<1>2. ASSUME \A h \in b + 1 .. Height(todo, t) :
                ~(Item(todo, t, h).op \in ops /\ Item(todo, t, h).pin = p),
             OnPin(todo, T, ops, p)
      PROVE  OnPin(todo', T, ops, p)
  <2>1. PICK u \in T : \E h \in 1 .. Height(todo, u) : Item(todo, u, h).op \in ops /\ Item(todo, u, h).pin = p
    BY <1>2 DEF OnPin
  <2>0. PICK h \in 1 .. Height(todo, u) : Item(todo, u, h).op \in ops /\ Item(todo, u, h).pin = p
    BY <2>1
  <2>2. ASSUME u = t, ~(h <= b) PROVE FALSE
    <3>1. h \in b + 1 .. Height(todo, t)
      BY <2>2, MovedIs
    <3> QED
      BY <1>2, <2>0, <2>2, <3>1
  <2> QED
    BY <2>0, <2>2, MovedIs DEF Stays, OnPin
<1> QED
  BY <1>1, <1>2

-----------------------------------------------------------------------------
\* What the step of a thread does to the parts of the invariant.
NewKnown(calls) == \A i \in 1 .. Len(calls) :
    /\ calls[i].op \in HasPin => calls[i].pin <= made
    /\ calls[i].op \in HasPin \ {"create"} => handle[calls[i].pin] # "none"

\* The pins of the calls were made, and have had a handle.
LEMMA KnownStep ==
    ASSUME NEW T, NEW F, NEW M \in Nat, NEW t, NEW b, NEW calls, Moved(T, F, M, t, b, calls),
           Known(todo, T), made \in Nat, made' \in Nat, made <= made',
           \A p \in 1 .. M : handle[p] # "none" => handle'[p] # "none",
           NewKnown(calls)'
    PROVE  Known(todo, T)'
<1> SUFFICES ASSUME NEW u \in T, NEW h \in 1 .. Height(todo', u)
             PROVE  LET c == Item(todo', u, h) IN
                    /\ c.op \in HasPin => c.pin <= made'
                    /\ c.op \in HasPin \ {"create"} => handle'[c.pin] # "none"
  BY DEF Known, HasPin
<1> DEFINE c == Item(todo', u, h)
<1>0. Comes(todo, todo', T, t, b, calls) /\ c \in Items(M, F)
  BY MovedIs, ItemsOf
<1>1. CASE h \in 1 .. Height(todo, u) /\ c = Item(todo, u, h)
  <2>1. /\ c.op \in HasPin => c.pin <= made
        /\ c.op \in HasPin \ {"create"} => handle[c.pin] # "none"
    BY <1>1 DEF Known, HasPin
  <2>2. c.op \in HasPin => c.pin \in 1 .. M
    BY <1>0, Kinds_
  <2> HIDE DEF c
  <2>3. c.op \in HasPin => c.pin \in Nat /\ c.pin <= made'
    BY <2>1, <2>2
  <2> QED
    BY <2>1, <2>2, <2>3 DEF c
<1>2. CASE \E i \in 1 .. Len(calls) : c = calls[i]
  BY <1>2 DEF NewKnown
<1> QED
  BY <1>0, <1>1, <1>2 DEF Comes

\* Where the calls with a filled frame are, when the step makes no such call.
LEMMA FilledStep ==
    ASSUME NEW T, NEW F, NEW M \in Nat, NEW Q, NEW t, NEW b, NEW calls,
           Moved(T, F, M, t, b, calls), Filled(todo, T, Q),
           \A i \in 1 .. Len(calls) : calls[i].op \notin {"push", "process"}
    PROVE  Filled(todo, T, Q)'
<1> SUFFICES ASSUME NEW u \in T, NEW h \in 1 .. Height(todo', u)
             PROVE  LET c == Item(todo', u, h) IN
                    /\ c.op = "push" => h = 2 /\ u \in Q
                    /\ c.op = "process" => /\ h = 3 /\ Item(todo', u, 2).op = "push"
                           /\ Item(todo', u, 2).pin = c.pin /\ Item(todo', u, 2).frame = c.frame
  BY DEF Filled
<1>0. Comes(todo, todo', T, t, b, calls) /\ Stays(todo, todo', T, t, b)
  BY MovedIs
<1>1. CASE h \in 1 .. Height(todo, u) /\ (u = t => h <= b) /\ Item(todo', u, h) = Item(todo, u, h)
  <2>1. CASE Item(todo, u, h).op = "process"
    <3>1. h = 3 /\ Height(todo, u) \in Nat /\ b \in Nat
      BY <1>1, <2>1, MovedIs DEF Filled
    <3>2. 2 \in 1 .. Height(todo, u) /\ (u = t => 2 <= b)
      BY <1>1, <3>1
    <3>3. Item(todo', u, 2) = Item(todo, u, 2)
      BY <1>0, <3>2 DEF Stays
    <3> QED
      BY <1>1, <2>1, <3>3 DEF Filled
  <2>2. CASE Item(todo, u, h).op # "process"
    BY <1>1, <2>2 DEF Filled
  <2> QED
    BY <2>1, <2>2
<1>2. CASE \E i \in 1 .. Len(calls) : Item(todo', u, h) = calls[i]
  BY <1>2
<1> QED
  BY <1>0, <1>1, <1>2 DEF Comes

\* A call t has kept is backed as before; those that are new must be.
NewBacked(T, B, t, b, calls) == \A i \in 1 .. Len(calls) : calls[i].op \in NeedOps =>
    \/ ReleaseBelow(todo, t, b + Len(calls) + 1 - i, calls[i].pin)
    \/ Starting(todo, T, B, t, calls[i].pin)

\* The call that will release the pin is still below.
LEMMA ReleaseKept ==
    ASSUME NEW T, NEW F, NEW M, NEW t, NEW b, NEW calls, Moved(T, F, M, t, b, calls),
           NEW u \in T, NEW h \in Nat, h <= Height(todo, u) + 1, u = t => h <= b + 1,
           NEW k \in Nat, h <= k, NEW p, ReleaseBelow(todo, u, h, p)
    PROVE  ReleaseBelow(todo', u, k, p)
<1>1. PICK j \in 1 .. h - 1 : Item(todo, u, j).op = "release" /\ Item(todo, u, j).pin = p
  BY DEF ReleaseBelow
<1>2. b \in Nat /\ Height(todo, u) \in Nat /\ Stays(todo, todo', T, t, b)
  BY MovedIs
<1>3. j \in 1 .. Height(todo, u) /\ (u = t => j <= b) /\ j \in 1 .. k - 1
  BY <1>1, <1>2
<1>4. Item(todo', u, j) = Item(todo, u, j)
  BY <1>2, <1>3 DEF Stays
<1> QED
  BY <1>1, <1>3, <1>4 DEF ReleaseBelow

\* Whoever needs the pin has a reference, or is starting it.
LEMMA BackedStep ==
    ASSUME NEW T, NEW F, NEW M, NEW B, NEW C, NEW t, NEW b, NEW calls,
           Moved(T, F, M, t, b, calls), Backed(todo, T, B),
           \A u \in T : \A h \in 1 .. Height(todo, u) :
              /\ u = t => h <= b
              /\ Item(todo, u, h).op \in NeedOps
              => \A p : Starting(todo, T, B, u, p) => Starting(todo, T, C, u, p)',
           NewBacked(T, C, t, b, calls)'
    PROVE  Backed(todo, T, C)'
<1> SUFFICES ASSUME NEW u \in T, NEW h \in 1 .. Height(todo', u), Item(todo', u, h).op \in NeedOps
             PROVE  \/ ReleaseBelow(todo', u, h, Item(todo', u, h).pin)
                    \/ Starting(todo, T, C, u, Item(todo, u, h).pin)'
  BY DEF Backed
<1>0. Comes(todo, todo', T, t, b, calls)
  BY MovedIs
<1>1. CASE h \in 1 .. Height(todo, u) /\ (u = t => h <= b) /\ Item(todo', u, h) = Item(todo, u, h)
  <2>1. CASE ReleaseBelow(todo, u, h, Item(todo, u, h).pin)
    <3>1. h \in Nat /\ h <= h /\ h <= Height(todo, u) + 1 /\ (u = t => h <= b + 1)
      BY <1>1, MovedIs
    <3> QED
      BY <1>1, <2>1, <3>1, ReleaseKept
  <2>2. CASE Starting(todo, T, B, u, Item(todo, u, h).pin)
    BY <1>1, <2>2
  <2> QED
    BY <1>1, <2>1, <2>2 DEF Backed
<1>2. ASSUME u = t, NEW i \in 1 .. Len(calls), h = b + Len(calls) + 1 - i, Item(todo', u, h) = calls[i]
      PROVE  \/ ReleaseBelow(todo', u, h, Item(todo', u, h).pin)
             \/ Starting(todo, T, C, u, Item(todo, u, h).pin)'
  BY <1>2 DEF NewBacked
<1> QED
  BY <1>0, <1>1, <1>2 DEF Comes

\* When nobody starts or stops a pin at this moment, it stays so.
LEMMA StartingStays ==
    ASSUME NEW T, NEW F, NEW M, NEW B, NEW C, NEW t, NEW b, NEW calls,
           Moved(T, F, M, t, b, calls), B \subseteq C,
           \A i \in 1 .. Len(calls) : calls[i].op \notin SoloOps, pin' = pin
    PROVE  \A u, p : Starting(todo, T, B, u, p) => Starting(todo, T, C, u, p)'
<1>1. Somewhere(todo', T, SoloOps) => Somewhere(todo, T, SoloOps)
  BY SameSomewhere
<1> QED
  BY <1>1 DEF Starting

\* The step is not about a pin that is being opened.
NotOpening(f, T, t, b, calls, q) ==
    /\ \A i \in 1 .. Len(calls) : /\ calls[i].op \notin {"create", "run"}
                                  /\ calls[i].op \in HasPin => calls[i].pin = q
    /\ \A u \in T : \A h \in 1 .. Height(f, u) : (u = t => h <= b) =>
              ~(Item(f, u, h).op \in {"create", "run"} /\ Item(f, u, h).pin = q)
FreshElsewhere(M, q) == \A p \in 1 .. M : p # q =>
    (p \notin lost => p \notin lost') /\ posted'[p] = posted[p] /\ handle'[p] = handle[p]

\* A pin being opened is known to its opener only.
LEMMA FreshStep ==
    ASSUME NEW T, NEW F, NEW M \in Nat, NEW t, NEW b, NEW calls, Moved(T, F, M, t, b, calls),
           Fresh(T, M), NEW q, pin' \in {pin, 0},
           FreshElsewhere(M, q), NotOpening(todo, T, t, b, calls, q)
    PROVE  Fresh(T, M)'
<1> SUFFICES ASSUME NEW u \in T, NEW h \in 1 .. Height(todo', u),
                    Item(todo', u, h).op \in {"create", "run"}
             PROVE  LET c == Item(todo', u, h) IN
                    /\ pin' = 0 /\ c.pin \notin lost' /\ posted'[c.pin] = {}
                    /\ handle'[c.pin] = IF c.op = "create" THEN "none" ELSE "open"
                    /\ \A v \in T : \A k \in 1 .. Height(todo', v) :
                          LET d == Item(todo', v, k) IN
                          d.op \in HasPin /\ d.pin = c.pin => v = u /\ k = h
  BY DEF Fresh, HasPin
<1> DEFINE c == Item(todo', u, h)
<1>0. Comes(todo, todo', T, t, b, calls)
  BY MovedIs
<1>1. h \in 1 .. Height(todo, u) /\ (u = t => h <= b) /\ c = Item(todo, u, h)
  BY <1>0 DEF Comes, NotOpening
<1>2. c.pin # q /\ c.pin \in 1 .. M
  <2>1. c \in Items(M, F) /\ c.op \in HasPin
    BY <1>1, ItemsOf DEF HasPin, PinOps
  <2> QED
    BY <1>1, <2>1, Kinds_ DEF NotOpening
<1>3. /\ pin = 0 /\ c.pin \notin lost /\ posted[c.pin] = {}
      /\ handle[c.pin] = IF c.op = "create" THEN "none" ELSE "open"
  BY <1>1 DEF Fresh
<1>4. ASSUME NEW v \in T, NEW k \in 1 .. Height(todo', v),
             Item(todo', v, k).op \in HasPin, Item(todo', v, k).pin = c.pin
      PROVE  v = u /\ k = h
  <2>1. k \in 1 .. Height(todo, v) /\ Item(todo', v, k) = Item(todo, v, k)
    BY <1>0, <1>2, <1>4 DEF Comes, NotOpening
  <2> QED
    BY <1>1, <1>4, <2>1 DEF Fresh, HasPin
<1> HIDE DEF c
<1>5. c.pin \notin lost' /\ posted'[c.pin] = posted[c.pin] /\ handle'[c.pin] = handle[c.pin]
  BY <1>2, <1>3 DEF FreshElsewhere
<1> QED
  BY <1>3, <1>4, <1>5 DEF c

\* The pin of a call that is gone is not that of one that opens a pin.
LEMMA NotFresh ==
    ASSUME NEW T, NEW F, NEW M \in Nat, NEW t, NEW b, NEW calls, Moved(T, F, M, t, b, calls),
           Fresh(T, M), NEW k \in b + 1 .. Height(todo, t), Item(todo, t, k).op \in HasPin
    PROVE  \A u \in T : \A h \in 1 .. Height(todo, u) : (u = t => h <= b) =>
              ~(Item(todo, u, h).op \in {"create", "run"} /\ Item(todo, u, h).pin = Item(todo, t, k).pin)
<1> SUFFICES ASSUME NEW u \in T, NEW h \in 1 .. Height(todo, u), u = t => h <= b,
                    Item(todo, u, h).op \in {"create", "run"}, Item(todo, u, h).pin = Item(todo, t, k).pin
             PROVE  FALSE
  OBVIOUS
<1>0. t \in T /\ b \in Nat /\ Height(todo, t) \in Nat
  BY MovedIs
<1>1. t \in T /\ k \in 1 .. Height(todo, t)
  BY <1>0
<1>2. t = u /\ k = h
  BY <1>1 DEF Fresh, HasPin
<1> QED
  BY <1>2, MovedIs

\* One solo call at most.
LEMMA SoloStep ==
    ASSUME NEW T, NEW F, NEW M, NEW t, NEW b, NEW calls, Moved(T, F, M, t, b, calls),
           Solo(todo, T),
           \/ \A i \in 1 .. Len(calls) : calls[i].op \notin SoloOps
           \/ /\ \A i, j \in 1 .. Len(calls) :
                    calls[i].op \in SoloOps /\ calls[j].op \in SoloOps => i = j
              /\ \/ ~Somewhere(todo, T, SoloOps)
                 \/ \E h \in b + 1 .. Height(todo, t) : Item(todo, t, h).op \in SoloOps
    PROVE  Solo(todo, T)'
<1> SUFFICES ASSUME NEW u \in T, NEW h \in 1 .. Height(todo', u), Item(todo', u, h).op \in SoloOps,
                    NEW v \in T, NEW k \in 1 .. Height(todo', v), Item(todo', v, k).op \in SoloOps
             PROVE  u = v /\ h = k
  BY DEF Solo
<1>0. Comes(todo, todo', T, t, b, calls) /\ t \in T
  BY MovedIs
<1> DEFINE Old(w, j) == /\ j \in 1 .. Height(todo, w) /\ (w = t => j <= b)
                        /\ Item(todo', w, j) = Item(todo, w, j)
           New(w, j) == w = t /\ \E i \in 1 .. Len(calls) :
                            j = b + Len(calls) + 1 - i /\ Item(todo', w, j) = calls[i]
<1>1. (Old(u, h) \/ New(u, h)) /\ (Old(v, k) \/ New(v, k))
  BY <1>0 DEF Comes
<1>2. CASE Old(u, h) /\ Old(v, k)
  BY <1>2 DEF Solo
<1>3. CASE New(u, h) /\ New(v, k)
  BY <1>3
<1>4. ASSUME NEW w \in T, NEW j, Old(w, j), Item(todo', w, j).op \in SoloOps,
             NEW x, NEW y, New(x, y), Item(todo', x, y).op \in SoloOps
      PROVE  FALSE
  <2>1. Somewhere(todo, T, SoloOps)
    BY <1>4 DEF Somewhere
  <2>2. PICK n \in b + 1 .. Height(todo, t) : Item(todo, t, n).op \in SoloOps
    BY <1>4, <2>1
  <2>3. n \in 1 .. Height(todo, t) /\ b \in Nat
    BY MovedIs, SMTT(30)
  <2>4. w = t /\ j = n
    BY <1>0, <1>4, <2>2, <2>3 DEF Solo
  <2> QED
    BY <1>4, <2>3, <2>4
<1> QED
  BY <1>1, <1>2, <1>3, <1>4

\* The locks.  What t keeps has none, if t is not inside a call that has one.
NoLocks(f, t, b) == \A h \in 1 .. b : Item(f, t, h).op \notin LockOps
NewLocks(calls) == \A i \in 1 .. Len(calls) :
    /\ calls[i].op = "unlock" => i = 1 \/ (i = 2 /\ calls[1].op \in {"ioctl", "setstop"})
    /\ calls[i].op \in {"ioctl", "setstop"} =>
          i = 1 /\ Len(calls) > 1 /\ calls[2].op = "unlock" /\ calls[2].pin = calls[1].pin
Unlocks(calls, p) == \E i \in 1 .. Len(calls) : calls[i].op = "unlock" /\ calls[i].pin = p

\* A thread whose first call is over has no lock below it.
LEMMA LockFree ==
    ASSUME NEW T, NEW F, NEW M, NEW t, NEW b, NEW calls, Moved(T, F, M, t, b, calls),
           LockPlaces(todo, T), b < Height(todo, t) \/ b = 0,
           \/ b = 0
           \/ Item(todo, t, Height(todo, t)).op \notin {"ioctl", "setstop"}
           \/ b < Height(todo, t) - 1
    PROVE  NoLocks(todo, t, b)
<1>0. t \in T /\ b \in Nat /\ Height(todo, t) \in Nat
  BY MovedIs
<1> SUFFICES ASSUME NEW h \in 1 .. b, Item(todo, t, h).op \in LockOps PROVE FALSE
  BY DEF NoLocks
<1>1. h \in 1 .. Height(todo, t) /\ h < Height(todo, t)
  BY <1>0
<1>2. \/ h = Height(todo, t)
      \/ h = Height(todo, t) - 1 /\ Item(todo, t, Height(todo, t)).op \in {"ioctl", "setstop"}
  BY <1>0, <1>1 DEF LockPlaces, LockOps
<1> QED
  BY <1>0, <1>1, <1>2

\* The calls inside a lock are in their places,
LEMMA LockPlacesStep ==
    ASSUME NEW T, NEW F, NEW M, NEW t, NEW b, NEW calls, Moved(T, F, M, t, b, calls),
           LockPlaces(todo, T), NoLocks(todo, t, b), NewLocks(calls)
    PROVE  LockPlaces(todo, T)'
<1> SUFFICES ASSUME NEW u \in T, NEW h \in 1 .. Height(todo', u)
             PROVE  LET c == Item(todo', u, h)
                        n == Height(todo', u)
                    IN
                    /\ c.op = "unlock" => h = n \/ (h = n - 1 /\ Item(todo', u, n).op \in {"ioctl", "setstop"})
                    /\ c.op \in {"ioctl", "setstop"} => /\ h = n /\ h > 1
                                                        /\ Item(todo', u, h - 1).op = "unlock"
                                                        /\ Item(todo', u, h - 1).pin = c.pin
  BY DEF LockPlaces
<1> DEFINE n == Height(todo', u)
<1>0. /\ Comes(todo, todo', T, t, b, calls) /\ t \in T /\ b \in Nat /\ Len(calls) \in Nat
      /\ Height(todo', t) = b + Len(calls) /\ n \in Nat
      /\ \A i \in 1 .. Len(calls) : Item(todo', t, b + Len(calls) + 1 - i) = calls[i]
  BY MovedIs
<1>1. CASE u # t
  <2>1. todo'[u] = todo[u]
    BY <1>1, MovedIs
  <2>2. Height(todo', u) = Height(todo, u) /\ \A k : Item(todo', u, k) = Item(todo, u, k)
    BY <2>1 DEF Height, Item
  <2> QED
    BY <2>2 DEF LockPlaces
<1>2. CASE u = t /\ h <= b /\ Item(todo', u, h) = Item(todo, u, h)
  <2>1. h \in 1 .. b
    BY <1>0, <1>2
  <2>2. Item(todo', u, h).op \notin LockOps
    BY <1>2, <2>1 DEF NoLocks
  <2> QED
    BY <2>2 DEF LockOps
<1>3. ASSUME u = t, NEW i \in 1 .. Len(calls), h = b + Len(calls) + 1 - i, Item(todo', u, h) = calls[i]
      PROVE  LET c == Item(todo', u, h) IN
             /\ c.op = "unlock" => h = n \/ (h = n - 1 /\ Item(todo', u, n).op \in {"ioctl", "setstop"})
             /\ c.op \in {"ioctl", "setstop"} => /\ h = n /\ h > 1
                                                 /\ Item(todo', u, h - 1).op = "unlock"
                                                 /\ Item(todo', u, h - 1).pin = c.pin
  <2>1. Len(calls) > 0 /\ n = b + Len(calls) + 1 - 1 /\ Item(todo', u, n) = calls[1]
    <3>1. 1 \in 1 .. Len(calls) /\ n = b + Len(calls) + 1 - 1
      BY <1>0, <1>3
    <3>2. Item(todo', t, b + Len(calls) + 1 - 1) = calls[1]
      BY <1>0, <3>1
    <3> QED
      BY <1>0, <1>3, <3>1, <3>2
  <2>2. CASE calls[i].op = "unlock"
    <3>1. i = 1 \/ (i = 2 /\ calls[1].op \in {"ioctl", "setstop"})
      BY <2>2 DEF NewLocks
    <3>2. CASE i = 1
      BY <1>0, <1>3, <2>2, <3>2
    <3>3. CASE i = 2 /\ calls[1].op \in {"ioctl", "setstop"}
      <4>1. h = n - 1
        BY <1>0, <1>3, <3>3
      <4> QED
        BY <1>3, <2>1, <2>2, <3>3, <4>1
    <3> QED
      BY <3>1, <3>2, <3>3
  <2>3. CASE calls[i].op \in {"ioctl", "setstop"}
    <3>1. i = 1 /\ Len(calls) > 1 /\ calls[2].op = "unlock" /\ calls[2].pin = calls[1].pin
      BY <2>3 DEF NewLocks
    <3>2. 2 \in 1 .. Len(calls) /\ b + Len(calls) + 1 - 2 = h - 1 /\ h > 1
      BY <1>0, <1>3, <3>1
    <3>3. Item(todo', u, h - 1) = calls[2]
      BY <1>0, <1>3, <3>2
    <3> QED
      BY <1>0, <1>3, <2>1, <2>3, <3>1, <3>2, <3>3
  <2> QED
    BY <1>3, <2>2, <2>3
<1>4. \/ u # t
      \/ u = t /\ h <= b /\ Item(todo', u, h) = Item(todo, u, h)
      \/ u = t /\ \E i \in 1 .. Len(calls) : h = b + Len(calls) + 1 - i /\ Item(todo', u, h) = calls[i]
  BY <1>0 DEF Comes
<1> HIDE DEF n
<1> QED
  BY <1>1, <1>2, <1>3, <1>4 DEF n

\* and the users of a pin are the threads that will unlock it.
LEMMA LockedStep ==
    ASSUME NEW T, NEW F, NEW M, NEW t, NEW b, NEW calls, Moved(T, F, M, t, b, calls),
           Locked(todo, T, M), NoLocks(todo, t, b),
           \A p \in 1 .. M : users'[p] = IF Unlocks(calls, p) THEN users[p] \cup {t} ELSE users[p] \ {t}
    PROVE  Locked(todo, T, M)'
<1>0. /\ Comes(todo, todo', T, t, b, calls) /\ t \in T /\ b \in Nat /\ Len(calls) \in Nat
      /\ Height(todo', t) = b + Len(calls)
      /\ \A i \in 1 .. Len(calls) : Item(todo', t, b + Len(calls) + 1 - i) = calls[i]
  BY MovedIs
<1>1. ASSUME NEW p \in 1 .. M, OnPin(todo', {t}, {"unlock"}, p) PROVE Unlocks(calls, p)
  <2>1. PICK h \in 1 .. Height(todo', t) : Item(todo', t, h).op = "unlock" /\ Item(todo', t, h).pin = p
    BY <1>1 DEF OnPin
  <2>2. ~(h <= b /\ Item(todo', t, h) = Item(todo, t, h))
    <3> SUFFICES ASSUME h <= b, Item(todo', t, h) = Item(todo, t, h) PROVE FALSE
      OBVIOUS
    <3>1. h \in 1 .. b
      BY <1>0
    <3> QED
      BY <2>1, <3>1 DEF NoLocks, LockOps
  <2>3. h \in 1 .. Height(todo', t) /\ t \in T /\ Comes(todo, todo', T, t, b, calls)
    BY <1>0
  <2>4. \E i \in 1 .. Len(calls) : Item(todo', t, h) = calls[i]
    BY <2>2, <2>3 DEF Comes
  <2> QED
    BY <2>1, <2>4 DEF Unlocks
<1>2. ASSUME NEW p \in 1 .. M, Unlocks(calls, p) PROVE OnPin(todo', {t}, {"unlock"}, p)
  <2>1. PICK i \in 1 .. Len(calls) : calls[i].op = "unlock" /\ calls[i].pin = p
    BY <1>2 DEF Unlocks
  <2>2. b + Len(calls) + 1 - i \in 1 .. Height(todo', t)
    BY <1>0
  <2>3. Item(todo', t, b + Len(calls) + 1 - i) = calls[i]
    BY <1>0
  <2> QED
    BY <2>1, <2>2, <2>3 DEF OnPin
<1>3. ASSUME NEW p \in 1 .. M, NEW u \in T, u # t
      PROVE  OnPin(todo', {u}, {"unlock"}, p) <=> OnPin(todo, {u}, {"unlock"}, p)
  <2>1. todo'[u] = todo[u]
    BY <1>3, MovedIs
  <2>2. Height(todo', u) = Height(todo, u) /\ \A k : Item(todo', u, k) = Item(todo, u, k)
    BY <2>1 DEF Height, Item
  <2> QED
    BY <2>2 DEF OnPin
<1>4. ASSUME NEW p \in 1 .. M PROVE users'[p] = {u \in T : OnPin(todo', {u}, {"unlock"}, p)}
  <2>1. users[p] = {u \in T : OnPin(todo, {u}, {"unlock"}, p)}
    BY DEF Locked
  <2>2. OnPin(todo', {t}, {"unlock"}, p) <=> Unlocks(calls, p)
    BY <1>1, <1>2
  <2>3. \A u \in T \ {t} : OnPin(todo', {u}, {"unlock"}, p) <=> OnPin(todo, {u}, {"unlock"}, p)
    BY <1>3
  <2>4. users'[p] = IF Unlocks(calls, p) THEN users[p] \cup {t} ELSE users[p] \ {t}
    OBVIOUS
  <2> HIDE DEF Unlocks
  <2> QED
    BY <1>0, <2>1, <2>2, <2>3, <2>4
<1> QED
  BY <1>4 DEF Locked

\* A thread without a call to unlock uses no pin.
LEMMA NotUser ==
    ASSUME NEW T, NEW M, NEW t \in T, Locked(todo, T, M),
           \A h \in 1 .. Height(todo, t) : Item(todo, t, h).op # "unlock"
    PROVE  \A p \in 1 .. M : t \notin users[p]
BY DEF Locked, OnPin

\* A step that takes and leaves no lock;
LEMMA LocksQuiet ==
    ASSUME NEW T, NEW F, NEW M, NEW t, NEW b, NEW calls, Moved(T, F, M, t, b, calls),
           LockPlaces(todo, T), Locked(todo, T, M), users' = users,
           b < Height(todo, t) \/ b = 0,
           \A h \in b + 1 .. Height(todo, t) : Item(todo, t, h).op \notin LockOps,
           \A i \in 1 .. Len(calls) : calls[i].op \notin LockOps
    PROVE  LockPlaces(todo, T)' /\ Locked(todo, T, M)'
<1>0. t \in T /\ b \in Nat /\ Height(todo, t) \in Nat /\ b <= Height(todo, t)
  BY MovedIs
<1>1. b = 0 \/ Item(todo, t, Height(todo, t)).op \notin {"ioctl", "setstop"}
  <2>1. CASE b < Height(todo, t)
    <3>1. Height(todo, t) \in b + 1 .. Height(todo, t)
      BY <1>0, <2>1
    <3> QED
      BY <3>1 DEF LockOps
  <2> QED
    BY <2>1
<1>2. NoLocks(todo, t, b)
  BY <1>1, LockFree
<1>3. NewLocks(calls)
  BY DEF NewLocks, LockOps
<1>4. \A h \in 1 .. Height(todo, t) : Item(todo, t, h).op # "unlock"
  <2> SUFFICES ASSUME NEW h \in 1 .. Height(todo, t) PROVE Item(todo, t, h).op # "unlock"
    OBVIOUS
  <2>1. h \in 1 .. b \/ h \in b + 1 .. Height(todo, t)
    BY <1>0
  <2> QED
    BY <1>2, <2>1 DEF NoLocks, LockOps
<1>5. \A p \in 1 .. M : t \notin users[p] /\ ~Unlocks(calls, p)
  BY <1>0, <1>4, NotUser DEF Unlocks, LockOps
<1>6. \A p \in 1 .. M : users'[p] = IF Unlocks(calls, p) THEN users[p] \cup {t} ELSE users[p] \ {t}
  BY <1>5
<1> QED
  BY <1>2, <1>3, <1>6, LockPlacesStep, LockedStep

\* one that takes the lock of q;
LEMMA LocksTaken ==
    ASSUME NEW T, NEW F, NEW M, NEW t, NEW b, NEW calls, Moved(T, F, M, t, b, calls),
           LockPlaces(todo, T), Locked(todo, T, M), users \in [1 .. M -> SUBSET T],
           NEW q \in 1 .. M, users' = [users EXCEPT ![q] = @ \cup {t}],
           b < Height(todo, t) \/ b = 0,
           \A h \in b + 1 .. Height(todo, t) : Item(todo, t, h).op \notin LockOps,
           NewLocks(calls), \A p \in 1 .. M : Unlocks(calls, p) <=> p = q
    PROVE  LockPlaces(todo, T)' /\ Locked(todo, T, M)'
<1>0. t \in T /\ b \in Nat /\ Height(todo, t) \in Nat /\ b <= Height(todo, t)
  BY MovedIs
<1>1. b = 0 \/ Item(todo, t, Height(todo, t)).op \notin {"ioctl", "setstop"}
  <2>1. CASE b < Height(todo, t)
    <3>1. Height(todo, t) \in b + 1 .. Height(todo, t)
      BY <1>0, <2>1
    <3> QED
      BY <3>1 DEF LockOps
  <2> QED
    BY <2>1
<1>2. NoLocks(todo, t, b)
  BY <1>1, LockFree
<1>4. \A h \in 1 .. Height(todo, t) : Item(todo, t, h).op # "unlock"
  <2> SUFFICES ASSUME NEW h \in 1 .. Height(todo, t) PROVE Item(todo, t, h).op # "unlock"
    OBVIOUS
  <2>1. h \in 1 .. b \/ h \in b + 1 .. Height(todo, t)
    BY <1>0
  <2> QED
    BY <1>2, <2>1 DEF NoLocks, LockOps
<1>5. \A p \in 1 .. M : t \notin users[p]
  BY <1>0, <1>4, NotUser
<1>6. \A p \in 1 .. M : users'[p] = IF Unlocks(calls, p) THEN users[p] \cup {t} ELSE users[p] \ {t}
  BY <1>5
<1> QED
  BY <1>2, <1>6, LockPlacesStep, LockedStep

\* Of a call inside a lock only the unlocking is left.
LEMMA LocksKept ==
    ASSUME NEW T, NEW F, NEW M, NEW t, NEW b, NEW calls, Moved(T, F, M, t, b, calls),
           LockPlaces(todo, T), Locked(todo, T, M), users' = users,
           NEW q, b = Height(todo, t) - 2,
           Item(todo, t, Height(todo, t)).op \in {"ioctl", "setstop"},
           Item(todo, t, Height(todo, t)).pin = q,
           NewLocks(calls), \A p \in 1 .. M : Unlocks(calls, p) <=> p = q
    PROVE  LockPlaces(todo, T)' /\ Locked(todo, T, M)'
<1>0. t \in T /\ b \in Nat /\ Height(todo, t) \in Nat /\ b <= Height(todo, t)
  BY MovedIs
<1>1. b < Height(todo, t) /\ b < Height(todo, t) - 1
  BY <1>0
<1>2. NoLocks(todo, t, b)
  BY <1>1, LockFree
<1>3. /\ Item(todo, t, Height(todo, t) - 1).op = "unlock"
      /\ Item(todo, t, Height(todo, t) - 1).pin = q
  <2>1. Height(todo, t) \in 1 .. Height(todo, t)
    BY <1>0
  <2> QED
    BY <1>0, <2>1 DEF LockPlaces
<1>4. ASSUME NEW p \in 1 .. M PROVE t \in users[p] <=> p = q
  <2>1. ASSUME OnPin(todo, {t}, {"unlock"}, p) PROVE p = q
    <3>1. PICK h \in 1 .. Height(todo, t) : Item(todo, t, h).op = "unlock" /\ Item(todo, t, h).pin = p
      BY <2>1 DEF OnPin
    <3>2. h = Height(todo, t) - 1 \/ h = Height(todo, t) \/ h \in 1 .. b
      BY <1>0
    <3> QED
      BY <1>2, <1>3, <3>1, <3>2 DEF NoLocks, LockOps
  <2>2. ASSUME p = q PROVE OnPin(todo, {t}, {"unlock"}, p)
    <3>1. Height(todo, t) - 1 \in 1 .. Height(todo, t)
      BY <1>0
    <3> QED
      BY <1>3, <2>2, <3>1 DEF OnPin
  <2> QED
    BY <1>0, <2>1, <2>2 DEF Locked
<1>5. \A p \in 1 .. M : users'[p] = IF Unlocks(calls, p) THEN users[p] \cup {t} ELSE users[p] \ {t}
  BY <1>4
<1> QED
  BY <1>2, <1>5, LockPlacesStep, LockedStep

\* and one that leaves it.
LEMMA LocksLeft ==
    ASSUME NEW T, NEW F, NEW M, NEW t, NEW b, NEW calls, Moved(T, F, M, t, b, calls),
           LockPlaces(todo, T), Locked(todo, T, M), users \in [1 .. M -> SUBSET T],
           NEW q \in 1 .. M, users' = [users EXCEPT ![q] = @ \ {t}],
           b = Height(todo, t) - 1,
           Item(todo, t, Height(todo, t)).op = "unlock", Item(todo, t, Height(todo, t)).pin = q,
           \A i \in 1 .. Len(calls) : calls[i].op \notin LockOps
    PROVE  LockPlaces(todo, T)' /\ Locked(todo, T, M)'
<1>0. t \in T /\ b \in Nat /\ Height(todo, t) \in Nat /\ b <= Height(todo, t)
  BY MovedIs
<1>2. NoLocks(todo, t, b)
  BY <1>0, LockFree
<1>3. NewLocks(calls)
  BY DEF NewLocks, LockOps
<1>4. ASSUME NEW p \in 1 .. M, p # q PROVE t \notin users[p]
  <2>1. ASSUME OnPin(todo, {t}, {"unlock"}, p) PROVE FALSE
    <3>1. PICK h \in 1 .. Height(todo, t) : Item(todo, t, h).op = "unlock" /\ Item(todo, t, h).pin = p
      BY <2>1 DEF OnPin
    <3>2. h = Height(todo, t) \/ h \in 1 .. b
      BY <1>0
    <3> QED
      BY <1>2, <1>4, <3>1, <3>2 DEF NoLocks, LockOps
  <2> QED
    BY <1>0, <2>1 DEF Locked
<1>5. \A p \in 1 .. M : users'[p] = IF Unlocks(calls, p) THEN users[p] \cup {t} ELSE users[p] \ {t}
  <2>1. \A p \in 1 .. M : ~Unlocks(calls, p)
    BY DEF Unlocks, LockOps
  <2> QED
    BY <1>4, <2>1
<1> QED
  BY <1>2, <1>3, <1>5, LockPlacesStep, LockedStep

\* The counts.  Of what is taken off the stack only the first can be in K, and of
\* the new calls only the j-th.
LEMMA DroppedFirst ==
    ASSUME NEW T, NEW F, NEW M, NEW t, NEW b, NEW calls, Moved(T, F, M, t, b, calls), NEW K,
           b < Height(todo, t),
           \A h \in b + 1 .. Height(todo, t) - 1 : Item(todo, t, h) \notin K
    PROVE  Dropped(todo, t, b, K) = One(Item(todo, t, Height(todo, t)) \in K)
<1> DEFINE n == Height(todo, t)
<1>1. b \in Nat /\ n \in Nat /\ b < n
  BY MovedIs
<1> HIDE DEF n
<1>2. \A h \in b + 1 .. n : h = n \/ h \in b + 1 .. n - 1
  BY <1>1
<1>3. {h \in b + 1 .. n : Item(todo, t, h) \in K} = IF Item(todo, t, n) \in K THEN {n} ELSE {}
  BY <1>1, <1>2 DEF n
<1> QED
  BY <1>3, FS_Singleton, FS_EmptySet DEF Dropped, One, n

\* The number of a kind, when one is dropped or given;
LEMMA CountOne ==
    ASSUME NEW T, NEW F, NEW M, NEW t, NEW b, NEW calls, Moved(T, F, M, t, b, calls), NEW K,
           b < Height(todo, t),
           \A h \in b + 1 .. Height(todo, t) - 1 : Item(todo, t, h) \notin K,
           NEW j \in 1 .. Len(calls), \A i \in 1 .. Len(calls) : i # j => calls[i] \notin K
    PROVE  /\ Number(todo', T, K) + One(Item(todo, t, Height(todo, t)) \in K)
                = Number(todo, T, K) + One(calls[j] \in K)
           /\ Number(todo', T, K) \in Nat /\ Number(todo, T, K) \in Nat
<1>1. Dropped(todo, t, b, K) = One(Item(todo, t, Height(todo, t)) \in K)
  BY DroppedFirst
<1>2. Given(calls, K) = One(calls[j] \in K)
  <2>1. CASE calls[j] \in K
    BY <2>1, GivenOne DEF One
  <2>2. CASE calls[j] \notin K
    BY <2>2, GivenNone DEF One
  <2> QED
    BY <2>1, <2>2
<1> QED
  BY <1>1, <1>2, Tally

\* when none is;
LEMMA CountNone ==
    ASSUME NEW T, NEW F, NEW M, NEW t, NEW b, NEW calls, Moved(T, F, M, t, b, calls), NEW K,
           b < Height(todo, t),
           \A h \in b + 1 .. Height(todo, t) - 1 : Item(todo, t, h) \notin K,
           \A i \in 1 .. Len(calls) : calls[i] \notin K
    PROVE  /\ Number(todo', T, K) + One(Item(todo, t, Height(todo, t)) \in K) = Number(todo, T, K)
           /\ Number(todo', T, K) \in Nat /\ Number(todo, T, K) \in Nat
<1>1. Dropped(todo, t, b, K) = One(Item(todo, t, Height(todo, t)) \in K)
  BY DroppedFirst
<1>2. Given(calls, K) = 0
  BY GivenNone
<1>3. /\ Number(todo', T, K) + Dropped(todo, t, b, K) = Number(todo, T, K) + Given(calls, K)
      /\ Number(todo', T, K) \in Nat /\ Number(todo, T, K) \in Nat
  BY Tally
<1> QED
  BY <1>1, <1>2, <1>3

\* and when one is given alone.
LEMMA CountNew ==
    ASSUME NEW T, NEW F, NEW M, NEW t, NEW b, NEW calls, Moved(T, F, M, t, b, calls), NEW K,
           \A h \in b + 1 .. Height(todo, t) : Item(todo, t, h) \notin K,
           NEW j \in 1 .. Len(calls), \A i \in 1 .. Len(calls) : i # j => calls[i] \notin K
    PROVE  /\ Number(todo', T, K) = Number(todo, T, K) + One(calls[j] \in K)
           /\ Number(todo', T, K) \in Nat /\ Number(todo, T, K) \in Nat
<1>1. Dropped(todo, t, b, K) = 0
  BY DroppedNone
<1>2. Given(calls, K) = One(calls[j] \in K)
  <2>1. CASE calls[j] \in K
    BY <2>1, GivenOne DEF One
  <2>2. CASE calls[j] \notin K
    BY <2>2, GivenNone DEF One
  <2> QED
    BY <2>1, <2>2
<1>3. /\ Number(todo', T, K) + Dropped(todo, t, b, K) = Number(todo, T, K) + Given(calls, K)
      /\ Number(todo', T, K) \in Nat /\ Number(todo, T, K) \in Nat
  BY Tally
<1> QED
  BY <1>1, <1>2, <1>3

\* What a step leaves of a pin.
SamePin(T, p) ==
    /\ refs'[p] = refs[p] /\ posted'[p] = posted[p] /\ free'[p] = free[p]
    /\ handle'[p] = "none" <=> handle[p] = "none"
    /\ (p \in lost' <=> p \in lost) /\ (p \in dead' <=> p \in dead) /\ (p <= made' <=> p <= made)
    /\ Owned(T, p)' <=> Owned(T, p)
SameCounts(T, F, M, p) ==
    /\ Number(todo', T, RefsOf(Items(M, F), p)) = Number(todo, T, RefsOf(Items(M, F), p))
    /\ \A f \in F : Number(todo', T, HoldsOf(Items(M, F), p, f)) = Number(todo, T, HoldsOf(Items(M, F), p, f))
    /\ Number(todo', T, ReadsOf(Items(M, F), p)) = Number(todo, T, ReadsOf(Items(M, F), p))

\* The accounts of one pin.
Books(T, F, M, p) == PinBook(T, F, M, p) /\ (\A f \in F : FrameBook(T, F, M, p, f)) /\ ReadBook(T, F, M, p)

\* They stay right when nothing that they count changes.
LEMMA BooksSame ==
    ASSUME NEW T, NEW F, NEW M \in Nat, NEW p \in 1 .. M, Books(T, F, M, p),
           SamePin(T, p), SameCounts(T, F, M, p), made \in Nat, made' \in Nat
    PROVE  Books(T, F, M, p)'
<1>1. PinBook(T, F, M, p)'
  <2>1. One(p \in lost \/ Owned(T, p))' = One(p \in lost \/ Owned(T, p))
    BY DEF SamePin, One
  <2>2. p > made' <=> p > made
    BY DEF SamePin
  <2> QED
    BY <2>1, <2>2 DEF Books, PinBook, SamePin, SameCounts
<1>2. ASSUME NEW f \in F PROVE FrameBook(T, F, M, p, f)'
  <2>1. FrameBook(T, F, M, p, f)
    BY DEF Books
  <2>2. Number(todo', T, HoldsOf(Items(M, F), p, f)) = Number(todo, T, HoldsOf(Items(M, F), p, f))
    BY DEF SameCounts
  <2>3. One(handle'[p] # "none") = One(handle[p] # "none")
    BY DEF SamePin, One
  <2>4. free'[p] = free[p] /\ posted'[p] = posted[p]
    BY DEF SamePin
  <2> QED
    BY <2>1, <2>2, <2>3, <2>4 DEF FrameBook
<1>3. ReadBook(T, F, M, p)'
  BY DEF Books, ReadBook, SamePin, SameCounts
<1> QED
  BY <1>1, <1>2, <1>3 DEF Books

\* The step is not about p.
Away(f, t, b, calls, p) ==
    /\ \A h \in b + 1 .. Height(f, t) : Item(f, t, h).op \in HasPin => Item(f, t, h).pin # p
    /\ \A i \in 1 .. Len(calls) : calls[i].op \in HasPin => calls[i].pin # p

\* The calls of another pin are none of those counted.
LEMMA AwayCounts ==
    ASSUME NEW T, NEW F, NEW M, NEW t, NEW b, NEW calls, Moved(T, F, M, t, b, calls),
           NEW p, Away(todo, t, b, calls, p)
    PROVE  SameCounts(T, F, M, p)
<1> DEFINE E == Items(M, F)
<1>1. ASSUME NEW K, \A c \in K : c.op \in HasPin /\ c.pin = p
      PROVE  Number(todo', T, K) = Number(todo, T, K)
  <2>1. \A h \in b + 1 .. Height(todo, t) : Item(todo, t, h) \notin K
    BY <1>1 DEF Away
  <2>2. \A i \in 1 .. Len(calls) : calls[i] \notin K
    BY <1>1 DEF Away
  <2> QED
    BY <2>1, <2>2, SameNumber
<1> HIDE DEF E
<1>2. \A c \in RefsOf(E, p) : c.op \in HasPin /\ c.pin = p
  BY DEF RefsOf, RefOps, HasPin, PinOps, FrameOps
<1>3. \A c \in ReadsOf(E, p) : c.op \in HasPin /\ c.pin = p
  BY DEF ReadsOf, ReadOps, HasPin, PinOps, FrameOps
<1>4. ASSUME NEW f \in F PROVE \A c \in HoldsOf(E, p, f) : c.op \in HasPin /\ c.pin = p
  BY DEF HoldsOf, HoldOps, HasPin, PinOps, FrameOps
<1>5. ASSUME NEW f \in F
      PROVE  Number(todo', T, HoldsOf(E, p, f)) = Number(todo, T, HoldsOf(E, p, f))
  BY <1>1, <1>4
<1> QED
  BY <1>1, <1>2, <1>3, <1>5 DEF SameCounts, E

\* The handles.
LEMMA WillCloseKept ==
    ASSUME NEW T, NEW F, NEW M, NEW t, NEW b, NEW calls, Moved(T, F, M, t, b, calls),
           NEW p, WillClose(T, p),
           Owned(T, p) => Owned(T, p)',
           Releasing(T, p) => refs'[p] = refs[p],
           b < Height(todo, t) \/ Height(todo, t) = 0,
           \A h \in b + 1 .. Height(todo, t) :
              ~(Item(todo, t, h).op \in {"run", "close", "pinstop", "release"} /\ Item(todo, t, h).pin = p)
    PROVE  WillClose(T, p)'
<1>1. CASE Owned(T, p)
  BY <1>1 DEF WillClose
<1>2. CASE OnPin(todo, T, {"run", "close", "pinstop"}, p)
  BY <1>2, SameOnPin DEF WillClose
<1>3. CASE Releasing(T, p)
  <2>1. PICK u \in T : /\ Height(todo, u) > 0 /\ Item(todo, u, Height(todo, u)).op = "release"
                       /\ Item(todo, u, Height(todo, u)).pin = p
    BY <1>3 DEF Releasing
  <2>2. b \in Nat /\ Height(todo, t) \in Nat
    BY MovedIs
  <2>3. u # t
    <3> SUFFICES ASSUME u = t PROVE FALSE
      OBVIOUS
    <3>1. Height(todo, t) \in b + 1 .. Height(todo, t)
      BY <2>1, <2>2
    <3> QED
      BY <2>1, <3>1
  <2>4. todo'[u] = todo[u]
    BY <2>3, MovedIs
  <2>5. Height(todo', u) = Height(todo, u) /\ Item(todo', u, Height(todo', u)) = Item(todo, u, Height(todo, u))
    BY <2>4 DEF Height, Item
  <2>6. refs'[p] = 1
    BY <1>3 DEF Releasing
  <2> QED
    BY <2>1, <2>5, <2>6 DEF Releasing, WillClose
<1> QED
  BY <1>1, <1>2, <1>3 DEF WillClose

\* What is known of the handle of another pin stays so.
LEMMA HandleOther ==
    ASSUME NEW T, NEW F, NEW M, NEW t, NEW b, NEW calls, Moved(T, F, M, t, b, calls),
           NEW p, HandleIs(T, p), SamePin(T, p), Away(todo, t, b, calls, p),
           handle'[p] = handle[p], users'[p] = users[p], running'[p] = running[p],
           b < Height(todo, t) \/ Height(todo, t) = 0,
           p \in Nat, made \in Nat, made' \in Nat
    PROVE  HandleIs(T, p)'
<1>1. \A h \in b + 1 .. Height(todo, t) :
         ~(Item(todo, t, h).op \in {"run", "close", "pinstop", "release"} /\ Item(todo, t, h).pin = p)
  BY DEF Away, HasPin, PinOps
<1>2. WillClose(T, p) => WillClose(T, p)'
  BY <1>1, WillCloseKept DEF SamePin
<1>3. (p > made' => p > made) /\ (p \in lost' => p \in lost) /\ (Owned(T, p)' <=> Owned(T, p))
  BY DEF SamePin
<1> QED
  BY <1>2, <1>3 DEF HandleIs

-----------------------------------------------------------------------------
\* A call of pin q is over, and it made calls of q only.
Elsewhere(M, q) == \A p \in 1 .. M : p # q =>
    /\ refs'[p] = refs[p] /\ posted'[p] = posted[p] /\ free'[p] = free[p]
    /\ handle'[p] = handle[p] /\ users'[p] = users[p] /\ running'[p] = running[p]
    /\ (p \in lost' <=> p \in lost) /\ (p \in dead' <=> p \in dead) /\ (p <= made' <=> p <= made)
CallsOf(calls, q) == \A i \in 1 .. Len(calls) :
    /\ calls[i].op \notin SoloOps \cup {"push", "process"}
    /\ calls[i].op \in HasPin => calls[i].pin = q
OnlyOf(f, t, b, q) == \A h \in b + 1 .. Height(f, t) :
    Item(f, t, h).op \in HasPin \ {"create", "run"} /\ Item(f, t, h).pin = q
Needless(calls) == \A i \in 1 .. Len(calls) : calls[i].op \notin NeedOps

\* B, the threads that may be starting a pin, in C after the step.
Within(B, C) == B \subseteq C
Steady(q) == /\ pin' = pin /\ made' = made /\ lost' = lost
             /\ handle[q] # "none" => handle'[q] # "none"
Handed(f, t, b, calls) ==
    \/ Needless(calls)
    \/ b = Height(f, t) - 1 /\ Item(f, t, Height(f, t)).op \in NeedOps

\* What a step of pin q, in the usual case, leaves of the invariant.
Kept(T, Q, F, M, C, q) ==
    /\ Known(todo, T)' /\ Filled(todo, T, Q)' /\ Backed(todo, T, C)' /\ Fresh(T, M)' /\ Solo(todo, T)'
    /\ \A p \in 1 .. M : p # q => Books(T, F, M, p)' /\ HandleIs(T, p)'
    /\ \A p : Owned(T, p)' <=> Owned(T, p)
    /\ handle[q] # "none" /\ q \in 1 .. made /\ q \in 1 .. M

\* The invariant, taken apart
LEMMA Parts ==
    ASSUME NEW T, NEW Q, NEW F, NEW M, NEW B, PinInv(T, Q, F, M, B)
    PROVE  /\ PinTypes(T, F, M) /\ (\A p \in 1 .. M : Books(T, F, M, p))
           /\ Known(todo, T) /\ Filled(todo, T, Q) /\ Backed(todo, T, B)
           /\ LockPlaces(todo, T) /\ Locked(todo, T, M) /\ (\A p \in 1 .. M : HandleIs(T, p))
           /\ Fresh(T, M) /\ Solo(todo, T) /\ Spare(Q, F)
BY DEF PinInv, PinBooks, FrameBooks, ReadBooks, Books, Handles

\* and put together.
LEMMA Whole ==
    ASSUME NEW T, NEW Q, NEW F, NEW M, NEW B,
           PinTypes(T, F, M)', (\A p \in 1 .. M : Books(T, F, M, p))',
           Known(todo, T)', Filled(todo, T, Q)', Backed(todo, T, B)',
           LockPlaces(todo, T)', Locked(todo, T, M)', (\A p \in 1 .. M : HandleIs(T, p))',
           Fresh(T, M)', Solo(todo, T)', Spare(Q, F)'
    PROVE  PinInv(T, Q, F, M, B)'
BY DEF PinInv, PinBooks, FrameBooks, ReadBooks, Books, Handles

\* The owner keeps its pin.
LEMMA OwnedStays ==
    ASSUME NEW T, NEW F, NEW M, NEW t, NEW b, NEW calls, Moved(T, F, M, t, b, calls), pin' = pin,
           \A i \in 1 .. Len(calls) : calls[i].op # "clear",
           \A h \in b + 1 .. Height(todo, t) : Item(todo, t, h).op # "clear"
    PROVE  \A p : Owned(T, p)' <=> Owned(T, p)
<1>1. Somewhere(todo', T, {"clear"}) <=> Somewhere(todo, T, {"clear"})
  BY SameSomewhere
<1> QED
  BY <1>1 DEF Owned

\* The usual case: all but the pin's own accounts, handle and locks.
LEMMA Usual ==
    ASSUME NEW T, NEW Q, NEW F, NEW M \in Nat, NEW B, NEW C, PinInv(T, Q, F, M, B), Within(B, C),
           NEW t, NEW b, NEW calls, Moved(T, F, M, t, b, calls), b < Height(todo, t),
           NEW q, OnlyOf(todo, t, b, q), CallsOf(calls, q), Elsewhere(M, q),
           Handed(todo, t, b, calls),
           Steady(q)
    PROVE  Kept(T, Q, F, M, C, q)
<1> DEFINE n == Height(todo, t)
<1>0. /\ pin' = pin /\ made' = made /\ lost' = lost /\ (handle[q] # "none" => handle'[q] # "none")
      /\ B \subseteq C
  BY DEF Steady, Within
<1>1. /\ t \in T /\ b \in Nat /\ n \in Nat /\ n \in b + 1 .. n /\ n \in 1 .. n
  BY MovedIs
<1>2. Item(todo, t, n).op \in HasPin \ {"create", "run"} /\ Item(todo, t, n).pin = q
  BY <1>1 DEF OnlyOf
<1>3. made \in Nat /\ made <= M /\ PinTypes(T, F, M)
  <2>1. PinTypes(T, F, M)
    BY Parts
  <2> QED
    BY <2>1 DEF PinTypes
<1>4. handle[q] # "none" /\ q \in 1 .. M /\ q <= made
  <2>1. Item(todo, t, n) \in Items(M, F)
    BY <1>1, ItemsOf
  <2>2. q \in 1 .. M
    BY <1>2, <2>1, Kinds_
  <2>3. Known(todo, T)
    BY Parts
  <2>4. q <= made /\ handle[q] # "none"
    BY <1>1, <1>2, <2>3 DEF Known, HasPin
  <2> QED
    BY <2>2, <2>4
<1>5. Known(todo, T)'
  <2>1. NewKnown(calls)'
    BY <1>0, <1>4 DEF NewKnown, CallsOf
  <2>2. \A p \in 1 .. M : handle[p] # "none" => handle'[p] # "none"
    BY <1>0 DEF Elsewhere
  <2> QED
    BY <1>0, <1>3, <2>1, <2>2, Parts, KnownStep
<1>6. Filled(todo, T, Q)'
  BY Parts, FilledStep DEF CallsOf
<1>7. Backed(todo, T, C)'
  <2>1. \A i \in 1 .. Len(calls) : calls[i].op \notin SoloOps
    BY DEF CallsOf
  <2>2. \A u, p : Starting(todo, T, B, u, p) => Starting(todo, T, C, u, p)'
    BY <1>0, <2>1, StartingStays
  <2>3. NewBacked(T, C, t, b, calls)'
    <3>1. CASE Needless(calls)
      BY <3>1 DEF NewBacked, Needless
    <3>2. CASE b = n - 1 /\ Item(todo, t, n).op \in NeedOps
      <4>1. ReleaseBelow(todo, t, n, q) \/ Starting(todo, T, B, t, q)
        BY <1>1, <1>2, <3>2, Parts DEF Backed
      <4> SUFFICES ASSUME NEW i \in 1 .. Len(calls), calls[i].op \in NeedOps
                   PROVE  \/ ReleaseBelow(todo', t, b + Len(calls) + 1 - i, q)
                          \/ Starting(todo, T, C, t, q)'
        BY DEF NewBacked, CallsOf, NeedOps, HasPin, PinOps, FrameOps
      <4>2. CASE ReleaseBelow(todo, t, n, q)
        <5>1. /\ n <= n + 1 /\ n <= b + 1 /\ b + Len(calls) + 1 - i \in Nat
              /\ n <= b + Len(calls) + 1 - i
          <6>1. Len(calls) \in Nat
            BY MovedIs
          <6> HIDE DEF n
          <6> QED
            BY <1>1, <3>2, <6>1
        <5> HIDE DEF n
        <5> QED
          BY <1>1, <4>2, <5>1, ReleaseKept DEF n
      <4>3. CASE Starting(todo, T, B, t, q)
        BY <2>2, <4>3
      <4> QED
        BY <4>1, <4>2, <4>3
    <3> QED
      BY <3>1, <3>2 DEF Handed
  <2> QED
    BY <2>2, <2>3, Parts, BackedStep
<1>8. Fresh(T, M)'
  <2>1. \A i \in 1 .. Len(calls) : /\ calls[i].op \notin {"create", "run"}
                                   /\ calls[i].op \in HasPin => calls[i].pin = q
    BY DEF CallsOf, SoloOps
  <2>2. \A u \in T : \A h \in 1 .. Height(todo, u) : (u = t => h <= b) =>
              ~(Item(todo, u, h).op \in {"create", "run"} /\ Item(todo, u, h).pin = q)
    BY <1>1, <1>2, NotFresh, Parts
  <2>3. NotOpening(todo, T, t, b, calls, q) /\ FreshElsewhere(M, q)
    BY <1>0, <2>1, <2>2 DEF NotOpening, FreshElsewhere, Elsewhere
  <2>4. Fresh(T, M) /\ pin' \in {pin, 0}
    BY <1>0, Parts
  <2> QED
    BY <2>3, <2>4, FreshStep
<1>9. Solo(todo, T)'
  BY Parts, SoloStep DEF CallsOf
<1>10. \A p : Owned(T, p)' <=> Owned(T, p)
  <2>1. \A i \in 1 .. Len(calls) : calls[i].op # "clear"
    BY DEF CallsOf, SoloOps
  <2>2. \A h \in b + 1 .. Height(todo, t) : Item(todo, t, h).op # "clear"
    BY DEF OnlyOf, HasPin, PinOps, FrameOps
  <2> QED
    BY <1>0, <2>1, <2>2, OwnedStays
<1>11. ASSUME NEW p \in 1 .. M, p # q
       PROVE  Books(T, F, M, p)' /\ HandleIs(T, p)'
  <2>1. Away(todo, t, b, calls, p)
    BY <1>11 DEF Away, OnlyOf, CallsOf
  <2>2. SamePin(T, p) /\ handle'[p] = handle[p] /\ users'[p] = users[p] /\ running'[p] = running[p]
    BY <1>0, <1>10, <1>11 DEF Elsewhere, SamePin
  <2>3. SameCounts(T, F, M, p)
    BY <2>1, AwayCounts
  <2>4. Books(T, F, M, p) /\ HandleIs(T, p)
    BY Parts
  <2>5. Books(T, F, M, p)'
    BY <1>0, <1>3, <2>2, <2>3, <2>4, BooksSame
  <2>6. HandleIs(T, p)'
    BY <1>0, <1>3, <2>1, <2>2, <2>4, HandleOther
  <2> QED
    BY <2>5, <2>6
<1>12. q \in 1 .. made
  BY <1>3, <1>4
<1> QED
  BY <1>4, <1>5, <1>6, <1>7, <1>8, <1>9, <1>10, <1>11, <1>12 DEF Kept

\* The first call of a thread.
LEMMA Top ==
    ASSUME NEW T, NEW F, NEW M \in Nat, PinTypes(T, F, M), NEW t \in T, todo[t] # <<>>
    PROVE  /\ Height(todo, t) \in Nat /\ Height(todo, t) > 0
           /\ Item(todo, t, Height(todo, t)) = Head(todo[t]) /\ Head(todo[t]) \in Items(M, F)
           /\ Head(todo[t]).op \in HasPin => Arg(t) \in 1 .. M
           /\ Head(todo[t]).op \in FrameOps => Frame(t) \in F
           /\ Arg(t) = Head(todo[t]).pin /\ Frame(t) = Head(todo[t]).frame
<1>1. todo \in [T -> Seq(Items(M, F))]
  BY DEF PinTypes
<1>2. /\ Height(todo, t) \in Nat /\ Height(todo, t) # 0
      /\ \A h \in 1 .. Height(todo, t) : Item(todo, t, h) \in Items(M, F)
      /\ Item(todo, t, Height(todo, t)) = Head(todo[t])
  BY <1>1, HeightIsNat
<1>3. Head(todo[t]) \in Items(M, F)
  <2>1. Height(todo, t) \in 1 .. Height(todo, t)
    BY <1>2
  <2> QED
    BY <1>2, <2>1
<1> QED
  BY <1>2, <1>3, Kinds_ DEF Arg, Frame

\* Do moves: the first call is replaced by the calls it makes.
LEMMA Doing ==
    ASSUME NEW T, NEW F, NEW M \in Nat, PinTypes(T, F, M), IsFiniteSet(T), NEW t \in T, todo[t] # <<>>,
           NEW calls \in Seq(Items(M, F)), Do(t, calls)
    PROVE  Moved(T, F, M, t, Height(todo, t) - 1, calls) /\ Height(todo, t) - 1 < Height(todo, t)
<1> DEFINE E == Items(M, F)
<1>1. todo \in [T -> Seq(E)] /\ calls \in Seq(E) /\ todo' = [todo EXCEPT ![t] = calls \o Tail(todo[t])]
  BY DEF PinTypes, Do
<1> HIDE DEF E
<1>2. todo' \in [T -> Seq(E)] /\ Pushed(todo, todo', T, t, Height(todo, t) - 1, calls)
  BY <1>1, DoPushes, ZenonT(40)
<1>3. Height(todo, t) \in Nat
  BY Top
<1> QED
  BY <1>1, <1>2, <1>3 DEF Moved, E

\* Its pin is not one that is being opened.
LEMMA TopOnly ==
    ASSUME NEW T, NEW F, NEW M \in Nat, PinTypes(T, F, M), NEW t \in T, todo[t] # <<>>,
           Head(todo[t]).op \in HasPin \ {"create", "run"}
    PROVE  OnlyOf(todo, t, Height(todo, t) - 1, Arg(t))
<1>1. Height(todo, t) \in Nat /\ Item(todo, t, Height(todo, t)) = Head(todo[t]) /\ Arg(t) = Head(todo[t]).pin
  BY Top
<1>2. \A h \in Height(todo, t) - 1 + 1 .. Height(todo, t) : h = Height(todo, t)
  BY <1>1
<1> QED
  BY <1>1, <1>2 DEF OnlyOf

\* Some lists of calls.
LEMMA NoCalls ==
    ASSUME NEW F, NEW M, NEW q
    PROVE  /\ <<>> \in Seq(Items(M, F)) /\ CallsOf(<<>>, q) /\ Needless(<<>>)
           /\ NewLocks(<<>>) /\ (\A p : ~Unlocks(<<>>, p)) /\ \A x : x \notin 1 .. Len(<<>>)
BY DEF CallsOf, Needless, NewLocks, Unlocks

\* Counts that do not change.
Counted_ == RefOps \cup HoldOps \cup ReadOps

\* None of what is counted is dropped or given.
LEMMA QuietCounts ==
    ASSUME NEW T, NEW F, NEW M, NEW t, NEW b, NEW calls, Moved(T, F, M, t, b, calls),
           \A h \in b + 1 .. Height(todo, t) : Item(todo, t, h).op \notin Counted_,
           \A i \in 1 .. Len(calls) : calls[i].op \notin Counted_
    PROVE  \A p : SameCounts(T, F, M, p)
<1> DEFINE E == Items(M, F)
<1> SUFFICES ASSUME NEW p PROVE SameCounts(T, F, M, p)
  OBVIOUS
<1>1. ASSUME NEW K, \A c \in K : c.op \in Counted_
      PROVE  Number(todo', T, K) = Number(todo, T, K)
  <2>1. \A h \in b + 1 .. Height(todo, t) : Item(todo, t, h) \notin K
    BY <1>1
  <2>2. \A i \in 1 .. Len(calls) : calls[i] \notin K
    BY <1>1
  <2> QED
    BY <2>1, <2>2, SameNumber
<1> HIDE DEF E
<1>2. \A c \in RefsOf(E, p) : c.op \in Counted_
  BY DEF RefsOf, Counted_
<1>3. \A c \in ReadsOf(E, p) : c.op \in Counted_
  BY DEF ReadsOf, Counted_
<1>4. ASSUME NEW f \in F PROVE \A c \in HoldsOf(E, p, f) : c.op \in Counted_
  BY DEF HoldsOf, Counted_
<1>5. ASSUME NEW f \in F
      PROVE  Number(todo', T, HoldsOf(E, p, f)) = Number(todo, T, HoldsOf(E, p, f))
  BY <1>1, <1>4
<1> QED
  BY <1>1, <1>2, <1>3, <1>5 DEF SameCounts, E

\* A request goes on.
Requests == {"issue", "ioctl", "fail"}

\* One request is dropped and one given for the same frame.
LEMMA SwapCounts ==
    ASSUME NEW T, NEW F, NEW M, NEW t, NEW b, NEW calls, Moved(T, F, M, t, b, calls),
           b < Height(todo, t),
           \A h \in b + 1 .. Height(todo, t) - 1 : Item(todo, t, h).op \notin Counted_,
           NEW j \in 1 .. Len(calls), \A i \in 1 .. Len(calls) : i # j => calls[i].op \notin Counted_,
           NEW c, c = Item(todo, t, Height(todo, t)), c.op \in Requests, calls[j].op \in Requests,
           calls[j].pin = c.pin, calls[j].frame = c.frame
    PROVE  \A p : SameCounts(T, F, M, p)
<1> DEFINE E == Items(M, F)
<1> SUFFICES ASSUME NEW p PROVE SameCounts(T, F, M, p)
  OBVIOUS
<1>0. c \in E /\ calls[j] \in E
  <2>1. /\ t \in T /\ Height(todo, t) \in Nat /\ b \in Nat
        /\ \A i \in 1 .. Len(calls) : calls[i] \in Items(M, F)
    BY MovedIs
  <2>2. Height(todo, t) \in 1 .. Height(todo, t)
    BY <2>1
  <2> QED
    BY <2>1, <2>2, ItemsOf
<1> HIDE DEF E
<1>1. ASSUME NEW K, \A d \in K : d.op \in Counted_, c \in K <=> calls[j] \in K
      PROVE  Number(todo', T, K) = Number(todo, T, K)
  <2>1. \A h \in b + 1 .. Height(todo, t) - 1 : Item(todo, t, h) \notin K
    BY <1>1
  <2>2. \A i \in 1 .. Len(calls) : i # j => calls[i] \notin K
    BY <1>1
  <2>3. /\ Number(todo', T, K) + One(c \in K) = Number(todo, T, K) + One(calls[j] \in K)
        /\ Number(todo', T, K) \in Nat /\ Number(todo, T, K) \in Nat
    BY <2>1, <2>2, CountOne
  <2>4. One(c \in K) = One(calls[j] \in K) /\ One(c \in K) \in Nat
    BY <1>1 DEF One
  <2> QED
    BY <2>3, <2>4
<1>2. /\ \A d \in RefsOf(E, p) : d.op \in Counted_
      /\ c \in RefsOf(E, p) <=> calls[j] \in RefsOf(E, p)
  BY <1>0 DEF RefsOf, Counted_, RefOps, Requests
<1>3. /\ \A d \in ReadsOf(E, p) : d.op \in Counted_
      /\ c \in ReadsOf(E, p) <=> calls[j] \in ReadsOf(E, p)
  BY <1>0 DEF ReadsOf, Counted_, ReadOps, Requests
<1>4. ASSUME NEW f \in F
      PROVE  /\ \A d \in HoldsOf(E, p, f) : d.op \in Counted_
             /\ c \in HoldsOf(E, p, f) <=> calls[j] \in HoldsOf(E, p, f)
  BY <1>0 DEF HoldsOf, Counted_, HoldOps, Requests
<1>5. ASSUME NEW f \in F
      PROVE  Number(todo', T, HoldsOf(E, p, f)) = Number(todo, T, HoldsOf(E, p, f))
  BY <1>1, <1>4
<1> QED
  BY <1>1, <1>2, <1>3, <1>5 DEF SameCounts, E

\* The first call of t, which is of pin q, is over.
After(T, Q, F, M, C, t, b, calls, q) ==
    /\ t \in T /\ Moved(T, F, M, t, b, calls) /\ b \in Nat /\ b < Height(todo, t)
    /\ \A h \in b + 1 .. Height(todo, t) - 1 : Item(todo, t, h).op = "unlock"
    /\ Height(todo, t) \in Nat /\ Height(todo, t) > 0
    /\ Item(todo, t, Height(todo, t)) = Head(todo[t]) /\ Head(todo[t]) \in Items(M, F)
    /\ Head(todo[t]).pin = q
    /\ Known(todo, T)' /\ Filled(todo, T, Q)' /\ Backed(todo, T, C)' /\ Fresh(T, M)' /\ Solo(todo, T)'
    /\ \A p \in 1 .. M : p # q => Books(T, F, M, p)' /\ HandleIs(T, p)'
    /\ \A p : Owned(T, p)' <=> Owned(T, p)
    /\ handle[q] # "none" /\ q \in 1 .. made /\ q \in 1 .. M
    /\ made \in Nat /\ made' = made

\* The usual case, for a step written with Do.
LEMMA UsualDo ==
    ASSUME NEW T, IsFiniteSet(T), NEW Q, NEW F, NEW M \in Nat, NEW B, NEW C,
           PinInv(T, Q, F, M, B), B \subseteq C, NEW t \in T, todo[t] # <<>>,
           Head(todo[t]).op \in HasPin \ {"create", "run"}, NEW q, q = Arg(t),
           NEW calls \in Seq(Items(M, F)), Do(t, calls), CallsOf(calls, q), Elsewhere(M, q),
           Needless(calls) \/ Head(todo[t]).op \in NeedOps,
           pin' = pin, made' = made, lost' = lost,
           handle[q] # "none" => handle'[q] # "none"
    PROVE  After(T, Q, F, M, C, t, Height(todo, t) - 1, calls, q)
<1> DEFINE n == Height(todo, t)
           b == n - 1
<1>1. PinTypes(T, F, M) /\ made \in Nat
  <2>1. PinTypes(T, F, M)
    BY Parts
  <2> QED
    BY <2>1 DEF PinTypes
<1>2. /\ n \in Nat /\ n > 0 /\ Item(todo, t, n) = Head(todo[t]) /\ Head(todo[t]) \in Items(M, F)
      /\ Head(todo[t]).pin = q
  BY <1>1, Top
<1>4. Moved(T, F, M, t, b, calls) /\ b < n
  BY <1>1, Doing
<1>5. OnlyOf(todo, t, b, q)
  BY <1>1, TopOnly
<1>6. Handed(todo, t, b, calls)
  BY <1>2 DEF Handed
<1>7. Within(B, C) /\ Steady(q)
  BY DEF Within, Steady
<1> HIDE DEF b
<1>8. Kept(T, Q, F, M, C, q)
  BY <1>4, <1>5, <1>6, <1>7, Usual
<1>9. b \in Nat /\ \A h \in b + 1 .. n - 1 : Item(todo, t, h).op = "unlock"
  BY <1>2 DEF b
<1> HIDE DEF n
<1>10. made \in Nat /\ made' = made
  BY <1>1
<1> QED
  BY <1>2, <1>4, <1>8, <1>9, <1>10 DEF After, Kept, b, n

\* The pin's own accounts, handle and locks complete the invariant,
LEMMA WholeSpare ==
    ASSUME NEW T, NEW Q, NEW F, NEW M, NEW C, NEW t, NEW b, NEW calls, NEW q,
           After(T, Q, F, M, C, t, b, calls, q),
           PinTypes(T, F, M)', Books(T, F, M, q)', HandleIs(T, q)',
           LockPlaces(todo, T)', Locked(todo, T, M)', Spare(Q, F)'
    PROVE  PinInv(T, Q, F, M, C)'
<1>1. /\ Known(todo, T)' /\ Filled(todo, T, Q)' /\ Backed(todo, T, C)' /\ Fresh(T, M)' /\ Solo(todo, T)'
      /\ \A p \in 1 .. M : p # q => Books(T, F, M, p)' /\ HandleIs(T, p)'
  BY DEF After
<1>2. (\A p \in 1 .. M : Books(T, F, M, p))'
  BY <1>1
<1>3. (\A p \in 1 .. M : HandleIs(T, p))'
  BY <1>1
<1> QED
  BY <1>1, <1>2, <1>3, Whole

\* with no buffer missed on the way.
LEMMA WholeAt ==
    ASSUME NEW T, NEW Q, NEW F, NEW M, NEW C, NEW t, NEW b, NEW calls, NEW q,
           After(T, Q, F, M, C, t, b, calls, q),
           PinTypes(T, F, M)', Books(T, F, M, q)', HandleIs(T, q)',
           LockPlaces(todo, T)', Locked(todo, T, M)', Spare(Q, F), dry' = dry
    PROVE  PinInv(T, Q, F, M, C)'
<1>1. Spare(Q, F)'
  BY DEF Spare
<1> QED
  BY <1>1, WholeSpare

\* What holds when t is at a call of pin q.
AtPin(T, Q, F, M, t, q) ==
    /\ todo[t] # <<>> /\ q = Arg(t) /\ q \in 1 .. M /\ q = Head(todo[t]).pin
    /\ PinTypes(T, F, M) /\ Spare(Q, F) /\ LockPlaces(todo, T) /\ Locked(todo, T, M)
    /\ Books(T, F, M, q) /\ HandleIs(T, q)
    /\ Head(todo[t]).op \in FrameOps => Frame(t) \in F /\ Frame(t) = Head(todo[t]).frame

\* The invariant says it of a thread at a call of q.
LEMMA IsAtPin ==
    ASSUME NEW T, NEW Q, NEW F, NEW M \in Nat, NEW B, PinInv(T, Q, F, M, B), NEW t \in T,
           todo[t] # <<>>, Head(todo[t]).op \in HasPin, NEW q, q = Arg(t)
    PROVE  AtPin(T, Q, F, M, t, q)
<1>1. /\ PinTypes(T, F, M) /\ Spare(Q, F) /\ LockPlaces(todo, T) /\ Locked(todo, T, M)
      /\ \A p \in 1 .. M : Books(T, F, M, p) /\ HandleIs(T, p)
  BY Parts
<1>2. /\ q \in 1 .. M /\ q = Head(todo[t]).pin
      /\ Head(todo[t]).op \in FrameOps => Frame(t) \in F /\ Frame(t) = Head(todo[t]).frame
  BY <1>1, Top
<1> QED
  BY <1>1, <1>2 DEF AtPin

\* An open handle will still be closed.
LEMMA WillCloseAfter ==
    ASSUME NEW T, NEW Q, NEW F, NEW M, NEW C, NEW t, NEW b, NEW calls, NEW q,
           After(T, Q, F, M, C, t, b, calls, q),
           Releasing(T, q) => refs'[q] = refs[q],
           Head(todo[t]).op \notin {"run", "close", "pinstop", "release"}, WillClose(T, q)
    PROVE  WillClose(T, q)'
<1>1. \A h \in b + 1 .. Height(todo, t) : h = Height(todo, t) \/ h \in b + 1 .. Height(todo, t) - 1
  BY DEF After
<1>2. \A h \in b + 1 .. Height(todo, t) :
         ~(Item(todo, t, h).op \in {"run", "close", "pinstop", "release"} /\ Item(todo, t, h).pin = q)
  BY <1>1 DEF After
<1>3. Moved(T, F, M, t, b, calls) /\ b < Height(todo, t) /\ (Owned(T, q) => Owned(T, q)')
  BY DEF After
<1> QED
  BY <1>2, <1>3, WillCloseKept

\* Of what is counted nothing is taken or given.
LEMMA BooksAfter ==
    ASSUME NEW T, NEW Q, NEW F, NEW M \in Nat, NEW C, NEW t, NEW b, NEW calls, NEW q,
           After(T, Q, F, M, C, t, b, calls, q), Books(T, F, M, q), SameCounts(T, F, M, q),
           refs' = refs, posted' = posted, free' = free, dead' = dead, lost' = lost,
           handle'[q] # "none"
    PROVE  Books(T, F, M, q)'
<1>1. SamePin(T, q) /\ made \in Nat /\ made' \in Nat /\ q \in 1 .. M
  BY DEF SamePin, After
<1> QED
  BY <1>1, BooksSame

\* The first call and the calls made are not counted.
LEMMA QuietAfter ==
    ASSUME NEW T, NEW Q, NEW F, NEW M, NEW C, NEW t, NEW b, NEW calls, NEW q,
           After(T, Q, F, M, C, t, b, calls, q), Head(todo[t]).op \notin Counted_,
           \A i \in 1 .. Len(calls) : calls[i].op \notin Counted_
    PROVE  SameCounts(T, F, M, q)
<1>1. \A h \in b + 1 .. Height(todo, t) : h = Height(todo, t) \/ h \in b + 1 .. Height(todo, t) - 1
  BY DEF After
<1>2. \A h \in b + 1 .. Height(todo, t) : Item(todo, t, h).op \notin Counted_
  BY <1>1 DEF After, Counted_, RefOps, HoldOps, ReadOps
<1>3. Moved(T, F, M, t, b, calls)
  BY DEF After
<1> QED
  BY <1>2, <1>3, QuietCounts

-----------------------------------------------------------------------------
\* The steps of KsRead.  First those that change no count.
LEMMA UnlockStep ==
    ASSUME NEW T, IsFiniteSet(T), NEW Q, NEW F, NEW M \in Nat, NEW B, NEW C,
           PinInv(T, Q, F, M, B), B \subseteq C, NEW t \in T, Unlock(t)
    PROVE  PinInv(T, Q, F, M, C)'
<1>0. PICK q : q = Arg(t)
  OBVIOUS
<1>1. todo[t] # <<>> /\ Head(todo[t]).op = "unlock" /\ Do(t, <<>>)
  BY DEF Unlock, At
<1>2. AtPin(T, Q, F, M, t, q) /\ Head(todo[t]).op \in HasPin \ {"create", "run"}
  BY <1>0, <1>1, IsAtPin DEF HasPin, PinOps
<1>3. pin' = pin /\ made' = made /\ lost' = lost /\ refs' = refs /\ posted' = posted /\ free' = free
      /\ dead' = dead /\ dry' = dry
  BY DEF Unlock
<1>4. /\ Elsewhere(M, q) /\ (handle[q] # "none" <=> handle'[q] # "none")
      /\ users' = [users EXCEPT ![q] = @ \ {t}] /\ users \in [1 .. M -> SUBSET T]
      /\ handle' \in [1 .. M -> {"none", "open", "closing", "closed"}]
      /\ running' \in [1 .. M -> BOOLEAN]
  BY <1>0, <1>2, <1>3 DEF AtPin, PinTypes, Elsewhere, Unlock
<1>5. <<>> \in Seq(Items(M, F)) /\ CallsOf(<<>>, q) /\ Needless(<<>>)
  BY NoCalls
<1>6. After(T, Q, F, M, C, t, Height(todo, t) - 1, <<>>, q)
  BY <1>0, <1>1, <1>2, <1>3, <1>4, <1>5, UsualDo
<1>7. PinTypes(T, F, M)'
  BY <1>2, <1>3, <1>4, <1>6 DEF AtPin, PinTypes, After, Moved
<1>8. Books(T, F, M, q)'
  <2>1. SameCounts(T, F, M, q)
    BY <1>1, <1>6, QuietAfter DEF Counted_, RefOps, HoldOps, ReadOps
  <2> QED
    BY <1>2, <1>3, <1>4, <1>6, <2>1, BooksAfter DEF AtPin, After
<1>9. LockPlaces(todo, T)' /\ Locked(todo, T, M)'
  BY <1>1, <1>2, <1>4, <1>6, LocksLeft, NoCalls DEF AtPin, After
<1>10. HandleIs(T, q)'
  <2>1. WillClose(T, q) => WillClose(T, q)'
    BY <1>1, <1>3, <1>6, WillCloseAfter
  <2>2. t \in users[q]
    <3>1. Height(todo, t) \in 1 .. Height(todo, t)
      BY <1>6 DEF After
    <3>2. OnPin(todo, {t}, {"unlock"}, q)
      BY <1>1, <1>6, <3>1 DEF After, OnPin
    <3> QED
      BY <1>2, <3>2 DEF AtPin, Locked
  <2>3. IF handle[q] = "closing" /\ users[q] = {t}
        THEN handle'[q] = "closed" /\ running'[q] = FALSE
        ELSE handle'[q] = handle[q] /\ running'[q] = running[q]
    BY <1>0, <1>2 DEF Unlock, AtPin, PinTypes
  <2>4. users'[q] = users[q] \ {t}
    BY <1>2, <1>4 DEF AtPin
  <2>5. Owned(T, q)' <=> Owned(T, q)
    BY <1>6 DEF After
  <2> QED
    BY <1>2, <1>3, <2>1, <2>2, <2>3, <2>4, <2>5 DEF AtPin, HandleIs
<1> QED
  BY <1>2, <1>3, <1>6, <1>7, <1>8, <1>9, <1>10, WholeAt DEF AtPin

\* The calls made close pin q, or stop it.
NewCloses(calls, q) == \E i \in 1 .. Len(calls) : calls[i].op \in {"close", "pinstop"} /\ calls[i].pin = q

\* A call made is on its pin.
LEMMA GivenOnPin ==
    ASSUME NEW T, NEW F, NEW M, NEW t, NEW b, NEW calls, Moved(T, F, M, t, b, calls), NEW ops, NEW q,
           NEW i \in 1 .. Len(calls), calls[i].op \in ops, calls[i].pin = q
    PROVE  OnPin(todo', T, ops, q)
<1>1. /\ t \in T /\ b \in Nat /\ Len(calls) \in Nat /\ Height(todo', t) = b + Len(calls)
      /\ Item(todo', t, b + Len(calls) + 1 - i) = calls[i]
  BY MovedIs
<1>2. b + Len(calls) + 1 - i \in 1 .. Height(todo', t)
  BY <1>1
<1> QED
  BY <1>1, <1>2 DEF OnPin

\* A step that takes no lock and changes no variable of the pins.
LEMMA QuietStep ==
    ASSUME NEW T, IsFiniteSet(T), NEW Q, NEW F, NEW M \in Nat, NEW B, NEW C,
           PinInv(T, Q, F, M, B), B \subseteq C, NEW t \in T, todo[t] # <<>>,
           Head(todo[t]).op \in HasPin \ ({"create", "run", "release"} \cup LockOps),
           NEW calls \in Seq(Items(M, F)), Do(t, calls), NEW q, q = Arg(t), CallsOf(calls, q),
           \A i \in 1 .. Len(calls) : calls[i].op \notin LockOps, SameCounts(T, F, M, q),
           Needless(calls) \/ Head(todo[t]).op \in NeedOps,
           Head(todo[t]).op \in {"close", "pinstop"} => handle[q] # "open" \/ NewCloses(calls, q),
           Idle
    PROVE  PinInv(T, Q, F, M, C)'
<1>2. AtPin(T, Q, F, M, t, q) /\ Head(todo[t]).op \in HasPin \ {"create", "run"}
  BY IsAtPin
<1>3. pin' = pin /\ made' = made /\ lost' = lost /\ refs' = refs /\ posted' = posted /\ free' = free
      /\ dead' = dead /\ dry' = dry /\ handle' = handle /\ users' = users /\ running' = running
  BY DEF Idle
<1>4. Elsewhere(M, q)
  BY <1>3 DEF Elsewhere
<1>6. After(T, Q, F, M, C, t, Height(todo, t) - 1, calls, q)
  BY <1>2, <1>3, <1>4, UsualDo
<1>7. PinTypes(T, F, M)'
  BY <1>2, <1>3, <1>6 DEF AtPin, PinTypes, After, Moved
<1>8. Books(T, F, M, q)'
  BY <1>2, <1>3, <1>6, BooksAfter DEF AtPin, After
<1>9. LockPlaces(todo, T)' /\ Locked(todo, T, M)'
  <2>1. \A h \in Height(todo, t) - 1 + 1 .. Height(todo, t) : h = Height(todo, t)
    BY <1>6 DEF After
  <2>2. \A h \in Height(todo, t) - 1 + 1 .. Height(todo, t) : Item(todo, t, h).op \notin LockOps
    BY <1>6, <2>1 DEF After
  <2>3. /\ Moved(T, F, M, t, Height(todo, t) - 1, calls) /\ LockPlaces(todo, T) /\ Locked(todo, T, M)
        /\ Height(todo, t) - 1 < Height(todo, t)
    BY <1>2, <1>6 DEF AtPin, After
  <2> QED
    BY <1>3, <2>2, <2>3, LocksQuiet
<1>10. HandleIs(T, q)'
  <2>1. handle[q] = "open" /\ WillClose(T, q) => WillClose(T, q)'
    <3>1. CASE Head(todo[t]).op \notin {"run", "close", "pinstop", "release"}
      BY <1>3, <1>6, <3>1, WillCloseAfter
    <3>2. CASE NewCloses(calls, q)
      <4>1. PICK i \in 1 .. Len(calls) : calls[i].op \in {"run", "close", "pinstop"} /\ calls[i].pin = q
        BY <3>2 DEF NewCloses
      <4>2. OnPin(todo', T, {"run", "close", "pinstop"}, q)
        BY <1>6, <4>1, GivenOnPin DEF After
      <4> QED
        BY <4>2 DEF WillClose
    <3> QED
      BY <3>1, <3>2
  <2>2. Owned(T, q)' <=> Owned(T, q)
    BY <1>6 DEF After
  <2> QED
    BY <1>2, <1>3, <2>1, <2>2 DEF AtPin, HandleIs
<1> QED
  BY <1>2, <1>3, <1>6, <1>7, <1>8, <1>9, <1>10, WholeAt DEF AtPin

\* The calls that a lock is taken for.
LEMMA TakesLock ==
    ASSUME NEW M, NEW F, NEW q \in 1 .. M, NEW x \in {<<On("unlock", q)>>, <<On("setstop", q), On("unlock", q)>>}
    PROVE  /\ x \in Seq(Items(M, F)) /\ CallsOf(x, q)
           /\ (\A i \in 1 .. Len(x) : x[i].op \notin Counted_) /\ NewLocks(x) /\ (\A p : Unlocks(x, p) <=> p = q)
<1>1. CASE x = <<On("unlock", q)>>
  <2>1. Len(x) = 1 /\ x[1] = On("unlock", q)
    BY <1>1
  <2>2. /\ x[1].op = "unlock" /\ x[1].pin = q
        /\ On("unlock", q) \in Items(M, F)
    BY <2>1, OnIs, OnItem DEF PinOps
  <2> QED
    BY <1>1, <2>1, <2>2 DEF CallsOf, NewLocks, Unlocks, Counted_, RefOps, HoldOps, ReadOps, SoloOps
<1>2. CASE x = <<On("setstop", q), On("unlock", q)>>
  <2>1. Len(x) = 2 /\ x[1] = On("setstop", q) /\ x[2] = On("unlock", q)
    BY <1>2
  <2>2. /\ x[1].op = "setstop" /\ x[1].pin = q /\ x[2].op = "unlock" /\ x[2].pin = q
        /\ On("unlock", q) \in Items(M, F) /\ On("setstop", q) \in Items(M, F)
    BY <2>1, OnIs, OnItem DEF PinOps
  <2>3. 1 .. Len(x) = {1, 2}
    BY <2>1
  <2> QED
    BY <1>2, <2>1, <2>2, <2>3 DEF CallsOf, NewLocks, Unlocks, Counted_, RefOps, HoldOps, ReadOps, SoloOps
<1> QED
  BY <1>1, <1>2

\* QuietCounts, for a step written with Do.
LEMMA QuietDo ==
    ASSUME NEW T, NEW F, NEW M \in Nat, PinTypes(T, F, M), IsFiniteSet(T), NEW t \in T, todo[t] # <<>>,
           NEW calls \in Seq(Items(M, F)), Do(t, calls), Head(todo[t]).op \notin Counted_,
           \A i \in 1 .. Len(calls) : calls[i].op \notin Counted_
    PROVE  \A p : SameCounts(T, F, M, p)
<1>1. Moved(T, F, M, t, Height(todo, t) - 1, calls)
  BY Doing
<1>2. Height(todo, t) \in Nat /\ Item(todo, t, Height(todo, t)) = Head(todo[t])
  BY Top
<1>3. \A h \in Height(todo, t) - 1 + 1 .. Height(todo, t) : h = Height(todo, t)
  BY <1>2
<1>4. \A h \in Height(todo, t) - 1 + 1 .. Height(todo, t) : Item(todo, t, h).op \notin Counted_
  BY <1>2, <1>3
<1> QED
  BY <1>1, <1>4, QuietCounts

\* SwapCounts, for a step written with Do.
LEMMA SwapDo ==
    ASSUME NEW T, NEW F, NEW M \in Nat, PinTypes(T, F, M), IsFiniteSet(T), NEW t \in T, todo[t] # <<>>,
           NEW calls \in Seq(Items(M, F)), Do(t, calls), Head(todo[t]).op \in Requests,
           Len(calls) > 0, calls[1].op \in Requests,
           calls[1].pin = Head(todo[t]).pin, calls[1].frame = Head(todo[t]).frame,
           \A i \in 1 .. Len(calls) : i # 1 => calls[i].op \notin Counted_
    PROVE  \A p : SameCounts(T, F, M, p)
<1>1. Moved(T, F, M, t, Height(todo, t) - 1, calls) /\ Height(todo, t) - 1 < Height(todo, t)
  BY Doing
<1>2. Height(todo, t) \in Nat /\ Item(todo, t, Height(todo, t)) = Head(todo[t])
  BY Top
<1>3. \A h \in Height(todo, t) - 1 + 1 .. Height(todo, t) - 1 : Item(todo, t, h).op \notin Counted_
  BY <1>2
<1>4. 1 \in 1 .. Len(calls)
  BY <1>1, MovedIs
<1> QED
  BY <1>1, <1>2, <1>3, <1>4, SwapCounts

\* A step that takes the lock of its pin.
LEMMA LockStep ==
    ASSUME NEW T, IsFiniteSet(T), NEW Q, NEW F, NEW M \in Nat, NEW B, NEW C,
           PinInv(T, Q, F, M, B), B \subseteq C, NEW t \in T, todo[t] # <<>>,
           Head(todo[t]).op \in {"setstate", "close", "issue"},
           NEW calls \in Seq(Items(M, F)), Do(t, calls), NEW q, q = Arg(t), CallsOf(calls, q),
           Needless(calls) \/ Head(todo[t]).op \in NeedOps, SameCounts(T, F, M, q),
           NewLocks(calls), \A p : Unlocks(calls, p) <=> p = q,
           CanLock(q), users' = [users EXCEPT ![q] = @ \cup {t}],
           handle' = IF Head(todo[t]).op = "close" THEN [handle EXCEPT ![q] = "closing"] ELSE handle,
           UNCHANGED <<pin, made, refs, running, free, posted, dead, lost, dry>>
    PROVE  PinInv(T, Q, F, M, C)'
<1>2. /\ AtPin(T, Q, F, M, t, q) /\ Head(todo[t]).op \in HasPin \ {"create", "run"}
      /\ Head(todo[t]).op \notin LockOps
  <2>1. Head(todo[t]).op \in HasPin \ {"create", "run"} /\ Head(todo[t]).op \notin LockOps
    BY DEF HasPin, PinOps, FrameOps, LockOps
  <2> QED
    BY <2>1, IsAtPin
<1>3. pin' = pin /\ made' = made /\ lost' = lost /\ refs' = refs /\ posted' = posted /\ free' = free
      /\ dead' = dead /\ dry' = dry /\ running' = running
  OBVIOUS
<1>4. /\ Elsewhere(M, q) /\ handle[q] = "open" /\ handle'[q] \in {"open", "closing"}
      /\ (Head(todo[t]).op = "close" => handle'[q] = "closing")
      /\ users \in [1 .. M -> SUBSET T] /\ users' \in [1 .. M -> SUBSET T] /\ t \in users'[q]
      /\ handle' \in [1 .. M -> {"none", "open", "closing", "closed"}]
  BY <1>2, <1>3 DEF AtPin, PinTypes, Elsewhere, CanLock
<1>6. After(T, Q, F, M, C, t, Height(todo, t) - 1, calls, q)
  BY <1>2, <1>3, <1>4, UsualDo
<1>7. PinTypes(T, F, M)'
  BY <1>2, <1>3, <1>4, <1>6 DEF AtPin, PinTypes, After, Moved
<1>8. Books(T, F, M, q)'
  BY <1>2, <1>3, <1>4, <1>6, BooksAfter DEF AtPin, After
<1>9. LockPlaces(todo, T)' /\ Locked(todo, T, M)'
  <2>1. \A h \in Height(todo, t) - 1 + 1 .. Height(todo, t) : h = Height(todo, t)
    BY <1>6 DEF After
  <2>2. \A h \in Height(todo, t) - 1 + 1 .. Height(todo, t) : Item(todo, t, h).op \notin LockOps
    BY <1>2, <1>6, <2>1 DEF After
  <2>3. /\ Moved(T, F, M, t, Height(todo, t) - 1, calls) /\ LockPlaces(todo, T) /\ Locked(todo, T, M)
        /\ Height(todo, t) - 1 < Height(todo, t) /\ q \in 1 .. M
    BY <1>2, <1>6 DEF AtPin, After
  <2>4. \A p \in 1 .. M : Unlocks(calls, p) <=> p = q
    OBVIOUS
  <2> QED
    BY <1>4, <2>2, <2>3, <2>4, LocksTaken, ZenonT(40)
<1>10. HandleIs(T, q)'
  <2>1. Head(todo[t]).op # "close" /\ WillClose(T, q) => WillClose(T, q)'
    BY <1>3, <1>6, WillCloseAfter
  <2>2. Owned(T, q)' <=> Owned(T, q)
    BY <1>6 DEF After
  <2> QED
    BY <1>2, <1>3, <1>4, <2>1, <2>2 DEF AtPin, HandleIs
<1> QED
  BY <1>2, <1>3, <1>6, <1>7, <1>8, <1>9, <1>10, WholeAt DEF AtPin

\* What the steps below cite of the call at hand.
LEMMA AtCall ==
    ASSUME NEW T, NEW Q, NEW F, NEW M \in Nat, NEW B, PinInv(T, Q, F, M, B), NEW t \in T, NEW op \in HasPin,
           At(t, op), NEW q, q = Arg(t)
    PROVE  AtPin(T, Q, F, M, t, q) /\ todo[t] # <<>> /\ Head(todo[t]).op = op /\ q \in 1 .. M
<1>1. todo[t] # <<>> /\ Head(todo[t]).op = op /\ Head(todo[t]).op \in HasPin
  BY DEF At
<1>2. AtPin(T, Q, F, M, t, q)
  BY <1>1, IsAtPin
<1> QED
  BY <1>1, <1>2 DEF AtPin

\* KsRead::SetState.
LEMMA SetStateStep ==
    ASSUME NEW T, IsFiniteSet(T), NEW Q, NEW F, NEW M \in Nat, NEW B, NEW C,
           PinInv(T, Q, F, M, B), B \subseteq C, NEW t \in T, SetState(t)
    PROVE  PinInv(T, Q, F, M, C)'
<1>0. PICK q : q = Arg(t)
  OBVIOUS
<1>1. AtPin(T, Q, F, M, t, q) /\ todo[t] # <<>> /\ Head(todo[t]).op = "setstate" /\ q \in 1 .. M
  BY <1>0, AtCall DEF SetState, HasPin, PinOps
<1>2. Head(todo[t]).op \in NeedOps /\ Head(todo[t]).op \notin Counted_ \cup LockOps /\ PinTypes(T, F, M)
  BY <1>1 DEF NeedOps, Counted_, RefOps, HoldOps, ReadOps, LockOps, AtPin
<1>3. CASE CanLock(q)
  <2> DEFINE x == <<On("setstop", q), On("unlock", q)>>
  <2>1. /\ x \in Seq(Items(M, F)) /\ CallsOf(x, q) /\ (\A i \in 1 .. Len(x) : x[i].op \notin Counted_)
        /\ NewLocks(x) /\ (\A p : Unlocks(x, p) <=> p = q)
    BY <1>1, TakesLock
  <2>2. /\ Do(t, x) /\ users' = [users EXCEPT ![q] = @ \cup {t}] /\ handle' = handle
        /\ UNCHANGED <<pin, made, refs, running, free, posted, dead, lost, dry>>
    BY <1>0, <1>3 DEF SetState
  <2> HIDE DEF x
  <2>3. SameCounts(T, F, M, q)
    BY <1>1, <1>2, <2>1, <2>2, QuietDo
  <2> QED
    BY <1>0, <1>1, <1>2, <1>3, <2>1, <2>2, <2>3, LockStep
<1>4. CASE ~CanLock(q)
  <2>1. Do(t, <<>>) /\ Idle
    BY <1>0, <1>4 DEF SetState, Idle
  <2>2. <<>> \in Seq(Items(M, F)) /\ CallsOf(<<>>, q) /\ Needless(<<>>) /\ \A i : i \notin 1 .. Len(<<>>)
    BY NoCalls
  <2>3. SameCounts(T, F, M, q)
    BY <1>1, <1>2, <2>1, <2>2, QuietDo
  <2> QED
    BY <1>0, <1>1, <1>2, <2>1, <2>2, <2>3, QuietStep DEF HasPin, PinOps
<1> QED
  BY <1>3, <1>4

\* KsRead::Close.
LEMMA CloseStep ==
    ASSUME NEW T, IsFiniteSet(T), NEW Q, NEW F, NEW M \in Nat, NEW B, NEW C,
           PinInv(T, Q, F, M, B), B \subseteq C, NEW t \in T, Close(t)
    PROVE  PinInv(T, Q, F, M, C)'
<1>0. PICK q : q = Arg(t)
  OBVIOUS
<1>1. AtPin(T, Q, F, M, t, q) /\ todo[t] # <<>> /\ Head(todo[t]).op = "close" /\ q \in 1 .. M
  BY <1>0, AtCall DEF Close, HasPin, PinOps
<1>2. Head(todo[t]).op \notin Counted_ \cup LockOps /\ PinTypes(T, F, M)
  BY <1>1 DEF NeedOps, Counted_, RefOps, HoldOps, ReadOps, LockOps, AtPin
<1>3. CASE CanLock(q)
  <2> DEFINE x == <<On("unlock", q)>>
  <2>1. /\ x \in Seq(Items(M, F)) /\ CallsOf(x, q) /\ (\A i \in 1 .. Len(x) : x[i].op \notin Counted_)
        /\ NewLocks(x) /\ (\A p : Unlocks(x, p) <=> p = q)
    BY <1>1, TakesLock
  <2>2. /\ Do(t, x) /\ users' = [users EXCEPT ![q] = @ \cup {t}]
        /\ handle' = [handle EXCEPT ![q] = "closing"]
        /\ UNCHANGED <<pin, made, refs, running, free, posted, dead, lost, dry>>
    BY <1>0, <1>3 DEF Close
  <2>4. Needless(x)
    BY OnIs DEF Needless, NeedOps
  <2> HIDE DEF x
  <2>3. SameCounts(T, F, M, q)
    BY <1>1, <1>2, <2>1, <2>2, QuietDo
  <2> QED
    BY <1>0, <1>1, <1>2, <1>3, <2>1, <2>2, <2>3, <2>4, LockStep
<1>4. CASE ~CanLock(q)
  <2>1. Do(t, <<>>) /\ Idle
    BY <1>0, <1>4 DEF Close, Idle
  <2>2. <<>> \in Seq(Items(M, F)) /\ CallsOf(<<>>, q) /\ Needless(<<>>) /\ \A i : i \notin 1 .. Len(<<>>)
    BY NoCalls
  <2>3. SameCounts(T, F, M, q)
    BY <1>1, <1>2, <2>1, <2>2, QuietDo
  <2> QED
    BY <1>0, <1>1, <1>2, <1>4, <2>1, <2>2, <2>3, QuietStep DEF HasPin, PinOps, CanLock
<1> QED
  BY <1>3, <1>4

\* The calls of a request.
ForRequest(x, M, F, q, f) ==
    /\ x \in Seq(Items(M, F)) /\ CallsOf(x, q) /\ Needless(x)
    /\ Len(x) > 0 /\ x[1].op \in Requests /\ x[1].pin = q /\ x[1].frame = f
    /\ (\A i \in 1 .. Len(x) : i # 1 => x[i].op \notin Counted_)

\* The request is refused, or made inside the lock.
LEMMA RequestCalls ==
    ASSUME NEW M, NEW F, NEW q \in 1 .. M, NEW f \in F,
           NEW x \in {<<With("fail", q, f)>>, <<With("ioctl", q, f), On("unlock", q)>>}
    PROVE  ForRequest(x, M, F, q, f)
<1>1. CASE x = <<With("fail", q, f)>>
  <2>1. Len(x) = 1 /\ x[1] = With("fail", q, f) /\ 1 .. Len(x) = {1}
    BY <1>1
  <2>2. /\ x[1].op = "fail" /\ x[1].pin = q /\ x[1].frame = f
        /\ With("fail", q, f) \in Items(M, F)
    <3>1. "fail" \in FrameOps
      BY DEF FrameOps
    <3> QED
      BY <2>1, <3>1, WithIs, WithItem
  <2> QED
    BY <1>1, <2>1, <2>2 DEF ForRequest, CallsOf, Needless, NeedOps, Requests, SoloOps
<1>2. CASE x = <<With("ioctl", q, f), On("unlock", q)>>
  <2>1. Len(x) = 2 /\ x[1] = With("ioctl", q, f) /\ x[2] = On("unlock", q) /\ 1 .. Len(x) = {1, 2}
    BY <1>2
  <2>2. /\ x[1].op = "ioctl" /\ x[1].pin = q /\ x[1].frame = f /\ x[2].op = "unlock" /\ x[2].pin = q
        /\ With("ioctl", q, f) \in Items(M, F) /\ On("unlock", q) \in Items(M, F)
    BY <2>1, WithIs, OnIs, WithItem, OnItem DEF FrameOps, PinOps
  <2> QED
    BY <1>2, <2>1, <2>2 DEF ForRequest, CallsOf, Needless, NeedOps, Requests, SoloOps, Counted_, RefOps, HoldOps, ReadOps
<1> QED
  BY <1>1, <1>2

\* The lock is taken for the request.
LEMMA IssueStep ==
    ASSUME NEW T, IsFiniteSet(T), NEW Q, NEW F, NEW M \in Nat, NEW B, NEW C,
           PinInv(T, Q, F, M, B), B \subseteq C, NEW t \in T, IssueRead(t)
    PROVE  PinInv(T, Q, F, M, C)'
<1>0. PICK q : q = Arg(t)
  OBVIOUS
<1>00. PICK f : f = Frame(t)
  OBVIOUS
<1>1. AtPin(T, Q, F, M, t, q) /\ todo[t] # <<>> /\ Head(todo[t]).op = "issue" /\ q \in 1 .. M
  BY <1>0, AtCall DEF IssueRead, HasPin, FrameOps
<1>2. /\ Head(todo[t]).op \in Requests /\ PinTypes(T, F, M) /\ Head(todo[t]).op \notin LockOps
      /\ f \in F /\ f = Head(todo[t]).frame /\ q = Head(todo[t]).pin
  BY <1>00, <1>1 DEF Requests, AtPin, FrameOps, LockOps
<1>3. CASE CanLock(q)
  <2> DEFINE x == <<With("ioctl", q, f), On("unlock", q)>>
  <2>1. /\ x \in Seq(Items(M, F)) /\ CallsOf(x, q) /\ Needless(x)
        /\ Len(x) > 0 /\ x[1].op \in Requests /\ x[1].pin = q /\ x[1].frame = f
        /\ (\A i \in 1 .. Len(x) : i # 1 => x[i].op \notin Counted_)
    <3>1. x \in {<<With("fail", q, f)>>, <<With("ioctl", q, f), On("unlock", q)>>}
      OBVIOUS
    <3> HIDE DEF x
    <3>2. ForRequest(x, M, F, q, f)
      BY <1>1, <1>2, <3>1, RequestCalls
    <3> QED
      BY <3>2 DEF ForRequest
  <2>2. /\ Do(t, x) /\ users' = [users EXCEPT ![q] = @ \cup {t}] /\ handle' = handle
        /\ UNCHANGED <<pin, made, refs, running, free, posted, dead, lost, dry>>
    BY <1>0, <1>00, <1>3 DEF IssueRead
  <2>4. NewLocks(x) /\ (\A p : Unlocks(x, p) <=> p = q)
    <3>1. Len(x) = 2 /\ x[1] = With("ioctl", q, f) /\ x[2] = On("unlock", q) /\ 1 .. Len(x) = {1, 2}
      OBVIOUS
    <3>2. /\ x[1].op = "ioctl" /\ x[1].pin = q /\ x[2].op = "unlock" /\ x[2].pin = q
      BY <3>1, WithIs, OnIs
    <3> QED
      BY <3>1, <3>2 DEF NewLocks, Unlocks
  <2> HIDE DEF x
  <2>3. SameCounts(T, F, M, q)
    BY <1>1, <1>2, <2>1, <2>2, SwapDo
  <2> QED
    BY <1>0, <1>1, <1>2, <1>3, <2>1, <2>2, <2>3, <2>4, LockStep
<1>4. CASE ~CanLock(q)
  <2> DEFINE x == <<With("fail", q, f)>>
  <2>1. /\ x \in Seq(Items(M, F)) /\ CallsOf(x, q) /\ Needless(x)
        /\ Len(x) > 0 /\ x[1].op \in Requests /\ x[1].pin = q /\ x[1].frame = f
        /\ (\A i \in 1 .. Len(x) : i # 1 => x[i].op \notin Counted_)
    <3>1. x \in {<<With("fail", q, f)>>, <<With("ioctl", q, f), On("unlock", q)>>}
      OBVIOUS
    <3> HIDE DEF x
    <3>2. ForRequest(x, M, F, q, f)
      BY <1>1, <1>2, <3>1, RequestCalls
    <3> QED
      BY <3>2 DEF ForRequest
  <2>2. Do(t, x) /\ Idle
    BY <1>0, <1>00, <1>4 DEF IssueRead, Idle
  <2>4. \A i \in 1 .. Len(x) : x[i].op \notin LockOps
    <3>1. Len(x) = 1 /\ x[1] = With("fail", q, f) /\ 1 .. Len(x) = {1}
      OBVIOUS
    <3> QED
      BY <3>1, WithIs DEF LockOps
  <2> HIDE DEF x
  <2>3. SameCounts(T, F, M, q)
    BY <1>1, <1>2, <2>1, <2>2, SwapDo
  <2> QED
    BY <1>0, <1>1, <1>2, <2>1, <2>2, <2>3, <2>4, QuietStep DEF HasPin, FrameOps
<1> QED
  BY <1>3, <1>4

\* What is counted of pin q: c was taken away and d came.
Traded(T, F, M, q, c, d) ==
    LET E == Items(M, F) IN
    /\ Number(todo, T, RefsOf(E, q)) \in Nat
    /\ Number(todo', T, RefsOf(E, q)) \in Nat
    /\ Number(todo', T, RefsOf(E, q)) + One(c.op \in RefOps) = Number(todo, T, RefsOf(E, q)) + One(d.op \in RefOps)
    /\ Number(todo, T, ReadsOf(E, q)) \in Nat
    /\ Number(todo', T, ReadsOf(E, q)) \in Nat
    /\ Number(todo', T, ReadsOf(E, q)) + One(c.op \in ReadOps) = Number(todo, T, ReadsOf(E, q)) + One(d.op \in ReadOps)
    /\ \A f \in F :
          /\ Number(todo, T, HoldsOf(E, q, f)) \in Nat
          /\ Number(todo', T, HoldsOf(E, q, f)) \in Nat
          /\ Number(todo', T, HoldsOf(E, q, f)) + One(c.op \in HoldOps /\ c.frame = f)
               = Number(todo, T, HoldsOf(E, q, f)) + One(d.op \in HoldOps /\ d.frame = f)
Nothing == [op |-> "nothing"]

\* A truth value as a number.
LEMMA OneIs == One(TRUE) = 1 /\ One(FALSE) = 0 /\ \A b \in BOOLEAN : One(b) \in {0, 1}
BY DEF One

\* The first call is taken away and at most one that is counted comes.
LEMMA TradesOne ==
    ASSUME NEW T, NEW Q, NEW F, NEW M, NEW C, NEW t, NEW b, NEW calls, NEW q,
           After(T, Q, F, M, C, t, b, calls, q), NEW d,
           \/ d = Nothing /\ \A i \in 1 .. Len(calls) : calls[i].op \notin Counted_
           \/ \E j \in 1 .. Len(calls) : /\ d = calls[j] /\ d.pin = q
                                         /\ \A i \in 1 .. Len(calls) : i # j => calls[i].op \notin Counted_
    PROVE  Traded(T, F, M, q, Head(todo[t]), d)
<1> DEFINE E == Items(M, F)
           c == Head(todo[t])
<1>1. /\ Moved(T, F, M, t, b, calls) /\ b < Height(todo, t) /\ c \in E /\ c.pin = q
      /\ Item(todo, t, Height(todo, t)) = c
      /\ \A h \in b + 1 .. Height(todo, t) - 1 : Item(todo, t, h).op = "unlock"
      /\ \A i \in 1 .. Len(calls) : calls[i] \in E
  BY MovedIs DEF After
<1>2. ASSUME NEW K, \A e \in K : e.op \in Counted_
      PROVE  /\ Number(todo', T, K) + One(c \in K) = Number(todo, T, K) + One(d \in K)
             /\ Number(todo', T, K) \in Nat /\ Number(todo, T, K) \in Nat
  <2>1. \A h \in b + 1 .. Height(todo, t) - 1 : Item(todo, t, h) \notin K
    BY <1>1, <1>2 DEF Counted_, RefOps, HoldOps, ReadOps
  <2>2. CASE d = Nothing /\ \A i \in 1 .. Len(calls) : calls[i].op \notin Counted_
    <3>1. \A i \in 1 .. Len(calls) : calls[i] \notin K
      BY <1>2, <2>2
    <3>2. d \notin K
      BY <1>2, <2>2 DEF Nothing, Counted_, RefOps, HoldOps, ReadOps
    <3>3. One(d \in K) = 0
      BY <3>2 DEF One
    <3> HIDE DEF c
    <3>4. /\ Number(todo', T, K) + One(c \in K) = Number(todo, T, K)
          /\ Number(todo', T, K) \in Nat /\ Number(todo, T, K) \in Nat
      BY <1>1, <2>1, <3>1, CountNone
    <3> QED
      BY <3>3, <3>4
  <2>3. ASSUME NEW j \in 1 .. Len(calls), d = calls[j],
               \A i \in 1 .. Len(calls) : i # j => calls[i].op \notin Counted_
        PROVE  /\ Number(todo', T, K) + One(c \in K) = Number(todo, T, K) + One(d \in K)
               /\ Number(todo', T, K) \in Nat /\ Number(todo, T, K) \in Nat
    <3>1. \A i \in 1 .. Len(calls) : i # j => calls[i] \notin K
      BY <1>2, <2>3
    <3> HIDE DEF c
    <3> QED
      BY <1>1, <2>1, <2>3, <3>1, CountOne
  <2> QED
    BY <2>2, <2>3
<1>3. d = Nothing \/ (d \in E /\ d.pin = q)
  BY <1>1
<1> HIDE DEF E, c
<1>4. /\ \A e \in RefsOf(E, q) : e.op \in Counted_
      /\ c \in RefsOf(E, q) <=> c.op \in RefOps
      /\ d \in RefsOf(E, q) <=> d.op \in RefOps
  BY <1>1, <1>3 DEF RefsOf, Counted_, Nothing, RefOps
<1>5. /\ \A e \in ReadsOf(E, q) : e.op \in Counted_
      /\ c \in ReadsOf(E, q) <=> c.op \in ReadOps
      /\ d \in ReadsOf(E, q) <=> d.op \in ReadOps
  BY <1>1, <1>3 DEF ReadsOf, Counted_, Nothing, ReadOps
<1>6. ASSUME NEW f \in F
      PROVE  /\ \A e \in HoldsOf(E, q, f) : e.op \in Counted_
             /\ c \in HoldsOf(E, q, f) <=> c.op \in HoldOps /\ c.frame = f
             /\ d \in HoldsOf(E, q, f) <=> d.op \in HoldOps /\ d.frame = f
  BY <1>1, <1>3 DEF HoldsOf, Counted_, Nothing, HoldOps
<1>7. /\ Number(todo, T, RefsOf(E, q)) \in Nat /\ Number(todo', T, RefsOf(E, q)) \in Nat
      /\ Number(todo', T, RefsOf(E, q)) + One(c.op \in RefOps) = Number(todo, T, RefsOf(E, q)) + One(d.op \in RefOps)
  <2>1. One(c \in RefsOf(E, q)) = One(c.op \in RefOps) /\ One(d \in RefsOf(E, q)) = One(d.op \in RefOps)
    BY <1>4 DEF One
  <2> QED
    BY <1>2, <1>4, <2>1
<1>8. /\ Number(todo, T, ReadsOf(E, q)) \in Nat /\ Number(todo', T, ReadsOf(E, q)) \in Nat
      /\ Number(todo', T, ReadsOf(E, q)) + One(c.op \in ReadOps) = Number(todo, T, ReadsOf(E, q)) + One(d.op \in ReadOps)
  <2>1. One(c \in ReadsOf(E, q)) = One(c.op \in ReadOps) /\ One(d \in ReadsOf(E, q)) = One(d.op \in ReadOps)
    BY <1>5 DEF One
  <2> QED
    BY <1>2, <1>5, <2>1
<1>9. ASSUME NEW f \in F
      PROVE  /\ Number(todo, T, HoldsOf(E, q, f)) \in Nat
             /\ Number(todo', T, HoldsOf(E, q, f)) \in Nat
             /\ Number(todo', T, HoldsOf(E, q, f)) + One(c.op \in HoldOps /\ c.frame = f)
                  = Number(todo, T, HoldsOf(E, q, f)) + One(d.op \in HoldOps /\ d.frame = f)
  <2>1. /\ One(c \in HoldsOf(E, q, f)) = One(c.op \in HoldOps /\ c.frame = f)
        /\ One(d \in HoldsOf(E, q, f)) = One(d.op \in HoldOps /\ d.frame = f)
    BY <1>6 DEF One
  <2> QED
    BY <1>2, <1>6, <2>1
<1> QED
  BY <1>7, <1>8, <1>9 DEF Traded, E, c

\* A frame more or less in a set of frames.
LEMMA Cards ==
    ASSUME NEW F, IsFiniteSet(F), NEW S \in SUBSET F, NEW f
    PROVE  /\ Cardinality(S) \in Nat /\ Cardinality(S) <= Cardinality(F)
           /\ f \notin S => Cardinality(S \cup {f}) = Cardinality(S) + 1
           /\ f \in S => Cardinality(S \ {f}) = Cardinality(S) - 1
<1>1. IsFiniteSet(S) /\ Cardinality(S) <= Cardinality(F)
  BY FS_Subset
<1>2. Cardinality(S) \in Nat
  BY <1>1, FS_CardinalityType
<1>3. f \notin S => Cardinality(S \cup {f}) = Cardinality(S) + 1
  BY <1>1, FS_AddElement
<1>4. f \in S => Cardinality(S \ {f}) = Cardinality(S) - 1
  BY <1>1, FS_RemoveElement
<1> QED
  BY <1>1, <1>2, <1>3, <1>4

\* How many frames a set of them has.
LEMMA CardNat ==
    ASSUME NEW F, IsFiniteSet(F), NEW S \in SUBSET F
    PROVE  Cardinality(S) \in Nat /\ Cardinality(S) <= Cardinality(F)
BY Cards

\* A thread holds a buffer alone.
LEMMA Held ==
    ASSUME NEW T, IsFiniteSet(T), NEW F, NEW M \in Nat, PinTypes(T, F, M), NEW p, NEW f \in F,
           FrameBook(T, F, M, p, f), NEW t \in T, NEW h \in 1 .. Height(todo, t),
           Item(todo, t, h).op \in HoldOps, Item(todo, t, h).pin = p, Item(todo, t, h).frame = f
    PROVE  f \notin free[p] /\ f \notin posted[p]
<1> DEFINE E == Items(M, F)
           K == HoldsOf(E, p, f)
<1>1. todo \in [T -> Seq(E)]
  BY DEF PinTypes
<1>2. Item(todo, t, h) \in K
  <2>1. Item(todo, t, h) \in E
    BY <1>1, HeightIsNat
  <2> QED
    BY <2>1 DEF HoldsOf
<1> HIDE DEF E, K
<1>3. Number(todo, T, K) > 0 /\ Number(todo, T, K) \in Nat
  BY <1>1, <1>2, SomePlace, PlacesFinite
<1>4. Number(todo, T, K) + One(f \in free[p]) + One(f \in posted[p]) = One(handle[p] # "none")
  BY DEF FrameBook, E, K
<1>5. One(f \in free[p]) \in {0, 1} /\ One(f \in posted[p]) \in {0, 1} /\ One(handle[p] # "none") \in {0, 1}
  BY DEF One
<1>6. One(f \in free[p]) = 0 /\ One(f \in posted[p]) = 0
  BY <1>3, <1>4, <1>5
<1> QED
  BY <1>6 DEF One

\* Then those that do.  The books of q are right when what the step does to the
\* variables makes up for the calls.
Settled(F, q, c, d) ==
    /\ refs[q] \in Int /\ refs'[q] \in Int
    /\ Cardinality(posted[q]) \in Int /\ Cardinality(posted'[q]) \in Int
    /\ refs'[q] + One(c.op \in RefOps) + Cardinality(posted[q])
         = refs[q] + One(d.op \in RefOps) + Cardinality(posted'[q])
    /\ q \in dead' <=> refs'[q] = 0
    /\ \A f \in F :
          One(f \in free'[q]) + One(f \in posted'[q]) + One(d.op \in HoldOps /\ d.frame = f)
            = One(f \in free[q]) + One(f \in posted[q]) + One(c.op \in HoldOps /\ c.frame = f)
    /\ Cardinality(posted'[q]) + One(d.op \in ReadOps) <= Cardinality(posted[q]) + One(c.op \in ReadOps)

\* What the accounts of q need to be kept.
Standing(T, q) ==
    /\ Owned(T, q)' <=> Owned(T, q)
    /\ handle[q] # "none" /\ q \in 1 .. made /\ made \in Nat /\ made' = made

\* When the step makes up for the calls, the accounts stay right;
LEMMA BooksStand ==
    ASSUME NEW T, NEW F, NEW M \in Nat, NEW q,
           Standing(T, q), Books(T, F, M, q), NEW c, NEW d,
           Traded(T, F, M, q, c, d), Settled(F, q, c, d), Reads \in Int,
           lost' = lost, handle'[q] # "none"
    PROVE  Books(T, F, M, q)'
<1> DEFINE E == Items(M, F)
<1>1. One(q \in lost \/ Owned(T, q))' = One(q \in lost \/ Owned(T, q)) /\ One(q \in lost \/ Owned(T, q)) \in Nat
  BY DEF Standing, One
<1>2. q \in Nat /\ q <= made /\ made' = made /\ made \in Nat /\ handle[q] # "none"
  BY DEF Standing
<1>3. PinBook(T, F, M, q)'
  <2>1. refs[q] = Cardinality(posted[q]) + Number(todo, T, RefsOf(E, q)) + One(q \in lost \/ Owned(T, q))
    BY DEF Books, PinBook
  <2>2. /\ Number(todo, T, RefsOf(E, q)) \in Nat /\ Number(todo', T, RefsOf(E, q)) \in Nat
        /\ Number(todo', T, RefsOf(E, q)) + One(c.op \in RefOps) = Number(todo, T, RefsOf(E, q)) + One(d.op \in RefOps)
    BY DEF Traded
  <2>3. /\ refs[q] \in Int /\ refs'[q] \in Int
        /\ Cardinality(posted[q]) \in Int /\ Cardinality(posted'[q]) \in Int
        /\ refs'[q] + One(c.op \in RefOps) + Cardinality(posted[q])
             = refs[q] + One(d.op \in RefOps) + Cardinality(posted'[q])
        /\ q \in dead' <=> refs'[q] = 0
    BY DEF Settled
  <2>4. One(c.op \in RefOps) \in Int /\ One(d.op \in RefOps) \in Int
    BY DEF One
  <2> HIDE DEF E
  <2>5. refs'[q] = Cardinality(posted'[q]) + Number(todo', T, RefsOf(E, q)) + One(q \in lost \/ Owned(T, q))
    <3>1. /\ One(q \in lost \/ Owned(T, q)) \in Int
          /\ refs[q] = Cardinality(posted[q]) + Number(todo, T, RefsOf(E, q)) + One(q \in lost \/ Owned(T, q))
      BY <1>1, <2>1
    <3>2. /\ refs[q] \in Int /\ refs'[q] \in Int
          /\ Cardinality(posted[q]) \in Int /\ Cardinality(posted'[q]) \in Int
          /\ refs'[q] + One(c.op \in RefOps) + Cardinality(posted[q])
               = refs[q] + One(d.op \in RefOps) + Cardinality(posted'[q])
      BY <2>3
    <3>3. PICK x \in Int, y \in Int, o \in Int :
             /\ x = One(c.op \in RefOps) /\ y = One(d.op \in RefOps) /\ o = One(q \in lost \/ Owned(T, q))
      BY <2>4, <3>1
    <3>4. PICK m \in Int, m1 \in Int : m = Cardinality(posted[q]) /\ m1 = Cardinality(posted'[q])
      BY <3>2
    <3>5. PICK n \in Int, n1 \in Int :
             n = Number(todo, T, RefsOf(E, q)) /\ n1 = Number(todo', T, RefsOf(E, q))
      BY <2>2
    <3>6. PICK r \in Int, r1 \in Int : r = refs[q] /\ r1 = refs'[q]
      BY <3>2
    <3>7. n1 + x = n + y
      BY <2>2, <3>3, <3>5
    <3>8. r1 + x + m = r + y + m1
      BY <3>2, <3>3, <3>4, <3>6
    <3>9. r = m + n + o
      BY <3>1, <3>3, <3>4, <3>5, <3>6
    <3>10. r1 = m1 + n1 + o
      BY <3>7, <3>8, <3>9
    <3> QED
      BY <3>3, <3>4, <3>5, <3>6, <3>10
  <2> QED
    BY <1>1, <1>2, <2>3, <2>5 DEF PinBook, E
<1>4. ASSUME NEW f \in F PROVE FrameBook(T, F, M, q, f)'
  <2>1. Number(todo, T, HoldsOf(E, q, f)) + One(f \in free[q]) + One(f \in posted[q]) = One(handle[q] # "none")
    BY DEF Books, FrameBook
  <2>2. /\ Number(todo, T, HoldsOf(E, q, f)) \in Nat
        /\ Number(todo', T, HoldsOf(E, q, f)) \in Nat
        /\ Number(todo', T, HoldsOf(E, q, f)) + One(c.op \in HoldOps /\ c.frame = f)
             = Number(todo, T, HoldsOf(E, q, f)) + One(d.op \in HoldOps /\ d.frame = f)
    BY DEF Traded
  <2>3. One(f \in free'[q]) + One(f \in posted'[q]) + One(d.op \in HoldOps /\ d.frame = f)
            = One(f \in free[q]) + One(f \in posted[q]) + One(c.op \in HoldOps /\ c.frame = f)
    BY DEF Settled
  <2>4. /\ One(f \in free'[q]) \in Int /\ One(f \in posted'[q]) \in Int /\ One(d.op \in HoldOps /\ d.frame = f) \in Int
        /\ One(f \in free[q]) \in Int /\ One(f \in posted[q]) \in Int /\ One(c.op \in HoldOps /\ c.frame = f) \in Int
        /\ One(handle[q] # "none") = One(handle'[q] # "none") /\ One(handle[q] # "none") \in Int
    BY <1>2 DEF One
  <2> HIDE DEF E
  <2>5. Number(todo', T, HoldsOf(E, q, f)) + One(f \in free'[q]) + One(f \in posted'[q]) = One(handle'[q] # "none")
    <3>1. PICK x \in Int, y \in Int, h \in Int :
             /\ x = One(c.op \in HoldOps /\ c.frame = f) /\ y = One(d.op \in HoldOps /\ d.frame = f)
             /\ h = One(handle[q] # "none")
      BY <2>4
    <3>2. PICK u \in Int, v \in Int : u = One(f \in free[q]) /\ v = One(f \in posted[q])
      BY <2>4
    <3>3. PICK u1 \in Int, v1 \in Int : u1 = One(f \in free'[q]) /\ v1 = One(f \in posted'[q])
      BY <2>4
    <3>4. PICK n \in Int, n1 \in Int :
             n = Number(todo, T, HoldsOf(E, q, f)) /\ n1 = Number(todo', T, HoldsOf(E, q, f))
      BY <2>2
    <3>5. n + u + v = h
      BY <2>1, <3>1, <3>2, <3>4
    <3>6. n1 + x = n + y
      BY <2>2, <3>1, <3>4
    <3>7. u1 + v1 + y = u + v + x
      BY <2>3, <3>1, <3>2, <3>3
    <3>8. n1 + u1 + v1 = h
      BY <3>5, <3>6, <3>7
    <3> QED
      BY <2>4, <3>1, <3>3, <3>4, <3>8
  <2> QED
    BY <2>5 DEF FrameBook, E
<1>5. ReadBook(T, F, M, q)'
  <2>1. Cardinality(posted[q]) + Number(todo, T, ReadsOf(E, q)) <= Reads
    BY DEF Books, ReadBook
  <2>2. /\ Number(todo, T, ReadsOf(E, q)) \in Nat /\ Number(todo', T, ReadsOf(E, q)) \in Nat
        /\ Number(todo', T, ReadsOf(E, q)) + One(c.op \in ReadOps) = Number(todo, T, ReadsOf(E, q)) + One(d.op \in ReadOps)
    BY DEF Traded
  <2>3. /\ Cardinality(posted[q]) \in Int /\ Cardinality(posted'[q]) \in Int
        /\ Cardinality(posted'[q]) + One(d.op \in ReadOps) <= Cardinality(posted[q]) + One(c.op \in ReadOps)
    BY DEF Settled
  <2>4. One(c.op \in ReadOps) \in Int /\ One(d.op \in ReadOps) \in Int
    BY DEF One
  <2> HIDE DEF E
  <2>5. Cardinality(posted'[q]) + Number(todo', T, ReadsOf(E, q)) <= Reads
    BY <2>1, <2>2, <2>3, <2>4
  <2> QED
    BY <2>5 DEF ReadBook, E
<1> QED
  BY <1>3, <1>4, <1>5 DEF Books

\* so after the first call of a thread.
LEMMA BooksSettled ==
    ASSUME NEW T, NEW Q, NEW F, NEW M \in Nat, NEW C, NEW t, NEW b, NEW calls, NEW q,
           After(T, Q, F, M, C, t, b, calls, q), Books(T, F, M, q), NEW c, NEW d,
           Traded(T, F, M, q, c, d), Settled(F, q, c, d), Reads \in Int,
           lost' = lost, handle'[q] # "none"
    PROVE  Books(T, F, M, q)'
<1>1. Standing(T, q)
  BY DEF After, Standing
<1> QED
  BY <1>1, BooksStand

\* Whoever still wants something of a pin has a reference to it.
LEMMA Lives ==
    ASSUME NEW T, IsFiniteSet(T), NEW Q, NEW F, IsFiniteSet(F), NEW M \in Nat, NEW B, PinInv(T, Q, F, M, B),
           NEW t \in T, NEW h \in 1 .. Height(todo, t), NEW p \in 1 .. M, Item(todo, t, h).pin = p,
           Item(todo, t, h).op \in NeedOps \cup RefOps
    PROVE  refs[p] \in Nat /\ refs[p] > 0 /\ p \notin dead
<1> DEFINE E == Items(M, F)
           K == RefsOf(E, p)
<1>1. PinTypes(T, F, M) /\ PinBook(T, F, M, p)
  BY Parts DEF Books
<1>2. todo \in [T -> Seq(E)] /\ refs[p] \in Nat /\ posted[p] \in SUBSET F
  BY <1>1 DEF PinTypes
<1>3. refs[p] = Cardinality(posted[p]) + Number(todo, T, K) + One(p \in lost \/ Owned(T, p))
  BY <1>1 DEF PinBook
<1>4. /\ Number(todo, T, K) \in Nat /\ Cardinality(posted[p]) \in Nat
      /\ One(p \in lost \/ Owned(T, p)) \in Nat
  <2>1. Number(todo, T, K) \in Nat
    BY <1>2, PlacesFinite
  <2>2. Cardinality(posted[p]) \in Nat
    BY <1>2, Cards
  <2> QED
    BY <2>1, <2>2 DEF One
<1>5. ASSUME NEW k \in 1 .. Height(todo, t), Item(todo, t, k).op \in RefOps, Item(todo, t, k).pin = p
      PROVE  Number(todo, T, K) > 0
  <2>1. Item(todo, t, k) \in K
    <3>1. Item(todo, t, k) \in E
      BY <1>2, HeightIsNat
    <3> QED
      BY <1>5, <3>1 DEF RefsOf
  <2> HIDE DEF E, K
  <2> QED
    BY <1>2, <2>1, SomePlace
<1>6. CASE Item(todo, t, h).op \in RefOps
  BY <1>1, <1>2, <1>3, <1>4, <1>5, <1>6 DEF PinBook
<1>7. CASE Item(todo, t, h).op \in NeedOps
  <2>1. ReleaseBelow(todo, t, h, p) \/ Starting(todo, T, B, t, p)
    BY <1>7, Parts DEF Backed
  <2>2. CASE ReleaseBelow(todo, t, h, p)
    <3>1. PICK k \in 1 .. h - 1 : Item(todo, t, k).op = "release" /\ Item(todo, t, k).pin = p
      BY <2>2 DEF ReleaseBelow
    <3>2. k \in 1 .. Height(todo, t)
      <4>1. Height(todo, t) \in Nat
        BY <1>2, HeightIsNat
      <4> QED
        BY <4>1
    <3>3. Number(todo, T, K) > 0
      BY <1>5, <3>1, <3>2 DEF RefOps
    <3> QED
      BY <1>1, <1>2, <1>3, <1>4, <3>3 DEF PinBook
  <2>3. CASE Starting(todo, T, B, t, p)
    <3>1. Owned(T, p)
      BY <2>3 DEF Starting, Owned, Somewhere, SoloOps
    <3>2. One(p \in lost \/ Owned(T, p)) = 1
      BY <3>1 DEF One
    <3> QED
      BY <1>1, <1>2, <1>3, <1>4, <3>2 DEF PinBook
  <2> QED
    BY <2>1, <2>2, <2>3
<1> QED
  BY <1>6, <1>7

\* What the calls bring that is counted: d, or nothing.
Trade(calls, q, d) ==
    \/ d = Nothing /\ \A i \in 1 .. Len(calls) : calls[i].op \notin Counted_
    \/ \E j \in 1 .. Len(calls) : /\ d = calls[j] /\ d.pin = q
                                  /\ \A i \in 1 .. Len(calls) : i # j => calls[i].op \notin Counted_

\* The handle is left alone.
SameHandles == handle' = handle /\ users' = users /\ running' = running
SameOwner == pin' = pin /\ made' = made /\ lost' = lost
BookTypes(F, M) == /\ refs' \in [1 .. M -> Nat] /\ dead' \subseteq 1 .. made /\ dry' \in BOOLEAN
                   /\ free' \in [1 .. M -> SUBSET F] /\ posted' \in [1 .. M -> SUBSET F]

\* The types, when no handle and no owner changes.
LEMMA TypesKept ==
    ASSUME NEW T, NEW F, NEW M, PinTypes(T, F, M), SameHandles, SameOwner, BookTypes(F, M),
           todo' \in [T -> Seq(Items(M, F))]
    PROVE  PinTypes(T, F, M)'
BY DEF PinTypes, SameHandles, SameOwner, BookTypes

\* A step that changes counts, but takes no lock.
LEMMA CountedStep ==
    ASSUME NEW T, IsFiniteSet(T), NEW Q, NEW F, NEW M \in Nat, NEW B, NEW C,
           PinInv(T, Q, F, M, B), B \subseteq C, NEW t \in T, todo[t] # <<>>,
           Head(todo[t]).op \in HasPin \ ({"create", "run", "close", "pinstop"} \cup LockOps),
           NEW calls \in Seq(Items(M, F)), Do(t, calls), NEW q, q = Arg(t), CallsOf(calls, q),
           \A i \in 1 .. Len(calls) : calls[i].op \notin LockOps,
           Needless(calls) \/ Head(todo[t]).op \in NeedOps,
           NEW d, Trade(calls, q, d), Settled(F, q, Head(todo[t]), d), Reads \in Int,
           SameHandles, SameOwner, BookTypes(F, M), Elsewhere(M, q), Spare(Q, F)',
           \/ Head(todo[t]).op # "release" /\ (Releasing(T, q) => refs'[q] = refs[q])
           \/ HandleIs(T, q)'
    PROVE  PinInv(T, Q, F, M, C)'
<1>2. AtPin(T, Q, F, M, t, q) /\ Head(todo[t]).op \in HasPin \ {"create", "run"}
  BY IsAtPin
<1>3. pin' = pin /\ made' = made /\ lost' = lost /\ handle' = handle /\ users' = users /\ running' = running
  BY DEF SameHandles, SameOwner
<1>6. After(T, Q, F, M, C, t, Height(todo, t) - 1, calls, q)
  BY <1>2, <1>3, UsualDo
<1>7. PinTypes(T, F, M)'
  <2>1. PinTypes(T, F, M) /\ todo' \in [T -> Seq(Items(M, F))]
    BY <1>2, <1>6 DEF AtPin, After, Moved
  <2> QED
    BY <2>1, TypesKept
<1>8. Books(T, F, M, q)'
  <2>1. Traded(T, F, M, q, Head(todo[t]), d)
    BY <1>6, TradesOne DEF Trade
  <2>2. Books(T, F, M, q) /\ handle'[q] # "none"
    BY <1>2, <1>3, <1>6 DEF AtPin, After
  <2> QED
    BY <1>3, <1>6, <2>1, <2>2, BooksSettled
<1>9. LockPlaces(todo, T)' /\ Locked(todo, T, M)'
  <2>1. \A h \in Height(todo, t) - 1 + 1 .. Height(todo, t) : h = Height(todo, t)
    BY <1>6 DEF After
  <2>2. \A h \in Height(todo, t) - 1 + 1 .. Height(todo, t) : Item(todo, t, h).op \notin LockOps
    BY <1>6, <2>1 DEF After
  <2>3. /\ Moved(T, F, M, t, Height(todo, t) - 1, calls) /\ LockPlaces(todo, T) /\ Locked(todo, T, M)
        /\ Height(todo, t) - 1 < Height(todo, t)
    BY <1>2, <1>6 DEF AtPin, After
  <2> QED
    BY <1>3, <2>2, <2>3, LocksQuiet
<1>10. HandleIs(T, q)'
  <2>1. CASE Head(todo[t]).op # "release" /\ (Releasing(T, q) => refs'[q] = refs[q])
    <3>1. WillClose(T, q) => WillClose(T, q)'
      BY <1>6, <2>1, WillCloseAfter
    <3>2. Owned(T, q)' <=> Owned(T, q)
      BY <1>6 DEF After
    <3> QED
      BY <1>2, <1>3, <3>1, <3>2 DEF AtPin, HandleIs
  <2> QED
    BY <2>1
<1> QED
  BY <1>6, <1>7, <1>8, <1>9, <1>10, WholeSpare

\* And the books of its pin.
AtTop(F, M, t, q) ==
    /\ Height(todo, t) \in 1 .. Height(todo, t) /\ Item(todo, t, Height(todo, t)) = Head(todo[t])
    /\ Height(todo, t) \in Nat
    /\ q <= made /\ q \in Nat /\ made \in Nat /\ made <= M /\ (q \in dead <=> refs[q] = 0) /\ refs[q] \in Nat
    /\ posted[q] \in SUBSET F /\ Cardinality(posted[q]) \in Nat /\ free[q] \in SUBSET F

\* What the accounts say of the pin at hand.
LEMMA AtBooks ==
    ASSUME NEW T, NEW Q, NEW F, IsFiniteSet(F), NEW M \in Nat, NEW B, PinInv(T, Q, F, M, B), NEW t \in T,
           NEW q, AtPin(T, Q, F, M, t, q), Head(todo[t]).op \in HasPin
    PROVE  AtTop(F, M, t, q)
<1>1. PinTypes(T, F, M) /\ Books(T, F, M, q) /\ q = Head(todo[t]).pin /\ todo[t] # <<>> /\ q \in 1 .. M
  BY DEF AtPin
<1>2. /\ Height(todo, t) \in 1 .. Height(todo, t) /\ Item(todo, t, Height(todo, t)) = Head(todo[t])
      /\ Height(todo, t) \in Nat
  BY <1>1, Top
<1>3. q <= made
  <2>1. Known(todo, T)
    BY Parts
  <2> QED
    BY <1>1, <1>2, <2>1 DEF Known, HasPin
<1>4. q \in dead <=> refs[q] = 0
  BY <1>1, <1>3 DEF Books, PinBook
<1>5. refs[q] \in Nat /\ posted[q] \in SUBSET F /\ free[q] \in SUBSET F /\ made \in Nat /\ made <= M
  BY <1>1 DEF PinTypes
<1>6. Cardinality(posted[q]) \in Nat
  BY <1>5, CardNat
<1> QED
  BY <1>1, <1>2, <1>3, <1>4, <1>5, <1>6 DEF AtTop

\* The frame goes back to the free ones.
LEMMA PushStep ==
    ASSUME NEW T, IsFiniteSet(T), NEW Q, NEW F, IsFiniteSet(F), NEW M \in Nat, NEW B, NEW C, Reads \in Int,
           PinInv(T, Q, F, M, B), B \subseteq C, NEW t \in T, PushFrame(t)
    PROVE  PinInv(T, Q, F, M, C)'
<1>0. PICK q : q = Arg(t)
  OBVIOUS
<1>00. PICK f : f = Frame(t)
  OBVIOUS
<1>000. PICK c : c = Head(todo[t])
  OBVIOUS
<1>1. AtPin(T, Q, F, M, t, q) /\ todo[t] # <<>> /\ c.op = "push" /\ q \in 1 .. M
  BY <1>0, <1>000, AtCall DEF PushFrame, HasPin, FrameOps
<1>2. /\ PinTypes(T, F, M) /\ Books(T, F, M, q) /\ f \in F /\ f = c.frame /\ q = c.pin
  BY <1>00, <1>000, <1>1 DEF AtPin, FrameOps
<1>3. /\ free' = [free EXCEPT ![q] = @ \cup {f}] /\ Do(t, <<>>)
      /\ UNCHANGED <<pin, made, handle, users, refs, running, posted, dead, lost, dry>>
  BY <1>0, <1>00 DEF PushFrame
<1>9. /\ Height(todo, t) \in 1 .. Height(todo, t) /\ Item(todo, t, Height(todo, t)) = c
      /\ (q \in dead <=> refs[q] = 0) /\ Cardinality(posted[q]) \in Nat
  <2>1. Head(todo[t]).op \in HasPin
    BY <1>000, <1>1 DEF HasPin, FrameOps
  <2>2. AtTop(F, M, t, q)
    BY <1>1, <2>1, AtBooks
  <2> QED
    BY <1>000, <2>2 DEF AtTop
<1>4. f \notin free[q] /\ f \notin posted[q]
  <2>1. Height(todo, t) \in 1 .. Height(todo, t) /\ Item(todo, t, Height(todo, t)) = c
    BY <1>000, <1>9
  <2>2. FrameBook(T, F, M, q, f)
    BY <1>2 DEF Books
  <2> QED
    BY <1>1, <1>2, <2>1, <2>2, Held DEF HoldOps
<1>5. SameHandles /\ SameOwner /\ BookTypes(F, M) /\ Elsewhere(M, q) /\ Spare(Q, F)'
  BY <1>1, <1>2, <1>3 DEF SameHandles, SameOwner, BookTypes, Elsewhere, AtPin, PinTypes, Spare
<1>6. Settled(F, q, c, Nothing)
  <2>1. /\ refs[q] \in Int /\ refs'[q] = refs[q] /\ posted'[q] = posted[q] /\ free'[q] = free[q] \cup {f}
        /\ posted[q] \in SUBSET F
    BY <1>1, <1>2, <1>3 DEF PinTypes
  <2>2. Cardinality(posted[q]) \in Int
    BY <1>9
  <2>3. /\ One(c.op \in RefOps) = 0 /\ One(Nothing.op \in RefOps) = 0
        /\ One(c.op \in ReadOps) = 0 /\ One(Nothing.op \in ReadOps) = 0
    BY <1>1 DEF One, RefOps, ReadOps, Nothing
  <2>4. ASSUME NEW g \in F
        PROVE  One(g \in free'[q]) + One(g \in posted'[q]) + One(Nothing.op \in HoldOps /\ Nothing.frame = g)
                 = One(g \in free[q]) + One(g \in posted[q]) + One(c.op \in HoldOps /\ c.frame = g)
    BY <1>1, <1>2, <1>4, <2>1 DEF One, HoldOps, Nothing
  <2>5. q \in dead' <=> refs'[q] = 0
    BY <1>3, <1>9
  <2> QED
    BY <2>1, <2>2, <2>3, <2>4, <2>5 DEF Settled
<1>7. /\ <<>> \in Seq(Items(M, F)) /\ CallsOf(<<>>, q) /\ Needless(<<>>) /\ Trade(<<>>, q, Nothing)
      /\ \A i \in 1 .. Len(<<>>) : <<>>[i].op \notin LockOps
  BY NoCalls DEF Trade
<1>8. c.op \in HasPin \ ({"create", "run", "close", "pinstop"} \cup LockOps) /\ c.op # "release"
  BY <1>1 DEF HasPin, FrameOps, LockOps
<1> QED
  BY <1>0, <1>000, <1>1, <1>3, <1>5, <1>6, <1>7, <1>8, CountedStep

\* The calls a program makes when a read failed, or when a pin is destroyed: they
\* close the pin, but want nothing else of it.
QuietCalls(x, M, F, q) ==
    /\ x \in Seq(Items(M, F)) /\ CallsOf(x, q) /\ Needless(x)
    /\ \A i \in 1 .. Len(x) : x[i].op \notin Counted_ \cup LockOps

\* Calls of which only the last one is counted.
EndsWith(y, M, F, q, r) ==
    /\ y \in Seq(Items(M, F)) /\ CallsOf(y, q) /\ Needless(y)
    /\ \A i \in 1 .. Len(y) : y[i].op \notin LockOps
    /\ Len(y) \in 1 .. Len(y) /\ y[Len(y)] = r
    /\ \A i \in 1 .. Len(y) : i # Len(y) => y[i].op \notin Counted_

\* Quiet calls followed by one that is counted.
LEMMA QuietThen ==
    ASSUME NEW M, NEW F, NEW q \in 1 .. M, NEW x, QuietCalls(x, M, F, q),
           NEW r \in Items(M, F), r.pin = q,
           r.op \notin SoloOps \cup NeedOps \cup LockOps \cup {"push", "process"},
           NEW y, y = x \o <<r>>
    PROVE  EndsWith(y, M, F, q, r)
<1>1. x \in Seq(Items(M, F)) /\ <<r>> \in Seq(Items(M, F))
  BY DEF QuietCalls
<1>2. /\ y \in Seq(Items(M, F)) /\ Len(y) = Len(x) + 1 /\ Len(x) \in Nat /\ y[Len(y)] = r
      /\ \A i \in 1 .. Len(x) : y[i] = x[i]
  BY <1>1
<1>3. \A i \in 1 .. Len(y) : (i = Len(y) /\ y[i] = r) \/ (i \in 1 .. Len(x) /\ y[i] = x[i])
  BY <1>2
<1>4. CallsOf(y, q)
  BY <1>3 DEF CallsOf, QuietCalls
<1>5. Needless(y)
  BY <1>3 DEF Needless, QuietCalls
<1>6. \A i \in 1 .. Len(y) : y[i].op \notin LockOps
  BY <1>3 DEF QuietCalls
<1>7. \A i \in 1 .. Len(y) : i # Len(y) => y[i].op \notin Counted_
  BY <1>3 DEF QuietCalls
<1> QED
  BY <1>2, <1>4, <1>5, <1>6, <1>7 DEF EndsWith

\* A read failed: its frame is given back and its reference dropped.
LEMMA ReadFailedStep ==
    ASSUME NEW T, IsFiniteSet(T), NEW Q, NEW F, IsFiniteSet(F), NEW M \in Nat, NEW B, NEW C, Reads \in Int,
           PinInv(T, Q, F, M, B), B \subseteq C, NEW t \in T, NEW failed,
           QuietCalls(failed, M, F, Arg(t)), ReadFailed(t, failed)
    PROVE  PinInv(T, Q, F, M, C)'
<1>0. PICK q : q = Arg(t)
  OBVIOUS
<1>00. PICK f : f = Frame(t)
  OBVIOUS
<1>000. PICK c : c = Head(todo[t])
  OBVIOUS
<1>0000. PICK d : d = On("release", q)
  OBVIOUS
<1>1. AtPin(T, Q, F, M, t, q) /\ todo[t] # <<>> /\ c.op = "fail" /\ q \in 1 .. M
  BY <1>0, <1>000, AtCall DEF ReadFailed, HasPin, FrameOps
<1>2. /\ PinTypes(T, F, M) /\ Books(T, F, M, q) /\ f \in F /\ f = c.frame /\ q = c.pin
  BY <1>00, <1>000, <1>1 DEF AtPin, FrameOps
<1>3. PICK y : y = failed \o <<d>>
  OBVIOUS
<1>4. /\ free' = [free EXCEPT ![q] = @ \cup {f}] /\ Do(t, y)
      /\ UNCHANGED <<pin, made, handle, users, refs, running, posted, dead, lost, dry>>
  BY <1>0, <1>00, <1>0000, <1>3 DEF ReadFailed
<1>9. /\ Height(todo, t) \in 1 .. Height(todo, t) /\ Item(todo, t, Height(todo, t)) = c
      /\ (q \in dead <=> refs[q] = 0) /\ Cardinality(posted[q]) \in Nat
  <2>1. Head(todo[t]).op \in HasPin
    BY <1>000, <1>1 DEF HasPin, FrameOps
  <2>2. AtTop(F, M, t, q)
    BY <1>1, <2>1, AtBooks
  <2> QED
    BY <1>000, <2>2 DEF AtTop
<1>5. f \notin free[q] /\ f \notin posted[q]
  <2>1. Height(todo, t) \in 1 .. Height(todo, t) /\ Item(todo, t, Height(todo, t)) = c
    BY <1>000, <1>9
  <2>2. FrameBook(T, F, M, q, f)
    BY <1>2 DEF Books
  <2> QED
    BY <1>1, <1>2, <2>1, <2>2, Held DEF HoldOps
<1>6. SameHandles /\ SameOwner /\ BookTypes(F, M) /\ Elsewhere(M, q) /\ Spare(Q, F)'
  BY <1>1, <1>2, <1>4 DEF SameHandles, SameOwner, BookTypes, Elsewhere, AtPin, PinTypes, Spare
<1>10. d \in Items(M, F) /\ d.op = "release" /\ d.pin = q
  BY <1>1, <1>0000, OnItem, OnIs DEF PinOps
<1>7. Settled(F, q, c, d)
  <2>1. /\ refs[q] \in Int /\ refs'[q] = refs[q] /\ posted'[q] = posted[q] /\ free'[q] = free[q] \cup {f}
        /\ posted[q] \in SUBSET F
    BY <1>1, <1>2, <1>4 DEF PinTypes
  <2>2. Cardinality(posted[q]) \in Int
    BY <1>9
  <2>3. /\ One(c.op \in RefOps) = 1 /\ One(d.op \in RefOps) = 1
        /\ One(c.op \in ReadOps) = 1 /\ One(d.op \in ReadOps) = 0
    BY <1>1, <1>10 DEF One, RefOps, ReadOps
  <2>4. ASSUME NEW g \in F
        PROVE  One(g \in free'[q]) + One(g \in posted'[q]) + One(d.op \in HoldOps /\ d.frame = g)
                 = One(g \in free[q]) + One(g \in posted[q]) + One(c.op \in HoldOps /\ c.frame = g)
    BY <1>1, <1>2, <1>5, <1>10, <2>1 DEF One, HoldOps
  <2>5. q \in dead' <=> refs'[q] = 0
    BY <1>4, <1>9
  <2> QED
    BY <2>1, <2>2, <2>3, <2>4, <2>5 DEF Settled
<1>8. /\ y \in Seq(Items(M, F)) /\ CallsOf(y, q) /\ Needless(y) /\ Trade(y, q, d)
      /\ \A i \in 1 .. Len(y) : y[i].op \notin LockOps
  <2>1. d.op \notin SoloOps \cup NeedOps \cup LockOps \cup {"push", "process"}
    BY <1>10 DEF SoloOps, NeedOps, LockOps
  <2>2. QuietCalls(failed, M, F, q)
    BY <1>0
  <2>3. EndsWith(y, M, F, q, d)
    BY <1>1, <1>3, <1>10, <2>1, <2>2, QuietThen
  <2> QED
    BY <1>10, <2>3 DEF Trade, EndsWith
<1>11. c.op \in HasPin \ ({"create", "run", "close", "pinstop"} \cup LockOps) /\ c.op # "release"
  BY <1>1 DEF HasPin, FrameOps, LockOps
<1>12. Releasing(T, q) => refs'[q] = refs[q]
  BY <1>4
<1> QED
  BY <1>0, <1>000, <1>1, <1>4, <1>6, <1>7, <1>8, <1>11, <1>12, CountedStep

\* The request could not be made.
LEMMA NoRequestStep ==
    ASSUME NEW T, IsFiniteSet(T), NEW Q, NEW F, IsFiniteSet(F), NEW M \in Nat, NEW B, NEW C, Reads \in Int,
           PinInv(T, Q, F, M, B), B \subseteq C, NEW t \in T, NEW failed,
           QuietCalls(failed, M, F, Arg(t)), NoRequest(t, failed)
    PROVE  PinInv(T, Q, F, M, C)'
<1>0. PICK q : q = Arg(t)
  OBVIOUS
<1>000. PICK c : c = Head(todo[t])
  OBVIOUS
<1>1. AtPin(T, Q, F, M, t, q) /\ todo[t] # <<>> /\ c.op = "read" /\ q \in 1 .. M
  BY <1>0, <1>000, AtCall DEF NoRequest, HasPin, PinOps
<1>2. /\ PinTypes(T, F, M) /\ Books(T, F, M, q) /\ q = c.pin
  BY <1>000, <1>1 DEF AtPin
<1>4. /\ Do(t, failed)
      /\ UNCHANGED <<pin, made, handle, users, refs, running, free, posted, dead, lost, dry>>
  BY DEF NoRequest
<1>9. (q \in dead <=> refs[q] = 0) /\ Cardinality(posted[q]) \in Nat
  <2>1. Head(todo[t]).op \in HasPin
    BY <1>000, <1>1 DEF HasPin, PinOps
  <2>2. AtTop(F, M, t, q)
    BY <1>1, <2>1, AtBooks
  <2> QED
    BY <1>000, <2>2 DEF AtTop
<1>6. SameHandles /\ SameOwner /\ BookTypes(F, M) /\ Elsewhere(M, q) /\ Spare(Q, F)'
  BY <1>1, <1>2, <1>4 DEF SameHandles, SameOwner, BookTypes, Elsewhere, AtPin, PinTypes, Spare
<1>7. Settled(F, q, c, Nothing)
  <2>1. /\ refs[q] \in Int /\ refs'[q] = refs[q] /\ posted'[q] = posted[q] /\ free'[q] = free[q]
    BY <1>1, <1>2, <1>4 DEF PinTypes
  <2>2. Cardinality(posted[q]) \in Int
    BY <1>9
  <2>3. /\ One(c.op \in RefOps) = 0 /\ One(Nothing.op \in RefOps) = 0
        /\ One(c.op \in ReadOps) = 1 /\ One(Nothing.op \in ReadOps) = 0
    BY <1>1 DEF One, RefOps, ReadOps, Nothing
  <2>4. ASSUME NEW g \in F
        PROVE  One(g \in free'[q]) + One(g \in posted'[q]) + One(Nothing.op \in HoldOps /\ Nothing.frame = g)
                 = One(g \in free[q]) + One(g \in posted[q]) + One(c.op \in HoldOps /\ c.frame = g)
    BY <1>1, <2>1 DEF One, HoldOps, Nothing
  <2>5. q \in dead' <=> refs'[q] = 0
    BY <1>4, <1>9
  <2> QED
    BY <2>1, <2>2, <2>3, <2>4, <2>5 DEF Settled
<1>8. /\ failed \in Seq(Items(M, F)) /\ CallsOf(failed, q) /\ Needless(failed) /\ Trade(failed, q, Nothing)
      /\ \A i \in 1 .. Len(failed) : failed[i].op \notin LockOps
  BY <1>0 DEF QuietCalls, Trade
<1>11. c.op \in HasPin \ ({"create", "run", "close", "pinstop"} \cup LockOps) /\ c.op # "release"
  BY <1>1 DEF HasPin, PinOps, LockOps
<1>12. Releasing(T, q) => refs'[q] = refs[q]
  BY <1>4
<1> QED
  BY <1>0, <1>000, <1>1, <1>4, <1>6, <1>7, <1>8, <1>11, <1>12, CountedStep

\* Read.  When there is a buffer for every thread that completes reads, there is one.
LEMMA Imaged ==
    ASSUME NEW S, IsFiniteSet(S), NEW g, NEW R, R = {g[x] : x \in S}
    PROVE  IsFiniteSet(R) /\ Cardinality(R) <= Cardinality(S)
<1> DEFINE h == [x \in S |-> g[x]]
<1>1. h \in Surjection(S, R)
  BY DEF Surjection
<1> QED
  BY <1>1, FS_Surjection

\* A set of two parts,
LEMMA TwoParts ==
    ASSUME NEW Y, IsFiniteSet(Y), NEW Z, IsFiniteSet(Z), NEW X, X = Y \cup Z
    PROVE  IsFiniteSet(X) /\ Cardinality(X) <= Cardinality(Y) + Cardinality(Z) /\ Cardinality(X) \in Nat
<1>1. IsFiniteSet(Y \cap Z)
  BY FS_Subset
<1>2. Cardinality(Y) \in Nat /\ Cardinality(Z) \in Nat
  BY FS_CardinalityType
<1>3. Cardinality(Y \cap Z) \in Nat
  BY <1>1, FS_CardinalityType
<1>4. PICK y : y = Cardinality(Y)
  OBVIOUS
<1>5. PICK z : z = Cardinality(Z)
  OBVIOUS
<1>6. PICK i : i = Cardinality(Y \cap Z)
  OBVIOUS
<1>7. IsFiniteSet(X) /\ Cardinality(X) = y + z - i
  BY <1>4, <1>5, <1>6, FS_Union
<1>8. y \in Nat /\ z \in Nat /\ i \in Nat
  BY <1>2, <1>3, <1>4, <1>5, <1>6
<1>9. Cardinality(X) \in Nat
  BY <1>7, FS_CardinalityType
<1>10. y + z - i <= y + z
  BY <1>8
<1> QED
  BY <1>4, <1>5, <1>7, <1>9, <1>10

\* and of three.
LEMMA ThreeParts ==
    ASSUME NEW X, IsFiniteSet(X), NEW Y, IsFiniteSet(Y), NEW Z, IsFiniteSet(Z), NEW F, F \subseteq X \cup (Y \cup Z)
    PROVE  Cardinality(F) <= Cardinality(X) + (Cardinality(Y) + Cardinality(Z))
<1>1. PICK V : V = Y \cup Z
  OBVIOUS
<1>2. PICK W : W = X \cup V
  OBVIOUS
<1>3. IsFiniteSet(V) /\ Cardinality(V) <= Cardinality(Y) + Cardinality(Z) /\ Cardinality(V) \in Nat
  BY <1>1, TwoParts
<1>4. IsFiniteSet(W) /\ Cardinality(W) <= Cardinality(X) + Cardinality(V) /\ Cardinality(W) \in Nat
  BY <1>2, <1>3, TwoParts
<1>5. Cardinality(F) <= Cardinality(W) /\ Cardinality(F) \in Nat
  <2>1. F \in SUBSET W
    BY <1>1, <1>2
  <2>2. IsFiniteSet(F)
    BY <1>4, <2>1, FS_Subset
  <2> QED
    BY <1>4, <2>1, <2>2, FS_Subset, FS_CardinalityType
<1>6. Cardinality(X) \in Nat /\ Cardinality(Y) \in Nat /\ Cardinality(Z) \in Nat
  BY FS_CardinalityType
<1> QED
  BY <1>3, <1>4, <1>5, <1>6

\* The buffers that are not free.
LEMMA FrameIsSomewhere ==
    ASSUME NEW T, IsFiniteSet(T), NEW Q, NEW F, NEW M \in Nat, NEW B, PinInv(T, Q, F, M, B),
           NEW q \in 1 .. M, handle[q] # "none", free[q] = {}, NEW f \in F, f \notin posted[q]
    PROVE  \E u \in T : \E h \in 1 .. Height(todo, u) :
              /\ Item(todo, u, h).op \in HoldOps /\ Item(todo, u, h).pin = q /\ Item(todo, u, h).frame = f
              /\ Item(todo, u, h) \in Items(M, F)
              /\ Item(todo, u, h).op = "push" => h = 2 /\ u \in Q
<1>1. PinTypes(T, F, M) /\ Books(T, F, M, q) /\ Filled(todo, T, Q)
  BY Parts
<1>2. PICK K : K = HoldsOf(Items(M, F), q, f)
  OBVIOUS
<1>3. todo \in [T -> Seq(Items(M, F))]
  BY <1>1 DEF PinTypes
<1>4. Number(todo, T, K) \in Nat
  BY <1>3, PlacesFinite
<1>5. Number(todo, T, K) = 1
  <2>1. FrameBook(T, F, M, q, f)
    BY <1>1 DEF Books
  <2> QED
    BY <1>2, <1>4, <2>1 DEF FrameBook, One
<1>6. \E u \in T : \E h \in 1 .. Height(todo, u) : Item(todo, u, h) \in K
  BY <1>3, <1>5, SomePlace, SMTT(30)
<1> QED
  BY <1>1, <1>2, <1>6 DEF HoldsOf, Filled

\* A thread that reads finds a free frame, when there are enough.
LEMMA NotDry ==
    ASSUME NEW T, IsFiniteSet(T), NEW Q, IsFiniteSet(Q), NEW F, IsFiniteSet(F), NEW M \in Nat, NEW B,
           Reads \in Int, PinInv(T, Q, F, M, B), NEW q \in 1 .. M, free[q] = {}, handle[q] # "none",
           NEW t \in T, NEW n \in 1 .. Height(todo, t), Item(todo, t, n).op = "read", Item(todo, t, n).pin = q
    PROVE  ~(Cardinality(Q) + Reads <= Cardinality(F))
<1>1. PinTypes(T, F, M) /\ Books(T, F, M, q)
  BY Parts
<1>2. todo \in [T -> Seq(Items(M, F))] /\ posted[q] \in SUBSET F
  BY <1>1 DEF PinTypes
<1>3. PICK K : K = ReadsOf(Items(M, F), q)
  OBVIOUS
<1>4. PICK P : P = PlacesOf(todo, T, K)
  OBVIOUS
<1>5. IsFiniteSet(P) /\ Cardinality(P) \in Nat /\ Cardinality(posted[q]) + Cardinality(P) <= Reads
  <2>1. ReadBook(T, F, M, q)
    BY <1>1 DEF Books
  <2> QED
    BY <1>2, <1>3, <1>4, <2>1, PlacesFinite DEF ReadBook, Number
<1>6. Item(todo, t, n) \in K
  <2>1. Item(todo, t, n) \in Items(M, F)
    BY <1>2, HeightIsNat
  <2> QED
    BY <1>3, <2>1 DEF ReadsOf, ReadOps
<1>7. <<t, n>> \in P
  BY <1>4, <1>6, InPlaces
<1>8. PICK P1 : P1 = P \ {<<t, n>>}
  OBVIOUS
<1>9. IsFiniteSet(P1) /\ Cardinality(P1) = Cardinality(P) - 1
  BY <1>5, <1>7, <1>8, FS_RemoveElement
<1>10. PICK g : g = [x \in P1 |-> Item(todo, x[1], x[2]).frame]
  OBVIOUS
<1>11. PICK k : k = [u \in Q |-> Item(todo, u, 2).frame]
  OBVIOUS
<1>12. PICK G : G = {g[x] : x \in P1}
  OBVIOUS
<1>13. PICK H : H = {k[u] : u \in Q}
  OBVIOUS
<1>14. F \subseteq posted[q] \cup (G \cup H)
  <2> SUFFICES ASSUME NEW f \in F, f \notin posted[q]
               PROVE  f \in G \cup H
    OBVIOUS
  <2>1. PICK u \in T : \E h \in 1 .. Height(todo, u) :
              /\ Item(todo, u, h).op \in HoldOps /\ Item(todo, u, h).pin = q /\ Item(todo, u, h).frame = f
              /\ Item(todo, u, h) \in Items(M, F)
              /\ Item(todo, u, h).op = "push" => h = 2 /\ u \in Q
    BY FrameIsSomewhere
  <2>2. PICK h \in 1 .. Height(todo, u) :
              /\ Item(todo, u, h).op \in HoldOps /\ Item(todo, u, h).pin = q /\ Item(todo, u, h).frame = f
              /\ Item(todo, u, h) \in Items(M, F)
              /\ Item(todo, u, h).op = "push" => h = 2 /\ u \in Q
    BY <2>1
  <2>3. CASE Item(todo, u, h).op = "push"
    <3>1. u \in Q /\ k[u] = f
      BY <1>11, <2>2, <2>3
    <3> QED
      BY <1>13, <3>1
  <2>4. CASE Item(todo, u, h).op # "push"
    <3>1. Item(todo, u, h) \in K
      BY <1>3, <2>2, <2>4 DEF ReadsOf, ReadOps, HoldOps
    <3>2. <<u, h>> \in P
      BY <1>4, <3>1, InPlaces
    <3>3. <<u, h>> # <<t, n>>
      BY <2>2 DEF HoldOps
    <3>4. <<u, h>> \in P1
      BY <1>8, <3>2, <3>3
    <3>5. g[<<u, h>>] = f
      BY <1>10, <2>2, <3>4
    <3> QED
      BY <1>12, <3>4, <3>5
  <2> QED
    BY <2>3, <2>4
<1>15. IsFiniteSet(G) /\ Cardinality(G) <= Cardinality(P1)
  BY <1>9, <1>12, Imaged
<1>16. IsFiniteSet(H) /\ Cardinality(H) <= Cardinality(Q)
  BY <1>13, Imaged
<1>17. IsFiniteSet(posted[q])
  BY <1>2, FS_Subset
<1>18. Cardinality(F) <= Cardinality(posted[q]) + (Cardinality(G) + Cardinality(H))
  BY <1>14, <1>15, <1>16, <1>17, ThreeParts
<1>19. /\ Cardinality(F) \in Nat /\ Cardinality(posted[q]) \in Nat /\ Cardinality(G) \in Nat
       /\ Cardinality(H) \in Nat /\ Cardinality(Q) \in Nat
  BY <1>15, <1>16, <1>17, FS_CardinalityType
<1>20. Cardinality(P1) \in Int
  BY <1>5, <1>9
<1> QED
  BY <1>5, <1>9, <1>15, <1>16, <1>18, <1>19, <1>20

\* Nor is it dropping the last one, when somebody else is about to drop one.
LEMMA NotReleasing ==
    ASSUME NEW T, IsFiniteSet(T), NEW Q, NEW F, IsFiniteSet(F), NEW M \in Nat, NEW B, PinInv(T, Q, F, M, B),
           NEW t \in T, NEW h \in 1 .. Height(todo, t), NEW p \in 1 .. M, Item(todo, t, h).pin = p,
           Item(todo, t, h).op \in NeedOps
    PROVE  ~Releasing(T, p)
<1> SUFFICES ASSUME Releasing(T, p)
             PROVE  FALSE
  OBVIOUS
<1> DEFINE E == Items(M, F)
           K == RefsOf(E, p)
<1>1. PinTypes(T, F, M) /\ PinBook(T, F, M, p)
  BY Parts DEF Books
<1>2. todo \in [T -> Seq(E)] /\ refs[p] \in Nat /\ posted[p] \in SUBSET F
  BY <1>1 DEF PinTypes
<1>3. refs[p] = Cardinality(posted[p]) + Number(todo, T, K) + One(p \in lost \/ Owned(T, p))
  BY <1>1 DEF PinBook
<1>4. /\ Number(todo, T, K) \in Nat /\ Cardinality(posted[p]) \in Nat
      /\ One(p \in lost \/ Owned(T, p)) \in Nat
  <2>1. Number(todo, T, K) \in Nat
    BY <1>2, PlacesFinite
  <2>2. Cardinality(posted[p]) \in Nat
    BY <1>2, Cards
  <2> QED
    BY <2>1, <2>2 DEF One
<1>5. PICK u \in T : Height(todo, u) > 0 /\ Item(todo, u, Height(todo, u)).op = "release"
                     /\ Item(todo, u, Height(todo, u)).pin = p
  BY DEF Releasing
<1>6. \A w \in T : \A k \in 1 .. Height(todo, w) : Item(todo, w, k) \in E
  BY <1>2, HeightIsNat
<1>7. \A w \in T : Height(todo, w) \in Nat
  BY <1>2, HeightIsNat
<1>8. PICK n : n = Height(todo, u)
  OBVIOUS
<1>9. n \in 1 .. Height(todo, u)
  BY <1>5, <1>7, <1>8
<1>10. Item(todo, u, n) \in K
  BY <1>5, <1>6, <1>8, <1>9 DEF RefsOf, RefOps
<1>11. ReleaseBelow(todo, t, h, p) \/ Starting(todo, T, B, t, p)
  BY Parts DEF Backed
<1>12. CASE ReleaseBelow(todo, t, h, p)
  <2>1. PICK k \in 1 .. h - 1 : Item(todo, t, k).op = "release" /\ Item(todo, t, k).pin = p
    BY <1>12 DEF ReleaseBelow
  <2>2. k \in 1 .. Height(todo, t) /\ (t = u => k # n)
    BY <1>7, <1>8
  <2>3. Item(todo, t, k) \in K
    BY <1>6, <2>1, <2>2 DEF RefsOf, RefOps
  <2> HIDE DEF K
  <2>4. Number(todo, T, K) > 1
    BY <1>2, <1>9, <1>10, <2>2, <2>3, TwoPlaces
  <2>5. refs[p] = 1
    BY DEF Releasing
  <2> QED
    BY <1>3, <1>4, <2>4, <2>5
<1>13. CASE Starting(todo, T, B, t, p)
  <2>1. Owned(T, p)
    BY <1>13 DEF Starting, Owned, Somewhere, SoloOps
  <2>2. One(p \in lost \/ Owned(T, p)) = 1
    BY <2>1 DEF One
  <2> HIDE DEF K
  <2>3. Number(todo, T, K) > 0
    BY <1>2, <1>9, <1>10, SomePlace
  <2>4. refs[p] = 1
    BY DEF Releasing
  <2> QED
    BY <1>3, <1>4, <2>2, <2>3, <2>4
<1> QED
  BY <1>11, <1>12, <1>13

\* Read without a free frame,
LEMMA ReadDry ==
    ASSUME NEW T, IsFiniteSet(T), NEW Q, IsFiniteSet(Q), NEW F, IsFiniteSet(F), NEW M \in Nat, NEW B, NEW C,
           Reads \in Int, PinInv(T, Q, F, M, B), B \subseteq C, NEW t \in T, At(t, "read"),
           NEW q, q = Arg(t), free[q] = {}, dry' = TRUE, Do(t, <<>>),
           UNCHANGED <<pin, made, handle, users, refs, running, free, posted, dead, lost>>
    PROVE  PinInv(T, Q, F, M, C)'
<1>000. PICK c : c = Head(todo[t])
  OBVIOUS
<1>1. AtPin(T, Q, F, M, t, q) /\ todo[t] # <<>> /\ c.op = "read" /\ q \in 1 .. M
  BY <1>000, AtCall DEF HasPin, PinOps
<1>2. /\ PinTypes(T, F, M) /\ Books(T, F, M, q) /\ q = c.pin
  BY <1>000, <1>1 DEF AtPin
<1>9. /\ (q \in dead <=> refs[q] = 0) /\ Cardinality(posted[q]) \in Nat
      /\ Height(todo, t) \in 1 .. Height(todo, t) /\ Item(todo, t, Height(todo, t)) = c
  <2>1. Head(todo[t]).op \in HasPin
    BY <1>000, <1>1 DEF HasPin, PinOps
  <2>2. AtTop(F, M, t, q)
    BY <1>1, <2>1, AtBooks
  <2> QED
    BY <1>000, <2>2 DEF AtTop
<1>3. handle[q] # "none"
  <2>1. Known(todo, T)
    BY Parts
  <2> QED
    BY <1>1, <1>2, <1>9, <2>1 DEF Known, PinOps
<1>4. ~(Cardinality(Q) + Reads <= Cardinality(F))
  BY <1>1, <1>2, <1>3, <1>9, NotDry
<1>5. SameHandles /\ SameOwner /\ Elsewhere(M, q)
  BY <1>1, <1>2 DEF SameHandles, SameOwner, Elsewhere
<1>6. BookTypes(F, M)
  BY <1>2 DEF BookTypes, PinTypes
<1>13. Spare(Q, F)'
  BY <1>4 DEF Spare
<1>7. Settled(F, q, c, Nothing)
  <2>1. /\ refs[q] \in Int /\ refs'[q] = refs[q] /\ posted'[q] = posted[q] /\ free'[q] = free[q]
    BY <1>1, <1>2 DEF PinTypes
  <2>2. Cardinality(posted[q]) \in Int
    BY <1>9
  <2>3. /\ One(c.op \in RefOps) = 0 /\ One(Nothing.op \in RefOps) = 0
        /\ One(c.op \in ReadOps) = 1 /\ One(Nothing.op \in ReadOps) = 0
    BY <1>1 DEF One, RefOps, ReadOps, Nothing
  <2>4. ASSUME NEW g \in F
        PROVE  One(g \in free'[q]) + One(g \in posted'[q]) + One(Nothing.op \in HoldOps /\ Nothing.frame = g)
                 = One(g \in free[q]) + One(g \in posted[q]) + One(c.op \in HoldOps /\ c.frame = g)
    BY <1>1, <2>1 DEF One, HoldOps, Nothing
  <2>5. q \in dead' <=> refs'[q] = 0
    BY <1>9
  <2> QED
    BY <2>1, <2>2, <2>3, <2>4, <2>5 DEF Settled
<1>8. /\ <<>> \in Seq(Items(M, F)) /\ CallsOf(<<>>, q) /\ Needless(<<>>) /\ Trade(<<>>, q, Nothing)
      /\ \A i \in 1 .. Len(<<>>) : <<>>[i].op \notin LockOps
  BY NoCalls DEF Trade
<1>11. c.op \in HasPin \ ({"create", "run", "close", "pinstop"} \cup LockOps) /\ c.op # "release"
  BY <1>1 DEF HasPin, PinOps, LockOps
<1>12. Releasing(T, q) => refs'[q] = refs[q]
  OBVIOUS
<1> QED
  BY <1>000, <1>1, <1>5, <1>6, <1>7, <1>8, <1>11, <1>12, <1>13, CountedStep

\* and with one,
LEMMA ReadTakes ==
    ASSUME NEW T, IsFiniteSet(T), NEW Q, NEW F, IsFiniteSet(F), NEW M \in Nat, NEW B, NEW C,
           Reads \in Int, PinInv(T, Q, F, M, B), B \subseteq C, NEW t \in T, At(t, "read"),
           NEW q, q = Arg(t), NEW f \in free[q],
           free' = [free EXCEPT ![q] = @ \ {f}], refs' = [refs EXCEPT ![q] = @ + 1],
           Do(t, <<With("issue", q, f)>>),
           UNCHANGED <<pin, made, handle, users, running, posted, dead, lost, dry>>
    PROVE  PinInv(T, Q, F, M, C)'
<1>000. PICK c : c = Head(todo[t])
  OBVIOUS
<1>00. PICK d : d = With("issue", q, f)
  OBVIOUS
<1>0. PICK y : y = <<d>>
  OBVIOUS
<1>1. AtPin(T, Q, F, M, t, q) /\ todo[t] # <<>> /\ c.op = "read" /\ q \in 1 .. M
  BY <1>000, AtCall DEF HasPin, PinOps
<1>2. /\ PinTypes(T, F, M) /\ Books(T, F, M, q) /\ q = c.pin
  BY <1>000, <1>1 DEF AtPin
<1>3. f \in F
  BY <1>1, <1>2 DEF PinTypes
<1>4. d \in Items(M, F) /\ d.op = "issue" /\ d.pin = q /\ d.frame = f
  BY <1>00, <1>1, <1>3, WithItem, WithIs DEF FrameOps
<1>9. /\ (q \in dead <=> refs[q] = 0) /\ Cardinality(posted[q]) \in Nat
      /\ Height(todo, t) \in 1 .. Height(todo, t) /\ Item(todo, t, Height(todo, t)) = c
  <2>1. Head(todo[t]).op \in HasPin
    BY <1>000, <1>1 DEF HasPin, PinOps
  <2>2. AtTop(F, M, t, q)
    BY <1>1, <2>1, AtBooks
  <2> QED
    BY <1>000, <2>2 DEF AtTop
<1>10. c.op \in NeedOps
  BY <1>1 DEF NeedOps
<1>14. refs[q] \in Nat /\ refs[q] > 0 /\ q \notin dead
  BY <1>1, <1>2, <1>9, <1>10, Lives
<1>12. Releasing(T, q) => refs'[q] = refs[q]
  BY <1>1, <1>2, <1>9, <1>10, NotReleasing
<1>5. SameHandles /\ SameOwner /\ Elsewhere(M, q)
  BY <1>1, <1>2 DEF SameHandles, SameOwner, Elsewhere, PinTypes
<1>6. BookTypes(F, M)
  BY <1>1, <1>2, SMTT(30) DEF BookTypes, PinTypes
<1>13. Spare(Q, F)'
  BY <1>1 DEF Spare, AtPin
<1>7. Settled(F, q, c, d)
  <2>1. /\ refs[q] \in Int /\ refs'[q] = refs[q] + 1 /\ posted'[q] = posted[q] /\ free'[q] = free[q] \ {f}
    BY <1>1, <1>2 DEF PinTypes
  <2>2. Cardinality(posted[q]) \in Int
    BY <1>9
  <2>3. /\ One(c.op \in RefOps) = 0 /\ One(d.op \in RefOps) = 1
        /\ One(c.op \in ReadOps) = 1 /\ One(d.op \in ReadOps) = 1
    BY <1>1, <1>4 DEF One, RefOps, ReadOps
  <2>4. ASSUME NEW g \in F
        PROVE  One(g \in free'[q]) + One(g \in posted'[q]) + One(d.op \in HoldOps /\ d.frame = g)
                 = One(g \in free[q]) + One(g \in posted[q]) + One(c.op \in HoldOps /\ c.frame = g)
    BY <1>1, <1>4, <2>1 DEF One, HoldOps
  <2>5. q \in dead' <=> refs'[q] = 0
    BY <1>14, <2>1
  <2> QED
    BY <2>1, <2>2, <2>3, <2>4, <2>5 DEF Settled
<1>8. /\ y \in Seq(Items(M, F)) /\ CallsOf(y, q) /\ Trade(y, q, d)
      /\ \A i \in 1 .. Len(y) : y[i].op \notin LockOps
  <2>1. y \in Seq(Items(M, F)) /\ Len(y) = 1 /\ y[1] = d
    BY <1>0, <1>4
  <2>2. \A i \in 1 .. Len(y) : i = 1 /\ y[i] = d
    BY <2>1
  <2>3. CallsOf(y, q)
    BY <1>4, <2>2 DEF CallsOf, SoloOps
  <2>4. Trade(y, q, d)
    BY <1>4, <2>1, <2>2 DEF Trade
  <2> QED
    BY <1>4, <2>1, <2>2, <2>3, <2>4 DEF LockOps
<1>11. c.op \in HasPin \ ({"create", "run", "close", "pinstop"} \cup LockOps) /\ c.op # "release"
  BY <1>1 DEF HasPin, PinOps, LockOps
<1>15. Do(t, y)
  BY <1>0, <1>00
<1> QED
  BY <1>000, <1>1, <1>5, <1>6, <1>7, <1>8, <1>10, <1>11, <1>12, <1>13, <1>15, CountedStep

\* so Read.
LEMMA ReadStep_ ==
    ASSUME NEW T, IsFiniteSet(T), NEW Q, IsFiniteSet(Q), NEW F, IsFiniteSet(F), NEW M \in Nat, NEW B, NEW C,
           Reads \in Int, PinInv(T, Q, F, M, B), B \subseteq C, NEW t \in T, Read(t)
    PROVE  PinInv(T, Q, F, M, C)'
<1>0. PICK q : q = Arg(t)
  OBVIOUS
<1>1. At(t, "read") /\ UNCHANGED <<pin, made, handle, users, running, posted, dead, lost>>
  BY DEF Read
<1>2. CASE /\ free[q] = {} /\ dry' = TRUE /\ Do(t, <<>>) /\ UNCHANGED <<free, refs>>
  BY <1>0, <1>1, <1>2, ReadDry
<1>3. CASE \E f \in free[q] : /\ free' = [free EXCEPT ![q] = @ \ {f}] /\ ReadRef(q)
                              /\ Do(t, <<With("issue", q, f)>>) /\ UNCHANGED dry
  <2>1. PICK f \in free[q] : /\ free' = [free EXCEPT ![q] = @ \ {f}] /\ ReadRef(q)
                              /\ Do(t, <<With("issue", q, f)>>) /\ UNCHANGED dry
    BY <1>3
  <2>2. refs' = [refs EXCEPT ![q] = @ + 1]
    BY <2>1 DEF ReadRef
  <2> QED
    BY <1>0, <1>1, <2>1, <2>2, ReadTakes
<1> QED
  BY <1>0, <1>2, <1>3 DEF Read

\* Release, with the handle closed by the last one.
LEMMA OpenReleased ==
    ASSUME NEW T, NEW F, NEW M, NEW t, NEW b, NEW calls, Moved(T, F, M, t, b, calls), NEW q,
           HandleIs(T, q), \A p : Owned(T, p)' <=> Owned(T, p),
           \A h \in b + 1 .. Height(todo, t) : Item(todo, t, h).op = "release",
           handle' = handle, users' = users, running' = running, made' = made, lost' = lost,
           refs[q] # 1 \/ OnPin(todo', T, {"close"}, q)
    PROVE  HandleIs(T, q)'
<1>1. ASSUME handle[q] = "open" PROVE WillClose(T, q)'
  <2>1. CASE OnPin(todo', T, {"close"}, q)
    BY <2>1 DEF WillClose, OnPin
  <2>2. CASE refs[q] # 1
    <3>1. WillClose(T, q) /\ ~Releasing(T, q)
      BY <1>1, <2>2 DEF HandleIs, Releasing
    <3>2. Owned(T, q) \/ OnPin(todo, T, {"run", "close", "pinstop"}, q)
      BY <3>1 DEF WillClose
    <3>3. OnPin(todo, T, {"run", "close", "pinstop"}, q) => OnPin(todo', T, {"run", "close", "pinstop"}, q)
      <4>1. \A h \in b + 1 .. Height(todo, t) :
                ~(Item(todo, t, h).op \in {"run", "close", "pinstop"} /\ Item(todo, t, h).pin = q)
        OBVIOUS
      <4> QED
        BY <4>1, SameOnPin
    <3> QED
      BY <3>2, <3>3 DEF WillClose
  <2> QED
    BY <2>1, <2>2
<1>2. Owned(T, q)' <=> Owned(T, q)
  OBVIOUS
<1> QED
  BY <1>1, <1>2 DEF HandleIs

\* KsRead::Release.
LEMMA ReleaseStep ==
    ASSUME NEW T, IsFiniteSet(T), NEW Q, NEW F, IsFiniteSet(F), NEW M \in Nat, NEW B, NEW C, Reads \in Int,
           PinInv(T, Q, F, M, B), B \subseteq C, NEW t \in T, NEW destructor,
           QuietCalls(destructor, M, F, Arg(t)), Release(t, destructor)
    PROVE  PinInv(T, Q, F, M, C)'
<1>0. PICK q : q = Arg(t)
  OBVIOUS
<1>000. PICK c : c = Head(todo[t])
  OBVIOUS
<1>00. PICK r : r = On("close", q)
  OBVIOUS
<1>0000. PICK y : y = IF refs[q] = 1 THEN destructor \o <<r>> ELSE <<>>
  OBVIOUS
<1>1. AtPin(T, Q, F, M, t, q) /\ todo[t] # <<>> /\ c.op = "release" /\ q \in 1 .. M
  BY <1>0, <1>000, AtCall DEF Release, HasPin, PinOps
<1>2. /\ PinTypes(T, F, M) /\ Books(T, F, M, q) /\ q = c.pin /\ HandleIs(T, q)
  BY <1>000, <1>1 DEF AtPin
<1>3. /\ refs' = [refs EXCEPT ![q] = @ - 1] /\ Do(t, y)
      /\ dead' = IF refs[q] = 1 THEN dead \cup {q} ELSE dead
      /\ UNCHANGED <<pin, made, handle, users, running, free, posted, lost, dry>>
  BY <1>0, <1>00, <1>0000 DEF Release
<1>4. AtTop(F, M, t, q)
  <2>1. Head(todo[t]).op \in HasPin
    BY <1>000, <1>1 DEF HasPin, PinOps
  <2> QED
    BY <1>1, <2>1, AtBooks
<1>5. refs[q] \in Nat /\ refs[q] > 0 /\ q \notin dead
  <2>1. c.op \in NeedOps \cup RefOps
    BY <1>1 DEF RefOps
  <2> QED
    BY <1>000, <1>1, <1>2, <1>4, <2>1, Lives DEF AtTop
<1>6. r \in Items(M, F) /\ r.op = "close" /\ r.pin = q
  BY <1>00, <1>1, OnItem, OnIs DEF PinOps
<1>7. ASSUME refs[q] = 1 PROVE EndsWith(y, M, F, q, r)
  <2>1. r.op \notin SoloOps \cup NeedOps \cup LockOps \cup {"push", "process"}
    BY <1>6 DEF SoloOps, NeedOps, LockOps
  <2>2. QuietCalls(destructor, M, F, q)
    BY <1>0
  <2>3. y = destructor \o <<r>>
    BY <1>7, <1>0000
  <2> QED
    BY <1>1, <1>6, <2>1, <2>2, <2>3, QuietThen
<1>8. /\ y \in Seq(Items(M, F)) /\ CallsOf(y, q) /\ Needless(y) /\ Trade(y, q, Nothing)
      /\ \A i \in 1 .. Len(y) : y[i].op \notin LockOps
  <2>1. CASE refs[q] = 1
    <3>1. EndsWith(y, M, F, q, r)
      BY <1>7, <2>1
    <3>2. r.op \notin Counted_
      BY <1>6 DEF Counted_, RefOps, HoldOps, ReadOps
    <3> QED
      BY <3>1, <3>2 DEF Trade, EndsWith
  <2>2. CASE refs[q] # 1
    BY <1>0000, <2>2, NoCalls DEF Trade
  <2> QED
    BY <2>1, <2>2
<1>9. SameHandles /\ SameOwner /\ Spare(Q, F)'
  BY <1>1, <1>3 DEF SameHandles, SameOwner, Spare, AtPin
<1>10. Elsewhere(M, q)
  BY <1>1, <1>2, <1>3 DEF Elsewhere, PinTypes
<1>11. BookTypes(F, M)
  <2>1. refs' \in [1 .. M -> Nat]
    BY <1>1, <1>2, <1>3, <1>5 DEF PinTypes
  <2>2. dead' \subseteq 1 .. made
    <3>1. q \in 1 .. made
      BY <1>1, <1>4 DEF AtTop
    <3>2. dead \subseteq 1 .. made
      BY <1>2 DEF PinTypes
    <3> QED
      BY <1>3, <3>1, <3>2
  <2> QED
    BY <1>2, <1>3, <2>1, <2>2 DEF PinTypes, BookTypes
<1>12. Settled(F, q, c, Nothing)
  <2>1. /\ refs[q] \in Int /\ refs'[q] = refs[q] - 1 /\ posted'[q] = posted[q] /\ free'[q] = free[q]
    BY <1>1, <1>2, <1>3 DEF PinTypes
  <2>2. Cardinality(posted[q]) \in Int
    BY <1>4 DEF AtTop
  <2>3. /\ One(c.op \in RefOps) = 1 /\ One(Nothing.op \in RefOps) = 0
        /\ One(c.op \in ReadOps) = 0 /\ One(Nothing.op \in ReadOps) = 0
    BY <1>1 DEF One, RefOps, ReadOps, Nothing
  <2>4. ASSUME NEW g \in F
        PROVE  One(g \in free'[q]) + One(g \in posted'[q]) + One(Nothing.op \in HoldOps /\ Nothing.frame = g)
                 = One(g \in free[q]) + One(g \in posted[q]) + One(c.op \in HoldOps /\ c.frame = g)
    BY <1>1, <2>1 DEF One, HoldOps, Nothing
  <2>5. q \in dead' <=> refs'[q] = 0
    BY <1>3, <1>5, <2>1
  <2> QED
    BY <2>1, <2>2, <2>3, <2>4, <2>5 DEF Settled
<1>13. c.op \in HasPin \ ({"create", "run", "close", "pinstop"} \cup LockOps)
  BY <1>1 DEF HasPin, PinOps, LockOps
<1>14. HandleIs(T, q)'
  <2>1. After(T, Q, F, M, C, t, Height(todo, t) - 1, y, q)
    <3>1. Head(todo[t]).op \in HasPin \ {"create", "run"}
      BY <1>000, <1>13
    <3> QED
      BY <1>0, <1>1, <1>3, <1>8, <1>10, <3>1, UsualDo
  <2>2. Moved(T, F, M, t, Height(todo, t) - 1, y) /\ \A p : Owned(T, p)' <=> Owned(T, p)
    BY <2>1 DEF After
  <2>3. \A h \in Height(todo, t) - 1 + 1 .. Height(todo, t) : Item(todo, t, h).op = "release"
    BY <1>000, <1>1, <1>4 DEF AtTop
  <2>4. refs[q] # 1 \/ OnPin(todo', T, {"close"}, q)
    <3>1. CASE refs[q] = 1
      <4>1. Len(y) \in 1 .. Len(y) /\ y[Len(y)] = r
        BY <1>7, <3>1 DEF EndsWith
      <4>2. y[Len(y)].op \in {"close"} /\ y[Len(y)].pin = q
        BY <1>6, <4>1
      <4> QED
        BY <2>2, <4>1, <4>2, GivenOnPin
    <3> QED
      BY <3>1
  <2> QED
    BY <1>2, <1>3, <2>2, <2>3, <2>4, OpenReleased
<1> QED
  BY <1>0, <1>000, <1>1, <1>3, <1>8, <1>9, <1>10, <1>11, <1>12, <1>13, <1>14, CountedStep

\* The calls inside a lock, which are followed by its release.
Unlocker(todo_, T, M, F, t, q, u) ==
    /\ Height(todo_, t) \in Nat /\ Height(todo_, t) > 1
    /\ u = Item(todo_, t, Height(todo_, t) - 1) /\ u.op = "unlock" /\ u.pin = q /\ u \in Items(M, F)

\* Below a call inside a lock is the one that leaves it.
LEMMA UnderTop ==
    ASSUME NEW T, NEW Q, NEW F, NEW M \in Nat, NEW t \in T, NEW q, AtPin(T, Q, F, M, t, q),
           Head(todo[t]).op \in {"ioctl", "setstop"}, NEW u, u = Item(todo, t, Height(todo, t) - 1)
    PROVE  Unlocker(todo, T, M, F, t, q, u)
<1>1. PinTypes(T, F, M) /\ todo[t] # <<>> /\ q = Head(todo[t]).pin /\ LockPlaces(todo, T)
  BY DEF AtPin
<1>2. Height(todo, t) \in Nat /\ Height(todo, t) > 0 /\ Item(todo, t, Height(todo, t)) = Head(todo[t])
  BY <1>1, Top
<1>3. PICK n : n = Height(todo, t)
  OBVIOUS
<1>4. n \in 1 .. Height(todo, t) /\ Item(todo, t, n).op \in {"ioctl", "setstop"}
  BY <1>2, <1>3
<1>5. n > 1 /\ u.op = "unlock" /\ u.pin = q
  BY <1>1, <1>2, <1>3, <1>4 DEF LockPlaces
<1>6. u \in Items(M, F)
  <2>1. todo \in [T -> Seq(Items(M, F))]
    BY <1>1 DEF PinTypes
  <2>2. Height(todo, t) - 1 \in 1 .. Height(todo, t)
    BY <1>2, <1>3, <1>5
  <2> QED
    BY <2>1, <2>2, HeightIsNat
<1> QED
  BY <1>2, <1>3, <1>5, <1>6 DEF Unlocker

\* The inner call is over: the one that unlocks is left,
LEMMA BackOne ==
    ASSUME NEW T, IsFiniteSet(T), NEW F, NEW M \in Nat, PinTypes(T, F, M), NEW t \in T, todo[t] # <<>>,
           Do(t, <<>>), NEW q, NEW u, Unlocker(todo, T, M, F, t, q, u), NEW x, x = <<u>>
    PROVE  Moved(T, F, M, t, Height(todo, t) - 2, x)
<1>1. Moved(T, F, M, t, Height(todo, t) - 1, <<>>)
  <2>1. <<>> \in Seq(Items(M, F))
    BY NoCalls
  <2> QED
    BY <2>1, Doing
<1>2. PICK n : n = Height(todo, t)
  OBVIOUS
<1>3. n \in Nat /\ n > 1 /\ u = Item(todo, t, n - 1) /\ u \in Items(M, F)
  BY <1>2 DEF Unlocker
<1>4. x \in Seq(Items(M, F)) /\ Len(x) = 1 /\ x[1] = u
  BY <1>3
<1>5. Pushed(todo, todo', T, t, n - 1, <<>>)
  BY <1>1, <1>2 DEF Moved
<1>6. /\ \A w \in T \ {t} : todo'[w] = todo[w]
      /\ Height(todo', t) = n - 1 /\ \A h \in 1 .. n - 1 : Item(todo', t, h) = Item(todo, t, h)
  BY <1>3, <1>5 DEF Pushed
<1>7. Pushed(todo, todo', T, t, n - 2, x)
  <2>1. n - 2 \in 0 .. Height(todo, t) /\ Height(todo', t) = n - 2 + Len(x)
    BY <1>2, <1>3, <1>4, <1>6
  <2>2. \A h \in 1 .. n - 2 : Item(todo', t, h) = Item(todo, t, h)
    BY <1>3, <1>6
  <2>3. ASSUME NEW i \in 1 .. Len(x) PROVE Item(todo', t, n - 2 + Len(x) + 1 - i) = x[i]
    <3>1. i = 1 /\ n - 2 + Len(x) + 1 - i = n - 1 /\ n - 1 \in 1 .. n - 1
      BY <1>3, <1>4
    <3>2. Item(todo', t, n - 1) = u
      BY <1>3, <1>6, <3>1
    <3> QED
      BY <1>4, <3>1, <3>2
  <2> QED
    BY <1>6, <2>1, <2>2, <2>3 DEF Pushed
<1> QED
  BY <1>1, <1>2, <1>4, <1>7 DEF Moved

\* or it has failed, and the failure is handled after the lock.
LEMMA BackTwo ==
    ASSUME NEW T, IsFiniteSet(T), NEW F, NEW M \in Nat, PinTypes(T, F, M), NEW t \in T, todo[t] # <<>>,
           NEW d \in Items(M, F),
           todo' = [todo EXCEPT ![t] = <<todo[t][2], d>> \o SubSeq(@, 3, Len(@))],
           NEW q, NEW u, Unlocker(todo, T, M, F, t, q, u), NEW x, x = <<u, d>>
    PROVE  Moved(T, F, M, t, Height(todo, t) - 2, x)
<1>1. PICK n : n = Height(todo, t)
  OBVIOUS
<1>2. PICK s : s = todo[t]
  OBVIOUS
<1>3. n \in Nat /\ n > 1 /\ u = Item(todo, t, n - 1) /\ u \in Items(M, F)
  BY <1>1 DEF Unlocker
<1>4. todo \in [T -> Seq(Items(M, F))] /\ s \in Seq(Items(M, F)) /\ Len(s) = n
  BY <1>1, <1>2 DEF PinTypes, Height
<1>5. u = s[2]
  BY <1>2, <1>3, <1>4 DEF Item
<1>6. x \in Seq(Items(M, F)) /\ Len(x) = 2 /\ x[1] = u /\ x[2] = d
  BY <1>3
<1>7. PICK z : z = SubSeq(s, 3, Len(s))
  OBVIOUS
<1>8. z \in Seq(Items(M, F)) /\ Len(z) = n - 2 /\ \A i \in 1 .. n - 2 : z[i] = s[i + 2]
  BY <1>3, <1>4, <1>7
<1>9. PICK y : y = x \o z
  OBVIOUS
<1>10. y \in Seq(Items(M, F)) /\ Len(y) = n /\ y[1] = u /\ y[2] = d /\ \A i \in 3 .. n : y[i] = s[i]
  <2>1. y \in Seq(Items(M, F)) /\ Len(y) = n /\ y[1] = u /\ y[2] = d
    BY <1>3, <1>6, <1>8, <1>9
  <2>2. ASSUME NEW i \in 3 .. n PROVE y[i] = s[i]
    <3>1. i - 2 \in 1 .. n - 2 /\ i - 2 + 2 = i
      BY <1>3
    <3>2. y[i] = z[i - 2]
      BY <1>3, <1>6, <1>8, <1>9, <3>1
    <3> QED
      BY <1>8, <3>1, <3>2
  <2> QED
    BY <2>1, <2>2
<1>11. todo' = [todo EXCEPT ![t] = y]
  BY <1>2, <1>5, <1>7, <1>9
<1>12. todo' \in [T -> Seq(Items(M, F))] /\ todo'[t] = y /\ \A w \in T \ {t} : todo'[w] = todo[w]
  BY <1>4, <1>10, <1>11
<1>13. Pushed(todo, todo', T, t, n - 2, x)
  <2>1. n - 2 \in 0 .. Height(todo, t) /\ Height(todo', t) = n - 2 + Len(x)
    BY <1>1, <1>3, <1>6, <1>10, <1>12 DEF Height
  <2>2. ASSUME NEW h \in 1 .. n - 2 PROVE Item(todo', t, h) = Item(todo, t, h)
    <3>1. n + 1 - h \in 3 .. n
      BY <1>3
    <3> QED
      BY <1>2, <1>4, <1>10, <1>12, <3>1, SMTT(30) DEF Item
  <2>3. ASSUME NEW i \in 1 .. Len(x) PROVE Item(todo', t, n - 2 + Len(x) + 1 - i) = x[i]
    <3>1. i \in {1, 2} /\ n + 1 - (n - 2 + Len(x) + 1 - i) = i
      BY <1>3, <1>6
    <3>2. Item(todo', t, n - 2 + Len(x) + 1 - i) = y[i]
      BY <1>10, <1>12, <3>1 DEF Item
    <3> QED
      BY <1>6, <1>10, <3>1, <3>2
  <2> QED
    BY <1>12, <2>1, <2>2, <2>3 DEF Pushed
<1> QED
  BY <1>1, <1>4, <1>6, <1>12, <1>13 DEF Moved

\* The lock is still to be left once.
KeepsLock(x, M, F, q) ==
    /\ CallsOf(x, q) /\ Needless(x) /\ NewLocks(x) /\ \A p : Unlocks(x, p) <=> p = q

\* So it is when the call that unlocks is alone,
LEMMA KeepsOne ==
    ASSUME NEW M, NEW F, NEW q, NEW u, u.op = "unlock", u.pin = q, NEW x, x = <<u>>
    PROVE  KeepsLock(x, M, F, q)
<1>1. Len(x) = 1 /\ x[1] = u /\ \A i \in 1 .. Len(x) : i = 1
  OBVIOUS
<1>2. CallsOf(x, q) /\ Needless(x) /\ NewLocks(x)
  BY <1>1 DEF CallsOf, Needless, NewLocks, SoloOps, NeedOps
<1>3. \A p : Unlocks(x, p) <=> p = q
  BY <1>1 DEF Unlocks
<1> QED
  BY <1>2, <1>3 DEF KeepsLock

\* and with the failure after it.
LEMMA KeepsTwo ==
    ASSUME NEW M, NEW F, NEW q, NEW u, u.op = "unlock", u.pin = q, NEW d, d.op = "fail", d.pin = q,
           NEW x, x = <<u, d>>
    PROVE  KeepsLock(x, M, F, q)
<1>1. Len(x) = 2 /\ x[1] = u /\ x[2] = d /\ \A i \in 1 .. Len(x) : i = 1 \/ i = 2
  OBVIOUS
<1>2. CallsOf(x, q) /\ Needless(x) /\ NewLocks(x)
  BY <1>1 DEF CallsOf, Needless, NewLocks, SoloOps, NeedOps
<1>3. \A p : Unlocks(x, p) <=> p = q
  BY <1>1 DEF Unlocks
<1> QED
  BY <1>2, <1>3 DEF KeepsLock

\* After a call inside the lock of q.
AfterLocked(T, Q, F, M, C, t, b, calls, q) ==
    After(T, Q, F, M, C, t, b, calls, q) /\ LockPlaces(todo, T)' /\ Locked(todo, T, M)'

\* What such a call leaves of the invariant.
LEMMA LockedAfter ==
    ASSUME NEW T, NEW Q, NEW F, NEW M \in Nat, NEW B, NEW C,
           PinInv(T, Q, F, M, B), B \subseteq C, NEW t \in T, todo[t] # <<>>,
           Head(todo[t]).op \in {"ioctl", "setstop"}, NEW q, q = Arg(t),
           NEW u, Unlocker(todo, T, M, F, t, q, u), NEW b, b = Height(todo, t) - 2,
           NEW calls, Moved(T, F, M, t, b, calls),
           KeepsLock(calls, M, F, q), Elsewhere(M, q),
           pin' = pin, made' = made, lost' = lost, handle' = handle, users' = users
    PROVE  AfterLocked(T, Q, F, M, C, t, b, calls, q)
<1>1. PinTypes(T, F, M) /\ LockPlaces(todo, T) /\ Locked(todo, T, M)
  BY Parts
<1>2. /\ Height(todo, t) \in Nat /\ Height(todo, t) > 1 /\ Item(todo, t, Height(todo, t)) = Head(todo[t])
      /\ q = Head(todo[t]).pin /\ Head(todo[t]) \in Items(M, F)
      /\ Item(todo, t, Height(todo, t) - 1).op = "unlock" /\ Item(todo, t, Height(todo, t) - 1).pin = q
  BY <1>1, Top DEF Unlocker
<1>3. b \in Nat /\ b < Height(todo, t) /\ b = Height(todo, t) - 2
  BY <1>2
<1>4. \A h \in b + 1 .. Height(todo, t) : h = Height(todo, t) \/ h = Height(todo, t) - 1
  BY <1>2, <1>3
<1>5. \A h \in b + 1 .. Height(todo, t) - 1 : h = Height(todo, t) - 1
  BY <1>2, <1>3
<1>6. OnlyOf(todo, t, b, q)
  BY <1>2, <1>4 DEF OnlyOf, HasPin, PinOps, FrameOps
<1>7. Kept(T, Q, F, M, C, q)
  <2>1. Handed(todo, t, b, calls) /\ CallsOf(calls, q)
    BY DEF Handed, KeepsLock
  <2>2. Steady(q) /\ Within(B, C)
    BY DEF Steady, Within
  <2> QED
    BY <1>3, <1>6, <2>1, <2>2, Usual
<1>8. After(T, Q, F, M, C, t, b, calls, q)
  <2>1. made \in Nat
    BY <1>1 DEF PinTypes
  <2> QED
    BY <1>2, <1>3, <1>5, <1>7, <2>1 DEF After, Kept
<1>9. LockPlaces(todo, T)' /\ Locked(todo, T, M)'
  <2>1. NewLocks(calls) /\ \A p \in 1 .. M : Unlocks(calls, p) <=> p = q
    BY DEF KeepsLock
  <2> QED
    BY <1>1, <1>2, <1>3, <2>1, LocksKept
<1> QED
  BY <1>8, <1>9 DEF AfterLocked

\* The state is set to stop, inside the lock.
LEMMA SetStopStep ==
    ASSUME NEW T, IsFiniteSet(T), NEW Q, NEW F, NEW M \in Nat, NEW B, NEW C,
           PinInv(T, Q, F, M, B), B \subseteq C, NEW t \in T, SetStop(t)
    PROVE  PinInv(T, Q, F, M, C)'
<1>0. PICK q : q = Arg(t)
  OBVIOUS
<1>00. PICK b : b = Height(todo, t) - 2
  OBVIOUS
<1>000. PICK u : u = Item(todo, t, Height(todo, t) - 1)
  OBVIOUS
<1>0000. PICK x : x = <<u>>
  OBVIOUS
<1>1. AtPin(T, Q, F, M, t, q) /\ todo[t] # <<>> /\ Head(todo[t]).op = "setstop" /\ q \in 1 .. M
  BY <1>0, AtCall DEF SetStop, HasPin, PinOps
<1>2. PinTypes(T, F, M) /\ Books(T, F, M, q) /\ HandleIs(T, q) /\ Spare(Q, F)
  BY <1>1 DEF AtPin
<1>3. /\ running' = [running EXCEPT ![q] = FALSE] /\ Do(t, <<>>)
      /\ UNCHANGED <<pin, made, handle, users, refs, free, posted, dead, lost, dry>>
  BY <1>0 DEF SetStop
<1>4. Unlocker(todo, T, M, F, t, q, u)
  BY <1>000, <1>1, UnderTop
<1>5. Moved(T, F, M, t, b, x)
  BY <1>00, <1>0000, <1>1, <1>2, <1>3, <1>4, BackOne
<1>6. KeepsLock(x, M, F, q)
  BY <1>0000, <1>4, KeepsOne DEF Unlocker
<1>7. Elsewhere(M, q)
  BY <1>1, <1>2, <1>3 DEF Elsewhere, PinTypes
<1>8. AfterLocked(T, Q, F, M, C, t, b, x, q)
  <2>1. Head(todo[t]).op \in {"ioctl", "setstop"}
    BY <1>1
  <2> QED
    BY <1>0, <1>00, <1>1, <1>3, <1>4, <1>5, <1>6, <1>7, <2>1, LockedAfter
<1>9. After(T, Q, F, M, C, t, b, x, q) /\ LockPlaces(todo, T)' /\ Locked(todo, T, M)'
  BY <1>8 DEF AfterLocked
<1>10. SameCounts(T, F, M, q)
  <2>1. Head(todo[t]).op \notin Counted_
    BY <1>1 DEF Counted_, RefOps, HoldOps, ReadOps
  <2>2. \A i \in 1 .. Len(x) : x[i].op = "unlock"
    BY <1>0000, <1>4 DEF Unlocker
  <2>3. \A i \in 1 .. Len(x) : x[i].op \notin Counted_
    BY <2>2 DEF Counted_, RefOps, HoldOps, ReadOps
  <2> QED
    BY <1>9, <2>1, <2>3, QuietAfter
<1>11. Books(T, F, M, q)'
  <2>1. handle'[q] # "none"
    BY <1>3, <1>9 DEF After
  <2> QED
    BY <1>2, <1>3, <1>9, <1>10, <2>1, BooksAfter
<1>12. HandleIs(T, q)'
  <2>1. WillClose(T, q) => WillClose(T, q)'
    BY <1>1, <1>3, <1>9, WillCloseAfter
  <2>2. running'[q] = FALSE
    BY <1>1, <1>2, <1>3 DEF PinTypes
  <2>3. Owned(T, q)' <=> Owned(T, q)
    BY <1>9 DEF After
  <2> QED
    BY <1>2, <1>3, <2>1, <2>2, <2>3 DEF HandleIs
<1>13. PinTypes(T, F, M)'
  <2>1. todo' \in [T -> Seq(Items(M, F))]
    BY <1>5 DEF Moved
  <2>2. running' \in [1 .. M -> BOOLEAN]
    BY <1>2, <1>3 DEF PinTypes
  <2> QED
    BY <1>2, <1>3, <2>1, <2>2 DEF PinTypes
<1> QED
  BY <1>2, <1>3, <1>9, <1>11, <1>12, <1>13, WholeAt

\* The accounts of the pin complete it.
LEMMA LockedFinish ==
    ASSUME NEW T, NEW Q, NEW F, NEW M \in Nat, NEW C, NEW t, NEW b, NEW calls, NEW q,
           AtPin(T, Q, F, M, t, q), AfterLocked(T, Q, F, M, C, t, b, calls, q), NEW d,
           Trade(calls, q, d), Settled(F, q, Head(todo[t]), d), Reads \in Int,
           SameHandles, SameOwner, BookTypes(F, M), dry' = dry, refs' = refs,
           Head(todo[t]).op = "ioctl"
    PROVE  PinInv(T, Q, F, M, C)'
<1>1. /\ PinTypes(T, F, M) /\ Books(T, F, M, q) /\ HandleIs(T, q) /\ Spare(Q, F)
  BY DEF AtPin
<1>2. After(T, Q, F, M, C, t, b, calls, q) /\ LockPlaces(todo, T)' /\ Locked(todo, T, M)'
  BY DEF AfterLocked
<1>3. pin' = pin /\ made' = made /\ lost' = lost /\ handle' = handle /\ users' = users /\ running' = running
  BY DEF SameHandles, SameOwner
<1>4. PinTypes(T, F, M)'
  <2>1. todo' \in [T -> Seq(Items(M, F))]
    BY <1>2 DEF After, Moved
  <2> QED
    BY <1>1, <2>1, TypesKept
<1>5. Books(T, F, M, q)'
  <2>1. Traded(T, F, M, q, Head(todo[t]), d)
    BY <1>2, TradesOne DEF Trade
  <2>2. handle'[q] # "none"
    BY <1>2, <1>3 DEF After
  <2> QED
    BY <1>1, <1>2, <1>3, <2>1, <2>2, BooksSettled
<1>6. HandleIs(T, q)'
  <2>1. WillClose(T, q) => WillClose(T, q)'
    BY <1>2, WillCloseAfter
  <2>2. Owned(T, q)' <=> Owned(T, q)
    BY <1>2 DEF After
  <2> QED
    BY <1>1, <1>3, <2>1, <2>2 DEF HandleIs
<1> QED
  BY <1>1, <1>2, <1>4, <1>5, <1>6, WholeAt

\* The request inside the lock: pending, done or failed.
LEMMA IoctlStep ==
    ASSUME NEW T, IsFiniteSet(T), NEW Q, NEW F, IsFiniteSet(F), NEW M \in Nat, NEW B, NEW C,
           PinInv(T, Q, F, M, B), B \subseteq C, NEW t \in T, Ioctl(t), Reads \in Int
    PROVE  PinInv(T, Q, F, M, C)'
<1>0. PICK q : q = Arg(t)
  OBVIOUS
<1>00. PICK b : b = Height(todo, t) - 2
  OBVIOUS
<1>000. PICK u : u = Item(todo, t, Height(todo, t) - 1)
  OBVIOUS
<1>01. PICK f : f = Frame(t)
  OBVIOUS
<1>02. PICK c : c = Head(todo[t])
  OBVIOUS
<1>1. AtPin(T, Q, F, M, t, q) /\ todo[t] # <<>> /\ c.op = "ioctl" /\ q \in 1 .. M
  BY <1>0, <1>02, AtCall DEF Ioctl, HasPin, FrameOps
<1>2. /\ PinTypes(T, F, M) /\ Books(T, F, M, q) /\ HandleIs(T, q) /\ Spare(Q, F)
      /\ f \in F /\ f = c.frame /\ q = c.pin
  BY <1>01, <1>02, <1>1 DEF AtPin, FrameOps
<1>3. UNCHANGED <<pin, made, handle, users, refs, running, free, dead, lost, dry>>
  BY DEF Ioctl
<1>4. Unlocker(todo, T, M, F, t, q, u)
  BY <1>000, <1>02, <1>1, UnderTop
<1>5. /\ Height(todo, t) \in 1 .. Height(todo, t) /\ Item(todo, t, Height(todo, t)) = c
      /\ (q \in dead <=> refs[q] = 0) /\ Cardinality(posted[q]) \in Nat
  <2>1. Head(todo[t]).op \in HasPin
    BY <1>02, <1>1 DEF HasPin, FrameOps
  <2>2. AtTop(F, M, t, q)
    BY <1>1, <2>1, AtBooks
  <2> QED
    BY <1>02, <2>2 DEF AtTop
<1>6. f \notin free[q] /\ f \notin posted[q]
  <2>1. Height(todo, t) \in 1 .. Height(todo, t) /\ Item(todo, t, Height(todo, t)) = c
    BY <1>5
  <2>2. FrameBook(T, F, M, q, f)
    BY <1>2 DEF Books
  <2> QED
    BY <1>1, <1>2, <2>1, <2>2, Held DEF HoldOps
<1>7. SameHandles /\ SameOwner
  BY <1>3 DEF SameHandles, SameOwner
<1>8. Head(todo[t]).op \in {"ioctl", "setstop"} /\ Head(todo[t]).op = "ioctl"
  BY <1>02, <1>1
<1>9. CASE posted' = [posted EXCEPT ![q] = @ \cup {f}] /\ Do(t, <<>>)
  <2>0. PICK x : x = <<u>>
    OBVIOUS
  <2>1. Moved(T, F, M, t, b, x)
    BY <1>00, <1>1, <1>2, <1>4, <1>9, <2>0, BackOne
  <2>2. KeepsLock(x, M, F, q)
    BY <1>4, <2>0, KeepsOne DEF Unlocker
  <2>3. Elsewhere(M, q) /\ BookTypes(F, M)
    BY <1>1, <1>2, <1>3, <1>9 DEF Elsewhere, BookTypes, PinTypes
  <2>4. AfterLocked(T, Q, F, M, C, t, b, x, q)
    BY <1>0, <1>00, <1>1, <1>3, <1>4, <1>8, <2>1, <2>2, <2>3, LockedAfter
  <2>5. Trade(x, q, Nothing)
    <3>1. \A i \in 1 .. Len(x) : x[i].op = "unlock"
      BY <1>4, <2>0 DEF Unlocker
    <3> QED
      BY <3>1 DEF Trade, Counted_, RefOps, HoldOps, ReadOps
  <2>6. Settled(F, q, c, Nothing)
    <3>1. /\ refs[q] \in Int /\ refs'[q] = refs[q] /\ posted'[q] = posted[q] \cup {f} /\ free'[q] = free[q]
          /\ posted[q] \in SUBSET F
      BY <1>1, <1>2, <1>3, <1>9 DEF PinTypes
    <3>2. Cardinality(posted[q]) \in Int /\ Cardinality(posted'[q]) = Cardinality(posted[q]) + 1
      BY <1>5, <1>6, <3>1, Cards
    <3>3. /\ One(c.op \in RefOps) = 1 /\ One(Nothing.op \in RefOps) = 0
          /\ One(c.op \in ReadOps) = 1 /\ One(Nothing.op \in ReadOps) = 0
      BY <1>1 DEF One, RefOps, ReadOps, Nothing
    <3>4. ASSUME NEW g \in F
          PROVE  One(g \in free'[q]) + One(g \in posted'[q]) + One(Nothing.op \in HoldOps /\ Nothing.frame = g)
                   = One(g \in free[q]) + One(g \in posted[q]) + One(c.op \in HoldOps /\ c.frame = g)
      BY <1>1, <1>2, <1>6, <3>1 DEF One, HoldOps, Nothing
    <3>5. q \in dead' <=> refs'[q] = 0
      BY <1>3, <1>5
    <3>6. PICK m : m = Cardinality(posted[q])
      OBVIOUS
    <3>7. PICK r : r = refs[q]
      OBVIOUS
    <3>8. m \in Int /\ r \in Int /\ Cardinality(posted'[q]) = m + 1 /\ refs'[q] = r
      BY <3>1, <3>2, <3>6, <3>7
    <3>9. r + 1 + m = r + 0 + (m + 1) /\ m + 1 + 0 <= m + 1
      BY <3>8
    <3>10. Cardinality(posted'[q]) \in Int
      BY <3>8
    <3> QED
      BY <3>3, <3>4, <3>5, <3>6, <3>7, <3>8, <3>9, <3>10 DEF Settled
  <2> QED
    BY <1>02, <1>1, <1>3, <1>7, <1>8, <2>3, <2>4, <2>5, <2>6, LockedFinish
<1>10. CASE /\ todo' = [todo EXCEPT ![t] = <<todo[t][2], With("fail", q, f)>> \o SubSeq(@, 3, Len(@))]
            /\ UNCHANGED posted
  <2>00. PICK d : d = With("fail", q, f)
    OBVIOUS
  <2>0. PICK x : x = <<u, d>>
    OBVIOUS
  <2>9. d \in Items(M, F) /\ d.op = "fail" /\ d.pin = q /\ d.frame = f
    BY <1>1, <1>2, <2>00, WithItem, WithIs DEF FrameOps
  <2>1. Moved(T, F, M, t, b, x)
    BY <1>00, <1>1, <1>2, <1>4, <1>10, <2>0, <2>00, <2>9, BackTwo
  <2>2. KeepsLock(x, M, F, q)
    BY <1>4, <2>0, <2>9, KeepsTwo DEF Unlocker
  <2>3. Elsewhere(M, q) /\ BookTypes(F, M)
    BY <1>1, <1>2, <1>3, <1>10 DEF Elsewhere, BookTypes, PinTypes
  <2>4. AfterLocked(T, Q, F, M, C, t, b, x, q)
    BY <1>0, <1>00, <1>1, <1>3, <1>4, <1>8, <2>1, <2>2, <2>3, LockedAfter
  <2>5. Trade(x, q, d)
    <3>1. Len(x) = 2 /\ x[1] = u /\ x[2] = d /\ 2 \in 1 .. Len(x)
      BY <2>0
    <3>2. \A i \in 1 .. Len(x) : i # 2 => x[i].op = "unlock"
      BY <1>4, <3>1 DEF Unlocker
    <3> QED
      BY <2>9, <3>1, <3>2 DEF Trade, Counted_, RefOps, HoldOps, ReadOps
  <2>6. Settled(F, q, c, d)
    <3>1. /\ refs[q] \in Int /\ refs'[q] = refs[q] /\ posted'[q] = posted[q] /\ free'[q] = free[q]
      BY <1>1, <1>2, <1>3, <1>10 DEF PinTypes
    <3>2. Cardinality(posted[q]) \in Int
      BY <1>5
    <3>3. /\ One(c.op \in RefOps) = 1 /\ One(d.op \in RefOps) = 1
          /\ One(c.op \in ReadOps) = 1 /\ One(d.op \in ReadOps) = 1
      BY <1>1, <2>9 DEF One, RefOps, ReadOps
    <3>4. ASSUME NEW g \in F
          PROVE  One(g \in free'[q]) + One(g \in posted'[q]) + One(d.op \in HoldOps /\ d.frame = g)
                   = One(g \in free[q]) + One(g \in posted[q]) + One(c.op \in HoldOps /\ c.frame = g)
      BY <1>1, <1>2, <2>9, <3>1 DEF One, HoldOps
    <3>5. q \in dead' <=> refs'[q] = 0
      BY <1>3, <1>5
    <3> QED
      BY <3>1, <3>2, <3>3, <3>4, <3>5 DEF Settled
  <2> QED
    BY <1>02, <1>1, <1>3, <1>7, <1>8, <2>3, <2>4, <2>5, <2>6, LockedFinish
<1> QED
  BY <1>0, <1>01, <1>9, <1>10 DEF Ioctl

-----------------------------------------------------------------------------
\* A read completes: the calls made by the thread of the pool.
FrameCalls(y, M, F, p, f) ==
    /\ y \in Seq(Items(M, F)) /\ Len(y) > 0
    /\ \A i \in 1 .. Len(y) : /\ y[i].op \in HasPin \ (SoloOps \cup LockOps) /\ y[i].pin = p
                              /\ y[i].op \in FrameOps => y[i].frame = f
    /\ \A ops \in {RefOps, HoldOps, ReadOps} : \E j \in 1 .. Len(y) :
          y[j].op \in ops /\ \A i \in 1 .. Len(y) : i # j => y[i].op \notin ops
    /\ \A i \in 1 .. Len(y) :
          /\ y[i].op \in NeedOps => i < Len(y) /\ y[Len(y)].op = "release"
          /\ y[i].op = "push" => i = Len(y) - 1
          /\ y[i].op = "process" => i = Len(y) - 2 /\ y[Len(y) - 1].op = "push"

\* A completion with an error makes such calls,
LEMMA FailedCalls ==
    ASSUME NEW M, NEW F, NEW p \in 1 .. M, NEW f \in F, NEW y, y = <<With("fail", p, f)>>
    PROVE  FrameCalls(y, M, F, p, f)
<1>1. PICK d : d = With("fail", p, f)
  OBVIOUS
<1>2. d \in Items(M, F) /\ d.op = "fail" /\ d.pin = p /\ d.frame = f
  BY <1>1, WithItem, WithIs DEF FrameOps
<1>3. y \in Seq(Items(M, F)) /\ Len(y) = 1 /\ y[1] = d /\ \A i \in 1 .. Len(y) : i = 1
  BY <1>1, <1>2
<1>4. \A i \in 1 .. Len(y) : /\ y[i].op \in HasPin \ (SoloOps \cup LockOps) /\ y[i].pin = p
                             /\ y[i].op \in FrameOps => y[i].frame = f
  BY <1>2, <1>3 DEF HasPin, FrameOps, SoloOps, LockOps
<1>5. ASSUME NEW ops \in {RefOps, HoldOps, ReadOps}
      PROVE  \E j \in 1 .. Len(y) : y[j].op \in ops /\ \A i \in 1 .. Len(y) : i # j => y[i].op \notin ops
  <2>1. "fail" \in ops
    BY <1>5 DEF RefOps, HoldOps, ReadOps
  <2> QED
    BY <1>2, <1>3, <2>1
<1>6. \A i \in 1 .. Len(y) : y[i].op \notin NeedOps \cup {"push", "process"}
  BY <1>2, <1>3 DEF NeedOps
<1> QED
  BY <1>3, <1>4, <1>5, <1>6 DEF FrameCalls

\* and one with a frame.
LEMMA CompletionCalls ==
    ASSUME NEW M, NEW F, NEW p \in 1 .. M, NEW f \in F, NEW y, y = Completion(p, f)
    PROVE  FrameCalls(y, M, F, p, f)
<1>1. PICK a : a = On("read", p)
  OBVIOUS
<1>2. PICK b : b = With("process", p, f)
  OBVIOUS
<1>3. PICK c : c = With("push", p, f)
  OBVIOUS
<1>4. PICK d : d = On("release", p)
  OBVIOUS
<1>5. a \in Items(M, F) /\ a.op = "read" /\ a.pin = p
  BY <1>1, OnItem, OnIs DEF PinOps
<1>6. b \in Items(M, F) /\ b.op = "process" /\ b.pin = p /\ b.frame = f
  BY <1>2, WithItem, WithIs DEF FrameOps
<1>7. c \in Items(M, F) /\ c.op = "push" /\ c.pin = p /\ c.frame = f
  BY <1>3, WithItem, WithIs DEF FrameOps
<1>8. d \in Items(M, F) /\ d.op = "release" /\ d.pin = p
  BY <1>4, OnItem, OnIs DEF PinOps
<1>9. y = <<a, b, c, d>>
  BY <1>1, <1>2, <1>3, <1>4 DEF Completion
<1>10. /\ y \in Seq(Items(M, F)) /\ Len(y) = 4 /\ y[1] = a /\ y[2] = b /\ y[3] = c /\ y[4] = d
       /\ \A i \in 1 .. Len(y) : i \in {1, 2, 3, 4}
  BY <1>5, <1>6, <1>7, <1>8, <1>9
<1>11. \A i \in 1 .. Len(y) : /\ y[i].op \in HasPin \ (SoloOps \cup LockOps) /\ y[i].pin = p
                              /\ y[i].op \in FrameOps => y[i].frame = f
  BY <1>5, <1>6, <1>7, <1>8, <1>10 DEF HasPin, FrameOps, PinOps, SoloOps, LockOps
<1>12. ASSUME NEW ops \in {RefOps, HoldOps, ReadOps}
       PROVE  \E j \in 1 .. Len(y) : y[j].op \in ops /\ \A i \in 1 .. Len(y) : i # j => y[i].op \notin ops
  <2>1. CASE ops = RefOps
    <3>1. y[4].op \in ops /\ \A i \in 1 .. Len(y) : i # 4 => y[i].op \notin ops
      BY <1>5, <1>6, <1>7, <1>8, <1>10, <2>1 DEF RefOps
    <3> QED
      BY <1>10, <3>1
  <2>2. CASE ops = HoldOps
    <3>1. y[3].op \in ops /\ \A i \in 1 .. Len(y) : i # 3 => y[i].op \notin ops
      BY <1>5, <1>6, <1>7, <1>8, <1>10, <2>2 DEF HoldOps
    <3> QED
      BY <1>10, <3>1
  <2>3. CASE ops = ReadOps
    <3>1. y[1].op \in ops /\ \A i \in 1 .. Len(y) : i # 1 => y[i].op \notin ops
      BY <1>5, <1>6, <1>7, <1>8, <1>10, <2>3 DEF ReadOps
    <3> QED
      BY <1>10, <3>1
  <2> QED
    BY <2>1, <2>2, <2>3
<1>13. \A i \in 1 .. Len(y) :
          /\ y[i].op \in NeedOps => i < Len(y) /\ y[Len(y)].op = "release"
          /\ y[i].op = "push" => i = Len(y) - 1
          /\ y[i].op = "process" => i = Len(y) - 2 /\ y[Len(y) - 1].op = "push"
  BY <1>5, <1>6, <1>7, <1>8, <1>10 DEF NeedOps
<1> QED
  BY <1>10, <1>11, <1>12, <1>13 DEF FrameCalls

\* It now holds the buffer, will read again and has the reference of the read.
Handling(p, f) == [op |-> "fail", pin |-> p, frame |-> f]

\* In the accounts it stands for a request.
LEMMA FrameTraded ==
    ASSUME NEW T, NEW F, NEW M \in Nat, NEW t, NEW y, Moved(T, F, M, t, 0, y), Height(todo, t) = 0,
           NEW p, NEW f, FrameCalls(y, M, F, p, f)
    PROVE  Traded(T, F, M, p, Nothing, Handling(p, f))
<1> DEFINE E == Items(M, F)
<1>0. \A i \in 1 .. Len(y) : y[i] \in E /\ y[i].pin = p
  BY MovedIs DEF FrameCalls
<1>1. \A K : \A h \in 0 + 1 .. Height(todo, t) : Item(todo, t, h) \notin K
  OBVIOUS
<1>2. /\ One(Nothing.op \in RefOps) = 0 /\ One(Handling(p, f).op \in RefOps) = 1
      /\ One(Nothing.op \in ReadOps) = 0 /\ One(Handling(p, f).op \in ReadOps) = 1
  BY DEF One, RefOps, ReadOps, Nothing, Handling
<1>3. /\ Number(todo, T, RefsOf(E, p)) \in Nat /\ Number(todo', T, RefsOf(E, p)) \in Nat
      /\ Number(todo', T, RefsOf(E, p)) = Number(todo, T, RefsOf(E, p)) + 1
  <2>1. PICK j \in 1 .. Len(y) : y[j].op \in RefOps /\ \A i \in 1 .. Len(y) : i # j => y[i].op \notin RefOps
    BY DEF FrameCalls
  <2>2. y[j] \in RefsOf(E, p) /\ \A i \in 1 .. Len(y) : i # j => y[i] \notin RefsOf(E, p)
    BY <1>0, <2>1 DEF RefsOf
  <2>3. One(y[j] \in RefsOf(E, p)) = 1
    BY <2>2 DEF One
  <2> HIDE DEF E
  <2> QED
    BY <1>1, <2>2, <2>3, CountNew
<1>4. /\ Number(todo, T, ReadsOf(E, p)) \in Nat /\ Number(todo', T, ReadsOf(E, p)) \in Nat
      /\ Number(todo', T, ReadsOf(E, p)) = Number(todo, T, ReadsOf(E, p)) + 1
  <2>1. PICK j \in 1 .. Len(y) : y[j].op \in ReadOps /\ \A i \in 1 .. Len(y) : i # j => y[i].op \notin ReadOps
    BY DEF FrameCalls
  <2>2. y[j] \in ReadsOf(E, p) /\ \A i \in 1 .. Len(y) : i # j => y[i] \notin ReadsOf(E, p)
    BY <1>0, <2>1 DEF ReadsOf
  <2>3. One(y[j] \in ReadsOf(E, p)) = 1
    BY <2>2 DEF One
  <2> HIDE DEF E
  <2> QED
    BY <1>1, <2>2, <2>3, CountNew
<1>5. ASSUME NEW g \in F
      PROVE  /\ Number(todo, T, HoldsOf(E, p, g)) \in Nat /\ Number(todo', T, HoldsOf(E, p, g)) \in Nat
             /\ Number(todo', T, HoldsOf(E, p, g)) = Number(todo, T, HoldsOf(E, p, g)) + One(f = g)
  <2>1. PICK j \in 1 .. Len(y) : y[j].op \in HoldOps /\ \A i \in 1 .. Len(y) : i # j => y[i].op \notin HoldOps
    BY DEF FrameCalls
  <2>2. y[j].frame = f
    BY <2>1 DEF FrameCalls, HoldOps, FrameOps
  <2>3. (y[j] \in HoldsOf(E, p, g) <=> f = g) /\ \A i \in 1 .. Len(y) : i # j => y[i] \notin HoldsOf(E, p, g)
    BY <1>0, <2>1, <2>2 DEF HoldsOf
  <2>4. One(y[j] \in HoldsOf(E, p, g)) = One(f = g)
    BY <2>3 DEF One
  <2> HIDE DEF E
  <2> QED
    BY <1>1, <2>3, <2>4, CountNew
<1>6. \A g \in F : /\ One(Nothing.op \in HoldOps /\ Nothing.frame = g) = 0
                   /\ One(Handling(p, f).op \in HoldOps /\ Handling(p, f).frame = g) = One(f = g)
  BY DEF One, HoldOps, Nothing, Handling
<1> HIDE DEF E
<1>7. Number(todo', T, RefsOf(E, p)) + 0 = Number(todo, T, RefsOf(E, p)) + 1
  BY <1>3
<1>8. Number(todo', T, ReadsOf(E, p)) + 0 = Number(todo, T, ReadsOf(E, p)) + 1
  BY <1>4
<1>9. \A g \in F : Number(todo', T, HoldsOf(E, p, g)) + 0 = Number(todo, T, HoldsOf(E, p, g)) + One(f = g)
  BY <1>5
<1> QED
  BY <1>2, <1>3, <1>4, <1>5, <1>6, <1>7, <1>8, <1>9 DEF Traded, E

\* Its calls are in their places.
LEMMA FrameFilled ==
    ASSUME NEW T, NEW F, NEW M \in Nat, NEW Q, NEW t \in Q, NEW y, Moved(T, F, M, t, 0, y),
           NEW p, NEW f, FrameCalls(y, M, F, p, f), Filled(todo, T, Q)
    PROVE  Filled(todo, T, Q)'
<1>0. /\ Comes(todo, todo', T, t, 0, y) /\ Height(todo', t) = Len(y) /\ Len(y) \in Nat
      /\ \A i \in 1 .. Len(y) : Item(todo', t, Len(y) + 1 - i) = y[i]
      /\ \A u \in T \ {t} : todo'[u] = todo[u]
  BY MovedIs
<1>1. ASSUME NEW u \in T, NEW h \in 1 .. Height(todo', u)
      PROVE  /\ Item(todo', u, h).op = "push" => h = 2 /\ u \in Q
             /\ Item(todo', u, h).op = "process" =>
                   /\ h = 3 /\ Item(todo', u, 2).op = "push"
                   /\ Item(todo', u, 2).pin = Item(todo', u, h).pin
                   /\ Item(todo', u, 2).frame = Item(todo', u, h).frame
  <2>1. CASE u # t
    <3>1. todo'[u] = todo[u]
      BY <1>0, <2>1
    <3> QED
      BY <3>1 DEF Filled, Item, Height
  <2>2. CASE u = t
    <3>1. PICK i : i = Len(y) + 1 - h
      OBVIOUS
    <3>2. i \in 1 .. Len(y) /\ h = Len(y) + 1 - i
      BY <1>0, <1>1, <2>2, <3>1
    <3>3. Item(todo', u, h) = y[i]
      BY <1>0, <2>2, <3>2
    <3>4. /\ y[i].op = "push" => i = Len(y) - 1
          /\ y[i].op = "process" => i = Len(y) - 2 /\ y[Len(y) - 1].op = "push"
      BY <3>2 DEF FrameCalls
    <3>5. y[i].op = "push" => h = 2 /\ u \in Q
      BY <1>0, <2>2, <3>2, <3>4
    <3>6. ASSUME y[i].op = "process"
          PROVE  /\ h = 3 /\ Item(todo', u, 2).op = "push"
                 /\ Item(todo', u, 2).pin = y[i].pin /\ Item(todo', u, 2).frame = y[i].frame
      <4>1. PICK k : k = Len(y) - 1
        OBVIOUS
      <4>2. k \in 1 .. Len(y) /\ Len(y) + 1 - k = 2 /\ h = 3 /\ y[k].op = "push"
        BY <1>0, <3>2, <3>4, <3>6, <4>1
      <4>3. Item(todo', u, 2) = y[k]
        BY <1>0, <2>2, <4>2
      <4>4. y[k].pin = p /\ y[i].pin = p /\ y[k].frame = f /\ y[i].frame = f
        BY <3>2, <3>6, <4>2 DEF FrameCalls, FrameOps
      <4> QED
        BY <4>2, <4>3, <4>4
    <3> QED
      BY <3>3, <3>5, <3>6
  <2> QED
    BY <2>1, <2>2
<1> QED
  BY <1>1 DEF Filled

\* A thread with nothing to do takes these calls.
LEMMA Idles ==
    ASSUME NEW T, IsFiniteSet(T), NEW F, NEW M, PinTypes(T, F, M), NEW t \in T, todo[t] = <<>>,
           NEW y \in Seq(Items(M, F)), todo' = [todo EXCEPT ![t] = y]
    PROVE  Moved(T, F, M, t, 0, y) /\ Height(todo, t) = 0
<1>1. todo \in [T -> Seq(Items(M, F))]
  BY DEF PinTypes
<1>2. todo' \in [T -> Seq(Items(M, F))] /\ Pushed(todo, todo', T, t, 0, y)
  BY <1>1, NewPushes
<1>3. Height(todo, t) = 0
  BY <1>1, HeightIsNat
<1> QED
  BY <1>1, <1>2, <1>3 DEF Moved

\* Its calls need the pin no longer than they have its reference.
LEMMA FrameBacked ==
    ASSUME NEW T, NEW F, NEW M \in Nat, NEW B, NEW C, NEW t, NEW y, Moved(T, F, M, t, 0, y),
           NEW p, NEW f, FrameCalls(y, M, F, p, f), Backed(todo, T, B), B \subseteq C, pin' = pin
    PROVE  Backed(todo, T, C)'
<1>0. /\ Height(todo', t) = Len(y) /\ Len(y) \in Nat /\ t \in T
      /\ \A i \in 1 .. Len(y) : Item(todo', t, Len(y) + 1 - i) = y[i]
  BY MovedIs
<1>1. \A i \in 1 .. Len(y) : y[i].op \notin SoloOps /\ y[i].pin = p
  BY DEF FrameCalls
<1>2. \A u, r : Starting(todo, T, B, u, r) => Starting(todo, T, C, u, r)'
  BY <1>1, StartingStays
<1>3. ASSUME NEW i \in 1 .. Len(y), y[i].op \in NeedOps
      PROVE  ReleaseBelow(todo', t, 0 + Len(y) + 1 - i, y[i].pin)
  <2>1. i < Len(y) /\ y[Len(y)].op = "release"
    BY <1>3 DEF FrameCalls
  <2>2. Len(y) \in 1 .. Len(y) /\ Len(y) + 1 - Len(y) = 1
    BY <1>0, <2>1
  <2>3. Item(todo', t, 1) = y[Len(y)]
    BY <1>0, <2>2
  <2>4. 1 \in 1 .. (0 + Len(y) + 1 - i) - 1
    BY <1>0, <2>1
  <2>5. Item(todo', t, 1).op = "release" /\ Item(todo', t, 1).pin = y[i].pin
    BY <1>1, <2>1, <2>2, <2>3
  <2> QED
    BY <2>4, <2>5 DEF ReleaseBelow
<1>4. NewBacked(T, C, t, 0, y)'
  BY <1>3 DEF NewBacked
<1> QED
  BY <1>2, <1>4, BackedStep

\* A posted frame comes back,
LEMMA DoneStep ==
    ASSUME NEW T, IsFiniteSet(T), NEW Q \in SUBSET T, NEW F, IsFiniteSet(F), NEW M \in Nat, NEW B, NEW C,
           PinInv(T, Q, F, M, B), B \subseteq C, Reads \in Int, NEW t \in Q, todo[t] = <<>>,
           NEW p \in 1 .. made, NEW f \in posted[p], posted' = [posted EXCEPT ![p] = @ \ {f}],
           NEW y, FrameCalls(y, M, F, p, f), todo' = [todo EXCEPT ![t] = y],
           UNCHANGED <<pin, made, handle, users, refs, running, free, dead, lost, dry>>
    PROVE  PinInv(T, Q, F, M, C)'
<1>1. /\ PinTypes(T, F, M) /\ (\A q \in 1 .. M : Books(T, F, M, q))
      /\ Known(todo, T) /\ Filled(todo, T, Q) /\ Backed(todo, T, B)
      /\ LockPlaces(todo, T) /\ Locked(todo, T, M) /\ (\A q \in 1 .. M : HandleIs(T, q))
      /\ Fresh(T, M) /\ Solo(todo, T) /\ Spare(Q, F)
  BY Parts
<1>2. Moved(T, F, M, t, 0, y) /\ Height(todo, t) = 0 /\ t \in T
  BY <1>1, Idles, ZenonT(40) DEF FrameCalls
<1>3. /\ made \in Nat /\ made <= M /\ p \in 1 .. M /\ p <= made /\ p \in Nat /\ posted[p] \in SUBSET F /\ f \in F
      /\ refs[p] \in Nat /\ free[p] \in SUBSET F /\ posted'[p] = posted[p] \ {f} /\ posted' \in [1 .. M -> SUBSET F]
      /\ \A q \in 1 .. M : q # p => posted'[q] = posted[q]
  <2>0. PinTypes(T, F, M)
    BY <1>1
  <2>00. made \in 0 .. M
    BY <2>0 DEF PinTypes
  <2>01. made \in Nat /\ made <= M
    BY <2>00
  <2>02. posted \in [1 .. M -> SUBSET F] /\ refs \in [1 .. M -> Nat] /\ free \in [1 .. M -> SUBSET F]
    BY <2>0 DEF PinTypes
  <2>1. /\ made \in Nat /\ made <= M /\ posted \in [1 .. M -> SUBSET F] /\ refs \in [1 .. M -> Nat]
        /\ free \in [1 .. M -> SUBSET F]
    BY <2>01, <2>02
  <2>2. p \in 1 .. M /\ p <= made /\ p \in Nat
    BY <2>1
  <2>3. /\ posted'[p] = posted[p] \ {f} /\ posted' \in [1 .. M -> SUBSET F]
        /\ \A q \in 1 .. M : q # p => posted'[q] = posted[q]
    BY <2>1, <2>2
  <2>4. posted[p] \in SUBSET F /\ f \in F /\ refs[p] \in Nat /\ free[p] \in SUBSET F
    BY <2>1, <2>2
  <2> QED
    BY <2>1, <2>2, <2>3, <2>4
<1>4. handle[p] # "none" /\ f \notin free[p]
  <2>1. FrameBook(T, F, M, p, f)
    BY <1>1, <1>3 DEF Books
  <2>2. Number(todo, T, HoldsOf(Items(M, F), p, f)) \in Nat
    <3>1. todo \in [T -> Seq(Items(M, F))]
      BY <1>1 DEF PinTypes
    <3> QED
      BY <3>1, PlacesFinite
  <2>3. One(f \in posted[p]) = 1 /\ One(f \in free[p]) \in {0, 1} /\ One(handle[p] # "none") \in {0, 1}
    BY DEF One
  <2>4. PICK n \in Nat : n = Number(todo, T, HoldsOf(Items(M, F), p, f))
    BY <2>2
  <2>5. n + One(f \in free[p]) + 1 = One(handle[p] # "none")
    BY <2>1, <2>3, <2>4 DEF FrameBook
  <2>6. One(handle[p] # "none") = 1 /\ One(f \in free[p]) = 0
    BY <2>3, <2>4, <2>5
  <2> QED
    BY <2>6 DEF One
<1>5. \A i \in 1 .. Len(y) : y[i].op \notin SoloOps /\ y[i].op \notin LockOps /\ y[i].pin = p
  BY DEF FrameCalls
<1>6. \A h \in 0 + 1 .. Height(todo, t) : FALSE
  BY <1>2
<1>7. PinTypes(T, F, M)'
  <2>1. todo' \in [T -> Seq(Items(M, F))]
    BY <1>2 DEF Moved
  <2> QED
    BY <1>1, <1>3, <2>1 DEF PinTypes
<1>8. Known(todo, T)'
  <2>1. NewKnown(y)'
    BY <1>3, <1>4, <1>5 DEF NewKnown
  <2>2. made' \in Nat /\ made <= made' /\ \A q \in 1 .. M : handle[q] # "none" => handle'[q] # "none"
    BY <1>3
  <2> QED
    BY <1>1, <1>2, <1>3, <2>1, <2>2, KnownStep
<1>9. Filled(todo, T, Q)'
  BY <1>1, <1>2, FrameFilled
<1>10. Backed(todo, T, C)'
  BY <1>1, <1>2, FrameBacked
<1>11. LockPlaces(todo, T)' /\ Locked(todo, T, M)'
  BY <1>1, <1>2, <1>5, <1>6, LocksQuiet
<1>12. \A q : Owned(T, q)' <=> Owned(T, q)
  <2>1. \A i \in 1 .. Len(y) : y[i].op # "clear"
    BY <1>5 DEF SoloOps
  <2> QED
    BY <1>2, <1>6, <2>1, OwnedStays
<1>13. Fresh(T, M)'
  <2>1. FreshElsewhere(M, p)
    BY <1>3 DEF FreshElsewhere
  <2>2. NotOpening(todo, T, t, 0, y, p)
    <3>1. \A i \in 1 .. Len(y) : /\ y[i].op \notin {"create", "run"}
                                 /\ y[i].op \in HasPin => y[i].pin = p
      BY <1>5 DEF SoloOps
    <3>2. \A u \in T : \A h \in 1 .. Height(todo, u) :
              ~(Item(todo, u, h).op \in {"create", "run"} /\ Item(todo, u, h).pin = p)
      BY <1>1 DEF Fresh
    <3> QED
      BY <3>1, <3>2 DEF NotOpening
  <2> QED
    BY <1>1, <1>2, <2>1, <2>2, FreshStep
<1>14. Solo(todo, T)'
  BY <1>1, <1>2, <1>5, SoloStep
<1>15. ASSUME NEW q \in 1 .. M, q # p PROVE Books(T, F, M, q)' /\ HandleIs(T, q)'
  <2>1. SamePin(T, q)
    BY <1>3, <1>12, <1>15 DEF SamePin
  <2>2. Away(todo, t, 0, y, q)
    BY <1>5, <1>6, <1>15 DEF Away
  <2>3. SameCounts(T, F, M, q)
    BY <1>2, <2>2, AwayCounts
  <2>4. Books(T, F, M, q)'
    BY <1>1, <1>3, <2>1, <2>3, BooksSame
  <2>5. q \in Nat
    OBVIOUS
  <2>6. HandleIs(T, q)'
    BY <1>1, <1>2, <1>3, <2>1, <2>2, <2>5, HandleOther
  <2> QED
    BY <2>4, <2>6
<1>16. Books(T, F, M, p)'
  <2>1. Traded(T, F, M, p, Nothing, Handling(p, f))
    BY <1>2, FrameTraded
  <2>2. Cardinality(posted[p]) \in Nat /\ Cardinality(posted'[p]) = Cardinality(posted[p]) - 1
    BY <1>3, Cards
  <2>3. Settled(F, p, Nothing, Handling(p, f))
    <3>1. refs[p] \in Int /\ refs'[p] = refs[p]
      BY <1>3
    <3>2. /\ One(Nothing.op \in RefOps) = 0 /\ One(Handling(p, f).op \in RefOps) = 1
          /\ One(Nothing.op \in ReadOps) = 0 /\ One(Handling(p, f).op \in ReadOps) = 1
      BY DEF One, RefOps, ReadOps, Nothing, Handling
    <3>3. ASSUME NEW g \in F
          PROVE  One(g \in free'[p]) + One(g \in posted'[p])
                     + One(Handling(p, f).op \in HoldOps /\ Handling(p, f).frame = g)
                   = One(g \in free[p]) + One(g \in posted[p]) + One(Nothing.op \in HoldOps /\ Nothing.frame = g)
      BY <1>3, <1>4 DEF One, HoldOps, Nothing, Handling
    <3>4. p \in dead' <=> refs'[p] = 0
      BY <1>1, <1>3 DEF Books, PinBook
    <3>5. PICK m \in Nat : m = Cardinality(posted[p])
      BY <2>2
    <3>6. PICK r \in Int : r = refs[p]
      BY <3>1
    <3>7. Cardinality(posted'[p]) = m - 1 /\ m - 1 \in Int /\ refs'[p] = r
      BY <2>2, <3>1, <3>5, <3>6
    <3>8. r + 0 + m = r + 1 + (m - 1) /\ m - 1 + 1 <= m + 0
      BY <3>5, <3>6, SMTT(30)
    <3> QED
      BY <3>2, <3>3, <3>4, <3>5, <3>6, <3>7, <3>8 DEF Settled
  <2>4. Standing(T, p) /\ handle'[p] # "none"
    BY <1>3, <1>4, <1>12 DEF Standing
  <2> QED
    BY <1>1, <1>3, <2>1, <2>3, <2>4, BooksStand
<1>17. HandleIs(T, p)'
  <2>1. WillClose(T, p) => WillClose(T, p)'
    BY <1>2, <1>6, <1>12, WillCloseKept
  <2> QED
    BY <1>1, <1>3, <1>12, <2>1 DEF HandleIs
<1>18. (\A q \in 1 .. M : Books(T, F, M, q))' /\ (\A q \in 1 .. M : HandleIs(T, q))'
  <2>1. \A q \in 1 .. M : Books(T, F, M, q)' /\ HandleIs(T, q)'
    BY <1>15, <1>16, <1>17
  <2> QED
    BY <2>1
<1>19. Spare(Q, F)'
  BY <1>1 DEF Spare
<1> QED
  BY <1>7, <1>8, <1>9, <1>10, <1>11, <1>13, <1>14, <1>18, <1>19, Whole

\* so it is for KsRead's completion.
LEMMA ReadDoneStep ==
    ASSUME NEW T, IsFiniteSet(T), NEW Q \in SUBSET T, NEW F, IsFiniteSet(F), NEW M \in Nat, NEW B, NEW C,
           PinInv(T, Q, F, M, B), B \subseteq C, Reads \in Int, NEW t \in Q, ReadDone(t)
    PROVE  PinInv(T, Q, F, M, C)'
<1>1. PICK p \in 1 .. made : \E f \in posted[p] :
         /\ posted' = [posted EXCEPT ![p] = @ \ {f}]
         /\ \/ todo' = [todo EXCEPT ![t] = Completion(p, f)]
            \/ todo' = [todo EXCEPT ![t] = <<With("fail", p, f)>>]
  BY DEF ReadDone
<1>2. PICK f \in posted[p] :
         /\ posted' = [posted EXCEPT ![p] = @ \ {f}]
         /\ \/ todo' = [todo EXCEPT ![t] = Completion(p, f)]
            \/ todo' = [todo EXCEPT ![t] = <<With("fail", p, f)>>]
  BY <1>1
<1>3. p \in 1 .. M /\ f \in F
  <2>1. PinTypes(T, F, M)
    BY Parts
  <2> QED
    BY <2>1 DEF PinTypes
<1>4. /\ todo[t] = <<>>
      /\ UNCHANGED <<pin, made, handle, users, refs, running, free, dead, lost, dry>>
  BY DEF ReadDone
<1>5. PICK y : /\ FrameCalls(y, M, F, p, f) /\ todo' = [todo EXCEPT ![t] = y]
  BY <1>2, <1>3, FailedCalls, CompletionCalls
<1> QED
  BY <1>2, <1>4, <1>5, DoneStep

-----------------------------------------------------------------------------
\* The steps of the programs.  Those of calls that are of no pin.
PlainOnly(f, t, b, calls) ==
    /\ \A h \in b + 1 .. Height(f, t) : Item(f, t, h).op \notin HasPin
    /\ \A i \in 1 .. Len(calls) : calls[i].op \notin HasPin
NoClear(f, t, b, calls) ==
    /\ \A h \in b + 1 .. Height(f, t) : Item(f, t, h).op # "clear"
    /\ \A i \in 1 .. Len(calls) : calls[i].op # "clear"
IdleButPin == /\ made' = made /\ handle' = handle /\ users' = users /\ refs' = refs /\ running' = running
              /\ free' = free /\ posted' = posted /\ dead' = dead /\ lost' = lost /\ dry' = dry
SoloFits(f, T, t, b, calls) ==
    \/ \A i \in 1 .. Len(calls) : calls[i].op \notin SoloOps
    \/ /\ \A i, j \in 1 .. Len(calls) : calls[i].op \in SoloOps /\ calls[j].op \in SoloOps => i = j
       /\ \/ ~Somewhere(f, T, SoloOps)
          \/ \E h \in b + 1 .. Height(f, t) : Item(f, t, h).op \in SoloOps
BackFits(T, t, b, B, C) ==
    \A u \in T : \A h \in 1 .. Height(todo, u) :
        /\ u = t => h <= b
        /\ Item(todo, u, h).op \in NeedOps
        => \A p : Starting(todo, T, B, u, p) => Starting(todo, T, C, u, p)'

\* The pin of a call is one of the pins.
LEMMA PinIsSome ==
    ASSUME NEW T, NEW F, NEW M, NEW t, NEW b, NEW calls, Moved(T, F, M, t, b, calls),
           NEW u \in T, NEW h \in 1 .. Height(todo, u), Item(todo, u, h).op \in HasPin
    PROVE  Item(todo, u, h).pin \in 1 .. M
<1>1. Item(todo, u, h) \in Items(M, F)
  BY ItemsOf
<1> QED
  BY <1>1, Kinds_

\* Pins being opened are as they were.
LEMMA FreshPlain ==
    ASSUME NEW T, NEW F, NEW M \in Nat, NEW t, NEW b, NEW calls, Moved(T, F, M, t, b, calls),
           Fresh(T, M), PlainOnly(todo, t, b, calls), pin' \in {pin, 0}, lost' = lost, posted' = posted, handle' = handle
    PROVE  Fresh(T, M)'
<1>1. FreshElsewhere(M, 0)
  BY DEF FreshElsewhere
<1>2. NotOpening(todo, T, t, b, calls, 0)
  <2>1. \A i \in 1 .. Len(calls) : calls[i].op \notin {"create", "run"} /\ calls[i].op \notin HasPin
    BY DEF PlainOnly, HasPin, PinOps
  <2>2. ASSUME NEW u \in T, NEW h \in 1 .. Height(todo, u), Item(todo, u, h).op \in {"create", "run"}
        PROVE  Item(todo, u, h).pin # 0
    <3>1. Item(todo, u, h).pin \in 1 .. M
      BY <2>2, PinIsSome DEF HasPin, PinOps
    <3> QED
      BY <3>1
  <2> QED
    BY <2>1, <2>2 DEF NotOpening
<1> QED
  BY <1>1, <1>2, FreshStep

\* A step of calls of no pin, and the owner keeps its pin, or gives up one that it is stopping;
LEMMA PlainOwned ==
    ASSUME NEW T, NEW Q, NEW F, NEW M \in Nat, NEW B, NEW C, PinInv(T, Q, F, M, B),
           NEW t, NEW b, NEW calls, Moved(T, F, M, t, b, calls), b < Height(todo, t) \/ Height(todo, t) = 0,
           PlainOnly(todo, t, b, calls), SoloFits(todo, T, t, b, calls), BackFits(T, t, b, B, C), IdleButPin,
           pin' \in {pin, 0}, \A q \in 1 .. M : Owned(T, q)' <=> Owned(T, q)
    PROVE  PinInv(T, Q, F, M, C)'
<1>1. /\ PinTypes(T, F, M) /\ (\A q \in 1 .. M : Books(T, F, M, q))
      /\ Known(todo, T) /\ Filled(todo, T, Q) /\ Backed(todo, T, B)
      /\ LockPlaces(todo, T) /\ Locked(todo, T, M) /\ (\A q \in 1 .. M : HandleIs(T, q))
      /\ Fresh(T, M) /\ Solo(todo, T) /\ Spare(Q, F)
  BY Parts
<1>2. /\ made' = made /\ handle' = handle /\ users' = users /\ refs' = refs /\ running' = running
      /\ free' = free /\ posted' = posted /\ dead' = dead /\ lost' = lost /\ dry' = dry
  BY DEF IdleButPin
<1>3. made \in Nat
  BY <1>1 DEF PinTypes
<1>4. /\ \A h \in b + 1 .. Height(todo, t) : Item(todo, t, h).op \notin HasPin
      /\ \A i \in 1 .. Len(calls) : calls[i].op \notin HasPin
  BY DEF PlainOnly
<1>5. /\ \A i \in 1 .. Len(calls) : calls[i].op \notin LockOps \cup {"push", "process"} \cup NeedOps
      /\ \A h \in b + 1 .. Height(todo, t) : Item(todo, t, h).op \notin LockOps
  BY <1>4 DEF LockOps, NeedOps, HasPin, PinOps, FrameOps
<1>6. b < Height(todo, t) \/ b = 0
  BY MovedIs
<1>7. PinTypes(T, F, M)'
  <2>1. todo' \in [T -> Seq(Items(M, F))]
    BY DEF Moved
  <2> QED
    BY <1>1, <1>2, <2>1 DEF PinTypes
<1>8. Known(todo, T)'
  <2>1. NewKnown(calls)'
    BY <1>4 DEF NewKnown
  <2>2. made' \in Nat /\ made <= made' /\ \A q \in 1 .. M : handle[q] # "none" => handle'[q] # "none"
    BY <1>2, <1>3
  <2> QED
    BY <1>1, <1>3, <2>1, <2>2, KnownStep
<1>9. Filled(todo, T, Q)'
  BY <1>1, <1>5, FilledStep
<1>10. Backed(todo, T, C)'
  <2>1. NewBacked(T, C, t, b, calls)'
    BY <1>5 DEF NewBacked
  <2> QED
    BY <1>1, <2>1, BackedStep DEF BackFits
<1>11. LockPlaces(todo, T)' /\ Locked(todo, T, M)'
  BY <1>1, <1>2, <1>5, <1>6, LocksQuiet
<1>13. Fresh(T, M)'
  BY <1>1, <1>2, FreshPlain
<1>14. Solo(todo, T)'
  BY <1>1, SoloStep DEF SoloFits
<1>15. ASSUME NEW q \in 1 .. M PROVE Books(T, F, M, q)' /\ HandleIs(T, q)'
  <2>1. SamePin(T, q)
    BY <1>2 DEF SamePin
  <2>2. Away(todo, t, b, calls, q)
    BY <1>4 DEF Away
  <2>3. SameCounts(T, F, M, q)
    BY <2>2, AwayCounts
  <2>4. Books(T, F, M, q)'
    BY <1>1, <1>2, <1>3, <2>1, <2>3, BooksSame
  <2>5. q \in Nat /\ made' \in Nat
    BY <1>2, <1>3
  <2>6. HandleIs(T, q)'
    BY <1>1, <1>2, <1>3, <2>1, <2>2, <2>5, HandleOther
  <2> QED
    BY <2>4, <2>6
<1>16. (\A q \in 1 .. M : Books(T, F, M, q))' /\ (\A q \in 1 .. M : HandleIs(T, q))'
  <2>1. \A q \in 1 .. M : Books(T, F, M, q)' /\ HandleIs(T, q)'
    BY <1>15
  <2> QED
    BY <2>1
<1>17. Spare(Q, F)'
  BY <1>1, <1>2 DEF Spare
<1> QED
  BY <1>7, <1>8, <1>9, <1>10, <1>11, <1>13, <1>14, <1>16, <1>17, Whole

\* and one that clears nothing.
LEMMA PlainStep ==
    ASSUME NEW T, NEW Q, NEW F, NEW M \in Nat, NEW B, NEW C, PinInv(T, Q, F, M, B),
           NEW t, NEW b, NEW calls, Moved(T, F, M, t, b, calls), b < Height(todo, t) \/ Height(todo, t) = 0,
           PlainOnly(todo, t, b, calls), NoClear(todo, t, b, calls), SoloFits(todo, T, t, b, calls),
           BackFits(T, t, b, B, C), Idle
    PROVE  PinInv(T, Q, F, M, C)'
<1>1. IdleButPin /\ pin' = pin
  BY DEF Idle, IdleButPin
<1>2. \A q : Owned(T, q)' <=> Owned(T, q)
  BY <1>1, OwnedStays DEF NoClear
<1>3. pin' \in {pin, 0} /\ \A q \in 1 .. M : Owned(T, q)' <=> Owned(T, q)
  BY <1>1, <1>2
<1> QED
  BY <1>1, <1>3, PlainOwned

\* Whoever has a call of some kind as the first.
LEMMA AtSomewhere ==
    ASSUME NEW T, NEW F, NEW M \in Nat, PinTypes(T, F, M), NEW t \in T, NEW op, At(t, op)
    PROVE  /\ todo[t] # <<>> /\ Height(todo, t) \in 1 .. Height(todo, t)
           /\ Item(todo, t, Height(todo, t)) = Head(todo[t]) /\ Head(todo[t]).op = op
           /\ Height(todo, t) \in Nat
           /\ \A h \in Height(todo, t) - 1 + 1 .. Height(todo, t) : h = Height(todo, t)
<1>1. todo[t] # <<>> /\ Head(todo[t]).op = op
  BY DEF At
<1>2. Height(todo, t) \in Nat /\ Height(todo, t) > 0 /\ Item(todo, t, Height(todo, t)) = Head(todo[t])
  BY <1>1, Top
<1> QED
  BY <1>1, <1>2

\* The owner forgets the pin that it stopped.
LEMMA ClearStep ==
    ASSUME NEW T, IsFiniteSet(T), NEW Q, NEW F, NEW M \in Nat, NEW B, NEW C, PinInv(T, Q, F, M, B),
           NEW t \in T, Clear(t)
    PROVE  PinInv(T, Q, F, M, C)'
<1> DEFINE n == Height(todo, t)
<1>1. PinTypes(T, F, M)
  BY Parts
<1>2. /\ At(t, "clear") /\ pin' = 0 /\ Do(t, <<>>)
      /\ UNCHANGED <<made, handle, users, refs, running, free, posted, dead, lost, dry>>
  BY DEF Clear, NoPin
<1>3. /\ todo[t] # <<>> /\ n \in 1 .. n /\ Item(todo, t, n).op = "clear" /\ n \in Nat
      /\ \A h \in n - 1 + 1 .. n : h = n
  BY <1>1, <1>2, AtSomewhere
<1>4. Moved(T, F, M, t, n - 1, <<>>) /\ n - 1 < n
  <2>1. <<>> \in Seq(Items(M, F))
    BY NoCalls
  <2> QED
    BY <1>1, <1>2, <1>3, <2>1, Doing
<1>5. Somewhere(todo, T, {"clear"}) /\ Somewhere(todo, T, SoloOps)
  BY <1>3 DEF Somewhere, SoloOps
<1>6. \A h \in n - 1 + 1 .. n : Item(todo, t, h).op = "clear"
  BY <1>3
<1> HIDE DEF n
<1>7. PlainOnly(todo, t, n - 1, <<>>)
  BY <1>6 DEF PlainOnly, HasPin, PinOps, FrameOps, n
<1>8. SoloFits(todo, T, t, n - 1, <<>>)
  BY DEF SoloFits
<1>9. BackFits(T, t, n - 1, B, C)
  BY <1>5 DEF BackFits, Starting
<1>10. \A q \in 1 .. M : Owned(T, q)' <=> Owned(T, q)
  BY <1>2, <1>5 DEF Owned
<1>11. IdleButPin /\ pin' \in {pin, 0}
  BY <1>2 DEF IdleButPin
<1> QED
  BY <1>4, <1>7, <1>8, <1>9, <1>10, <1>11, PlainOwned DEF n

\* The owner stops its pin: it is no longer the owner's from here, but the call to
\* release it is.
StopCalls_(x, M, F, q) ==
    /\ x \in Seq(Items(M, F))
    /\ \A i \in 1 .. Len(x) : /\ x[i].op \notin LockOps \cup {"push", "process", "create", "run"}
                              /\ x[i].op \in HasPin => x[i].pin = q
    /\ \E j \in 1 .. Len(x) :
          /\ x[j].op = "release" /\ \A i \in 1 .. Len(x) : i # j => x[i].op \notin Counted_
          /\ \A i \in 1 .. Len(x) : x[i].op \in NeedOps => i < j
    /\ \E i \in 1 .. Len(x) : x[i].op = "clear"
    /\ \E i \in 1 .. Len(x) : x[i].op \in {"close", "pinstop"}
    /\ \A i, j \in 1 .. Len(x) : x[i].op \in SoloOps /\ x[j].op \in SoloOps => i = j

\* A call made is somewhere.
LEMMA GivenSomewhere ==
    ASSUME NEW T, NEW F, NEW M, NEW t, NEW b, NEW calls, Moved(T, F, M, t, b, calls), NEW ops,
           NEW i \in 1 .. Len(calls), calls[i].op \in ops
    PROVE  Somewhere(todo', T, ops)
<1>1. /\ t \in T /\ b \in Nat /\ Len(calls) \in Nat /\ Height(todo', t) = b + Len(calls)
      /\ Item(todo', t, b + Len(calls) + 1 - i) = calls[i]
  BY MovedIs
<1>2. PICK h : h = b + Len(calls) + 1 - i
  OBVIOUS
<1>3. h \in 1 .. Height(todo', t) /\ Item(todo', t, h) = calls[i]
  BY <1>1, <1>2
<1> QED
  BY <1>1, <1>3 DEF Somewhere

\* The calls that need the pin are above the one that releases it.
LEMMA StopBacked ==
    ASSUME NEW T, NEW F, NEW M \in Nat, NEW C, NEW t, NEW b, NEW x, Moved(T, F, M, t, b, x),
           NEW q, StopCalls_(x, M, F, q)
    PROVE  NewBacked(T, C, t, b, x)'
<1>0. /\ b \in Nat /\ Len(x) \in Nat /\ t \in T
      /\ \A i \in 1 .. Len(x) : Item(todo', t, b + Len(x) + 1 - i) = x[i]
  BY MovedIs
<1>1. PICK j \in 1 .. Len(x) : x[j].op = "release" /\ \A i \in 1 .. Len(x) : x[i].op \in NeedOps => i < j
  BY DEF StopCalls_
<1>2. ASSUME NEW i \in 1 .. Len(x), x[i].op \in NeedOps
      PROVE  ReleaseBelow(todo', t, b + Len(x) + 1 - i, x[i].pin)
  <2>1. i < j
    BY <1>1, <1>2
  <2>2. PICK h : h = b + Len(x) + 1 - j
    OBVIOUS
  <2>3. Item(todo', t, h) = x[j] /\ h \in 1 .. (b + Len(x) + 1 - i) - 1
    BY <1>0, <2>1, <2>2
  <2>4. x[i].pin = q /\ x[j].pin = q
    BY <1>1, <1>2 DEF StopCalls_, NeedOps, HasPin, PinOps, FrameOps
  <2>5. Item(todo', t, h).op = "release" /\ Item(todo', t, h).pin = x[i].pin
    BY <1>1, <2>3, <2>4
  <2> QED
    BY <2>3, <2>5 DEF ReleaseBelow
<1> QED
  BY <1>2 DEF NewBacked

\* They bring one reference.
LEMMA StopTraded ==
    ASSUME NEW T, NEW F, NEW M \in Nat, NEW t, NEW b, NEW x, Moved(T, F, M, t, b, x),
           PlainOnly(todo, t, b, <<>>), NEW q, StopCalls_(x, M, F, q)
    PROVE  /\ Number(todo, T, RefsOf(Items(M, F), q)) \in Nat
           /\ Number(todo', T, RefsOf(Items(M, F), q)) = Number(todo, T, RefsOf(Items(M, F), q)) + 1
           /\ Number(todo', T, ReadsOf(Items(M, F), q)) = Number(todo, T, ReadsOf(Items(M, F), q))
           /\ \A f \in F : Number(todo', T, HoldsOf(Items(M, F), q, f)) = Number(todo, T, HoldsOf(Items(M, F), q, f))
<1> DEFINE E == Items(M, F)
<1>1. PICK j \in 1 .. Len(x) : x[j].op = "release" /\ \A i \in 1 .. Len(x) : i # j => x[i].op \notin Counted_
  BY DEF StopCalls_
<1>2. x[j] \in E /\ x[j].pin = q
  BY <1>1, MovedIs DEF StopCalls_, HasPin, PinOps
<1>3. \A h \in b + 1 .. Height(todo, t) : Item(todo, t, h).op \notin Counted_
  BY DEF PlainOnly, Counted_, RefOps, ReadOps, HoldOps, HasPin, PinOps, FrameOps
<1>4. /\ x[j] \in RefsOf(E, q) /\ \A i \in 1 .. Len(x) : i # j => x[i] \notin RefsOf(E, q)
      /\ \A h \in b + 1 .. Height(todo, t) : Item(todo, t, h) \notin RefsOf(E, q)
  BY <1>1, <1>2, <1>3 DEF RefsOf, RefOps, Counted_
<1>5. /\ \A i \in 1 .. Len(x) : x[i] \notin ReadsOf(E, q)
      /\ \A h \in b + 1 .. Height(todo, t) : Item(todo, t, h) \notin ReadsOf(E, q)
  BY <1>1, <1>3 DEF ReadsOf, ReadOps, Counted_
<1>6. \A f \in F :
          /\ \A i \in 1 .. Len(x) : x[i] \notin HoldsOf(E, q, f)
          /\ \A h \in b + 1 .. Height(todo, t) : Item(todo, t, h) \notin HoldsOf(E, q, f)
  BY <1>1, <1>3 DEF HoldsOf, HoldOps, Counted_
<1>7. One(x[j] \in RefsOf(E, q)) = 1
  BY <1>4 DEF One
<1> HIDE DEF E
<1>8. /\ Number(todo, T, RefsOf(E, q)) \in Nat /\ Number(todo', T, RefsOf(E, q)) = Number(todo, T, RefsOf(E, q)) + 1
  BY <1>4, <1>7, CountNew
<1>9. Number(todo', T, ReadsOf(E, q)) = Number(todo, T, ReadsOf(E, q))
  BY <1>5, SameNumber
<1>10. \A f \in F : Number(todo', T, HoldsOf(E, q, f)) = Number(todo, T, HoldsOf(E, q, f))
  BY <1>6, SameNumber
<1> QED
  BY <1>8, <1>9, <1>10 DEF E

\* The owner's reference becomes that of the call to release the pin.
LEMMA StopStep ==
    ASSUME NEW T, IsFiniteSet(T), NEW Q, NEW F, IsFiniteSet(F), NEW M \in Nat, NEW B, NEW C, PinInv(T, Q, F, M, B),
           NEW t, NEW b, NEW x, Moved(T, F, M, t, b, x), b < Height(todo, t) \/ Height(todo, t) = 0,
           NEW q, q = pin, q # 0, Owned(T, q), StopCalls_(x, M, F, q),
           PlainOnly(todo, t, b, <<>>), SoloFits(todo, T, t, b, x), BackFits(T, t, b, B, C), Idle
    PROVE  PinInv(T, Q, F, M, C)'
<1>1. /\ PinTypes(T, F, M) /\ (\A p \in 1 .. M : Books(T, F, M, p))
      /\ Known(todo, T) /\ Filled(todo, T, Q) /\ Backed(todo, T, B)
      /\ LockPlaces(todo, T) /\ Locked(todo, T, M) /\ (\A p \in 1 .. M : HandleIs(T, p))
      /\ Fresh(T, M) /\ Solo(todo, T) /\ Spare(Q, F)
  BY Parts
<1>2. /\ pin' = pin /\ made' = made /\ handle' = handle /\ users' = users /\ refs' = refs /\ running' = running
      /\ free' = free /\ posted' = posted /\ dead' = dead /\ lost' = lost /\ dry' = dry
  BY DEF Idle
<1>3. made \in 0 .. M /\ pin \in 0 .. made /\ pin \notin lost
  BY <1>1 DEF PinTypes
<1>4. made \in Nat /\ q \in 1 .. M /\ q <= made /\ q \in Nat /\ q \notin lost
  BY <1>3
<1>5. handle[q] # "none"
  BY <1>1, <1>4 DEF HandleIs
<1>6. /\ \A h \in b + 1 .. Height(todo, t) : Item(todo, t, h).op \notin HasPin
      /\ \A i \in 1 .. Len(x) : x[i].op \notin LockOps \cup {"push", "process", "create", "run"}
      /\ \A i \in 1 .. Len(x) : x[i].op \in HasPin => x[i].pin = q
  BY DEF PlainOnly, StopCalls_
<1>7. b < Height(todo, t) \/ b = 0
  BY MovedIs
<1>8. PinTypes(T, F, M)'
  <2>1. todo' \in [T -> Seq(Items(M, F))]
    BY DEF Moved
  <2> QED
    BY <1>1, <1>2, <2>1 DEF PinTypes
<1>9. Known(todo, T)'
  <2>1. NewKnown(x)'
    BY <1>2, <1>4, <1>5, <1>6 DEF NewKnown
  <2>2. made' \in Nat /\ made <= made' /\ \A p \in 1 .. M : handle[p] # "none" => handle'[p] # "none"
    BY <1>2, <1>4
  <2> QED
    BY <1>1, <1>4, <2>1, <2>2, KnownStep
<1>10. Filled(todo, T, Q)'
  BY <1>1, <1>6, FilledStep
<1>11. Backed(todo, T, C)'
  <2>1. NewBacked(T, C, t, b, x)'
    BY StopBacked
  <2> QED
    BY <1>1, <2>1, BackedStep DEF BackFits
<1>12. LockPlaces(todo, T)' /\ Locked(todo, T, M)'
  <2>1. /\ \A i \in 1 .. Len(x) : x[i].op \notin LockOps
        /\ \A h \in b + 1 .. Height(todo, t) : Item(todo, t, h).op \notin LockOps
    BY <1>6 DEF LockOps, HasPin, PinOps, FrameOps
  <2> QED
    BY <1>1, <1>2, <1>7, <2>1, LocksQuiet
<1>13. Somewhere(todo', T, {"clear"})
  <2>1. PICK i \in 1 .. Len(x) : x[i].op \in {"clear"}
    BY DEF StopCalls_
  <2> QED
    BY <2>1, GivenSomewhere
<1>14. ~Owned(T, q)' /\ \A p : p # q => (Owned(T, p)' <=> Owned(T, p))
  BY <1>2, <1>13 DEF Owned
<1>15. Fresh(T, M)'
  <2>1. FreshElsewhere(M, q) /\ pin' \in {pin, 0}
    BY <1>2 DEF FreshElsewhere
  <2>2. NotOpening(todo, T, t, b, x, q)
    <3>1. \A u \in T : \A h \in 1 .. Height(todo, u) : Item(todo, u, h).op \notin {"create", "run"}
      BY <1>1 DEF Fresh
    <3> QED
      BY <1>6, <3>1 DEF NotOpening
  <2> QED
    BY <1>1, <2>1, <2>2, FreshStep
<1>16. Solo(todo, T)'
  BY <1>1, SoloStep DEF SoloFits
<1>17. ASSUME NEW p \in 1 .. M, p # q PROVE Books(T, F, M, p)' /\ HandleIs(T, p)'
  <2>1. SamePin(T, p)
    BY <1>2, <1>14, <1>17 DEF SamePin
  <2>2. Away(todo, t, b, x, p)
    BY <1>6, <1>17 DEF Away
  <2>3. SameCounts(T, F, M, p)
    BY <2>2, AwayCounts
  <2>4. Books(T, F, M, p)'
    BY <1>1, <1>2, <1>4, <2>1, <2>3, BooksSame
  <2>5. p \in Nat /\ made' \in Nat
    BY <1>2, <1>4
  <2>6. HandleIs(T, p)'
    BY <1>1, <1>2, <1>4, <2>1, <2>2, <2>5, HandleOther
  <2> QED
    BY <2>4, <2>6
<1>18. Books(T, F, M, q)'
  <2>1. /\ Number(todo, T, RefsOf(Items(M, F), q)) \in Nat
        /\ Number(todo', T, RefsOf(Items(M, F), q)) = Number(todo, T, RefsOf(Items(M, F), q)) + 1
        /\ Number(todo', T, ReadsOf(Items(M, F), q)) = Number(todo, T, ReadsOf(Items(M, F), q))
        /\ \A f \in F : Number(todo', T, HoldsOf(Items(M, F), q, f)) = Number(todo, T, HoldsOf(Items(M, F), q, f))
    BY StopTraded
  <2>2. PinBook(T, F, M, q) /\ ReadBook(T, F, M, q) /\ \A f \in F : FrameBook(T, F, M, q, f)
    BY <1>1, <1>4 DEF Books
  <2>3. One(q \in lost \/ Owned(T, q)) = 1 /\ One(q \in lost \/ Owned(T, q)') = 0
    BY <1>4, <1>14 DEF One
  <2>4. Cardinality(posted[q]) \in Nat
    <3>1. posted[q] \in SUBSET F
      BY <1>1, <1>4 DEF PinTypes
    <3> QED
      BY <3>1, CardNat
  <2>5. PICK m \in Nat : m = Cardinality(posted[q])
    BY <2>4
  <2>6. PICK k \in Nat : k = Number(todo, T, RefsOf(Items(M, F), q))
    BY <2>1
  <2>7. refs[q] = m + k + 1
    BY <2>2, <2>3, <2>5, <2>6 DEF PinBook
  <2>8. refs[q] = m + (k + 1) + 0
    BY <2>7
  <2>9. PinBook(T, F, M, q)'
    <3>1. Number(todo', T, RefsOf(Items(M, F), q)) = k + 1
      BY <2>1, <2>6
    <3> QED
      BY <1>2, <2>2, <2>3, <2>5, <2>8, <3>1 DEF PinBook
  <2>10. ReadBook(T, F, M, q)' /\ \A f \in F : FrameBook(T, F, M, q, f)'
    BY <1>2, <2>1, <2>2 DEF ReadBook, FrameBook
  <2> QED
    BY <2>9, <2>10 DEF Books
<1>19. HandleIs(T, q)'
  <2>1. PICK i \in 1 .. Len(x) : x[i].op \in {"run", "close", "pinstop"}
    BY DEF StopCalls_
  <2>2. x[i].pin = q
    BY <1>6, <2>1 DEF HasPin, PinOps
  <2>3. OnPin(todo', T, {"run", "close", "pinstop"}, q)
    BY <2>1, <2>2, GivenOnPin
  <2>4. WillClose(T, q)'
    BY <2>3 DEF WillClose
  <2> QED
    BY <1>1, <1>2, <1>4, <1>14, <2>4 DEF HandleIs
<1>20. (\A p \in 1 .. M : Books(T, F, M, p))' /\ (\A p \in 1 .. M : HandleIs(T, p))'
  <2>1. \A p \in 1 .. M : Books(T, F, M, p)' /\ HandleIs(T, p)'
    BY <1>17, <1>18, <1>19
  <2> QED
    BY <2>1
<1>21. Spare(Q, F)'
  BY <1>1, <1>2 DEF Spare
<1> QED
  BY <1>8, <1>9, <1>10, <1>11, <1>12, <1>15, <1>16, <1>20, <1>21, Whole

-----------------------------------------------------------------------------
\* A pin is opened.  What is known of it while it is being opened.
Opens(T, F, M, t, op, q) ==
    /\ todo[t] # <<>> /\ Height(todo, t) \in 1 .. Height(todo, t) /\ Height(todo, t) \in Nat
    /\ Item(todo, t, Height(todo, t)).op = op /\ Item(todo, t, Height(todo, t)).pin = q
    /\ op \in {"create", "run"}
    /\ pin = 0 /\ q \in 1 .. M /\ q <= made /\ q \notin lost /\ posted[q] = {}
    /\ handle[q] = IF op = "create" THEN "none" ELSE "open"
    /\ \A u \in T : \A k \in 1 .. Height(todo, u) :
          /\ Item(todo, u, k).op \in HasPin /\ Item(todo, u, k).pin = q => u = t /\ k = Height(todo, t)
          /\ Item(todo, u, k).op \in SoloOps => u = t /\ k = Height(todo, t)
    /\ \A h \in Height(todo, t) - 1 + 1 .. Height(todo, t) : h = Height(todo, t)

\* The invariant says this of a thread that opens a pin.
LEMMA IsOpening ==
    ASSUME NEW T, NEW Q, NEW F, NEW M \in Nat, NEW B, PinInv(T, Q, F, M, B), NEW t \in T,
           NEW op \in {"create", "run"}, At(t, op), NEW q, q = Arg(t)
    PROVE  Opens(T, F, M, t, op, q)
<1>1. PinTypes(T, F, M) /\ Known(todo, T) /\ Fresh(T, M) /\ Solo(todo, T)
  BY Parts
<1>2. /\ todo[t] # <<>> /\ Height(todo, t) \in 1 .. Height(todo, t) /\ Item(todo, t, Height(todo, t)) = Head(todo[t])
      /\ Head(todo[t]).op = op /\ Height(todo, t) \in Nat
      /\ \A h \in Height(todo, t) - 1 + 1 .. Height(todo, t) : h = Height(todo, t)
  BY <1>1, AtSomewhere
<1>3. PICK n : n = Height(todo, t)
  OBVIOUS
<1>4. n \in 1 .. Height(todo, t) /\ Item(todo, t, n).op = op /\ Item(todo, t, n).pin = q
  BY <1>2, <1>3 DEF Arg
<1>5. q \in 1 .. M
  <2>1. Head(todo[t]).op \in HasPin
    BY <1>2 DEF HasPin, PinOps
  <2> QED
    BY <1>1, <1>2, <2>1, Top
<1>6. q <= made
  BY <1>1, <1>4 DEF Known, PinOps
<1>7. /\ pin = 0 /\ q \notin lost /\ posted[q] = {}
      /\ handle[q] = IF op = "create" THEN "none" ELSE "open"
      /\ \A u \in T : \A k \in 1 .. Height(todo, u) :
            Item(todo, u, k).op \in HasPin /\ Item(todo, u, k).pin = q => u = t /\ k = n
  BY <1>1, <1>4 DEF Fresh, HasPin
<1>8. \A u \in T : \A k \in 1 .. Height(todo, u) : Item(todo, u, k).op \in SoloOps => u = t /\ k = n
  BY <1>1, <1>4 DEF Solo, SoloOps
<1> QED
  BY <1>2, <1>3, <1>4, <1>5, <1>6, <1>7, <1>8 DEF Opens

\* Only one pin is being opened.
LEMMA FreshLone ==
    ASSUME NEW T, NEW M, Solo(todo, T)', NEW t \in T, NEW h, h \in 1 .. Height(todo', t),
           NEW op \in {"create", "run"}, Item(todo', t, h).op = op, NEW q, Item(todo', t, h).pin = q,
           pin' = 0, q \notin lost', posted'[q] = {}, handle'[q] = IF op = "create" THEN "none" ELSE "open",
           \A u \in T : \A k \in 1 .. Height(todo', u) :
              Item(todo', u, k).op \in HasPin /\ Item(todo', u, k).pin = q => u = t /\ k = h
    PROVE  Fresh(T, M)'
<1>1. \A u \in T : \A k \in 1 .. Height(todo', u) :
          Item(todo', u, k).op \in {"create", "run"} => u = t /\ k = h
  BY DEF Solo, SoloOps
<1> QED
  BY <1>1 DEF Fresh, HasPin

\* Afterwards no pin is being opened.
LEMMA FreshNone ==
    ASSUME NEW T, NEW F, NEW M \in Nat, NEW t, NEW b, NEW calls, Moved(T, F, M, t, b, calls),
           b = Height(todo, t) - 1, NEW op, NEW q, Opens(T, F, M, t, op, q),
           \A i \in 1 .. Len(calls) : calls[i].op \notin {"create", "run"}
    PROVE  Fresh(T, M)'
<1>1. Comes(todo, todo', T, t, b, calls)
  BY MovedIs
<1>2. ASSUME NEW u \in T, NEW h \in 1 .. Height(todo', u)
      PROVE  Item(todo', u, h).op \notin {"create", "run"}
  <2>1. CASE h \in 1 .. Height(todo, u) /\ (u = t => h <= b) /\ Item(todo', u, h) = Item(todo, u, h)
    <3>1. ~(u = t /\ h = Height(todo, t))
      BY <2>1 DEF Opens
    <3> QED
      BY <2>1, <3>1 DEF Opens, SoloOps
  <2>2. CASE \E i \in 1 .. Len(calls) : Item(todo', u, h) = calls[i]
    BY <2>2
  <2> QED
    BY <1>1, <2>1, <2>2 DEF Comes
<1> QED
  BY <1>2 DEF Fresh

\* After the step, except for the pin itself.
OpenCalls(calls, q) ==
    /\ \A i \in 1 .. Len(calls) : /\ calls[i].op \notin LockOps \cup {"push", "process", "clear"}
                                  /\ calls[i].op \in HasPin => calls[i].pin = q
    /\ \A i, j \in 1 .. Len(calls) : calls[i].op \in SoloOps /\ calls[j].op \in SoloOps => i = j
OpenElsewhere(M, q) ==
    /\ \A p \in 1 .. M : p # q =>
          /\ refs'[p] = refs[p] /\ posted'[p] = posted[p] /\ free'[p] = free[p]
          /\ handle'[p] = handle[p] /\ users'[p] = users[p] /\ running'[p] = running[p]
          /\ (p \in lost' <=> p \in lost) /\ (p \in dead' <=> p \in dead)
    /\ made' = made /\ users' = users /\ dry' = dry /\ pin' \in {0, q} /\ handle'[q] \in {handle[q], "open"}
Opened(T, Q, F, M, t, b, calls, q) ==
    /\ Moved(T, F, M, t, b, calls) /\ b = Height(todo, t) - 1 /\ b < Height(todo, t) /\ b \in Nat
    /\ Known(todo, T)' /\ Filled(todo, T, Q)' /\ Solo(todo, T)' /\ LockPlaces(todo, T)' /\ Locked(todo, T, M)'
    /\ \A p \in 1 .. M : p # q => Books(T, F, M, p)' /\ HandleIs(T, p)'
    /\ Spare(Q, F)' /\ ~Somewhere(todo', T, {"clear"}) /\ made \in Nat /\ made' = made
    /\ \A B, C, u : BackFits(T, u, b, B, C)
    /\ PinTypes(T, F, M) /\ Books(T, F, M, q) /\ HandleIs(T, q) /\ todo' \in [T -> Seq(Items(M, F))]

\* The step of the opening thread, but for the pin itself.
LEMMA OpenStep ==
    ASSUME NEW T, IsFiniteSet(T), NEW Q, NEW F, NEW M \in Nat, NEW B, PinInv(T, Q, F, M, B), NEW t \in T,
           NEW op, NEW q, Opens(T, F, M, t, op, q), NEW calls \in Seq(Items(M, F)), Do(t, calls),
           OpenCalls(calls, q), handle'[q] # "none" \/ Len(calls) = 0 \/ (\A i \in 1 .. Len(calls) : calls[i].op \notin HasPin),
           OpenElsewhere(M, q)
    PROVE  Opened(T, Q, F, M, t, Height(todo, t) - 1, calls, q)
<1>1. /\ PinTypes(T, F, M) /\ (\A p \in 1 .. M : Books(T, F, M, p))
      /\ Known(todo, T) /\ Filled(todo, T, Q) /\ Backed(todo, T, B)
      /\ LockPlaces(todo, T) /\ Locked(todo, T, M) /\ (\A p \in 1 .. M : HandleIs(T, p))
      /\ Fresh(T, M) /\ Solo(todo, T) /\ Spare(Q, F)
  BY Parts
<1>0. PICK b : b = Height(todo, t) - 1
  OBVIOUS
<1>2. Moved(T, F, M, t, b, calls) /\ b < Height(todo, t)
  BY <1>0, <1>1, Doing DEF Opens
<1>3. /\ made' = made /\ users' = users /\ dry' = dry /\ handle'[q] \in {handle[q], "open"} /\ pin = 0 /\ q \in 1 .. M
      /\ pin' \in {0, q} /\ q <= made
  BY DEF OpenElsewhere, Opens
<1>4. made \in Nat
  BY <1>1 DEF PinTypes
<1>5. /\ \A h \in b + 1 .. Height(todo, t) : Item(todo, t, h).op \in {"create", "run"} /\ Item(todo, t, h).pin = q
      /\ Height(todo, t) \in b + 1 .. Height(todo, t) /\ b \in Nat
  BY <1>0 DEF Opens
<1>6. \A i \in 1 .. Len(calls) : /\ calls[i].op \notin LockOps \cup {"push", "process", "clear"}
                                 /\ calls[i].op \in HasPin => calls[i].pin = q
  BY DEF OpenCalls
<1>7. Known(todo, T)'
  <2>1. NewKnown(calls)'
    BY <1>3, <1>6 DEF NewKnown
  <2>2. made' \in Nat /\ made <= made' /\ \A p \in 1 .. M : handle[p] # "none" => handle'[p] # "none"
    BY <1>3, <1>4 DEF OpenElsewhere
  <2> QED
    BY <1>1, <1>2, <1>4, <2>1, <2>2, KnownStep
<1>8. Filled(todo, T, Q)'
  BY <1>1, <1>2, <1>6, FilledStep
<1>9. Solo(todo, T)'
  <2>1. \E h \in b + 1 .. Height(todo, t) : Item(todo, t, h).op \in SoloOps
    BY <1>5 DEF SoloOps
  <2> QED
    BY <1>1, <1>2, <2>1, SoloStep DEF OpenCalls
<1>10. LockPlaces(todo, T)' /\ Locked(todo, T, M)'
  <2>1. /\ \A i \in 1 .. Len(calls) : calls[i].op \notin LockOps
        /\ \A h \in b + 1 .. Height(todo, t) : Item(todo, t, h).op \notin LockOps
    BY <1>5, <1>6 DEF LockOps
  <2> QED
    BY <1>1, <1>2, <1>3, <2>1, LocksQuiet
<1>11. ~Somewhere(todo', T, {"clear"})
  <2>1. ~Somewhere(todo, T, {"clear"})
    <3>1. \A u \in T : \A k \in 1 .. Height(todo, u) : Item(todo, u, k).op # "clear"
      BY DEF Opens, SoloOps
    <3> QED
      BY <3>1 DEF Somewhere
  <2>2. \A i \in 1 .. Len(calls) : calls[i].op \notin {"clear"}
    BY <1>6
  <2> QED
    BY <1>2, <2>1, <2>2, SameSomewhere
<1>12. ASSUME NEW p \in 1 .. M, p # q PROVE Books(T, F, M, p)' /\ HandleIs(T, p)'
  <2>1. SamePin(T, p)
    <3>1. ~Owned(T, p) /\ ~Owned(T, p)'
      BY <1>3, <1>12 DEF Owned
    <3> QED
      BY <1>3, <1>12, <3>1 DEF SamePin, OpenElsewhere
  <2>2. Away(todo, t, b, calls, p)
    BY <1>5, <1>6, <1>12 DEF Away
  <2>3. SameCounts(T, F, M, p)
    BY <1>2, <2>2, AwayCounts
  <2>4. made' \in Nat
    BY <1>3, <1>4
  <2>5. Books(T, F, M, p)'
    BY <1>1, <1>4, <2>1, <2>3, <2>4, BooksSame
  <2>6. p \in Nat
    OBVIOUS
  <2>7. handle'[p] = handle[p] /\ users'[p] = users[p] /\ running'[p] = running[p]
    BY <1>12 DEF OpenElsewhere
  <2>8. HandleIs(T, p)'
    BY <1>1, <1>2, <1>4, <2>1, <2>2, <2>4, <2>6, <2>7, HandleOther
  <2> QED
    BY <2>5, <2>8
<1>13. Spare(Q, F)'
  BY <1>1, <1>3 DEF Spare
<1>14. \A D, C, u : BackFits(T, u, b, D, C)
  <2>1. Somewhere(todo, T, SoloOps)
    BY DEF Opens, Somewhere, SoloOps
  <2> QED
    BY <2>1 DEF BackFits, Starting
<1>15. todo' \in [T -> Seq(Items(M, F))]
  BY <1>2 DEF Moved
<1>16. Books(T, F, M, q) /\ HandleIs(T, q)
  BY <1>1, <1>3
<1> QED
  BY <1>0, <1>1, <1>2, <1>3, <1>4, <1>5, <1>7, <1>8, <1>9, <1>10, <1>11, <1>12, <1>13, <1>14, <1>15, <1>16 DEF Opened

\* What is counted of the pin: one reference, and what the calls bring.
LEMMA OpenCounts ==
    ASSUME NEW T, NEW F, NEW M \in Nat, NEW t, NEW calls, NEW b, Moved(T, F, M, t, b, calls),
           b = Height(todo, t) - 1, NEW op, NEW q, Opens(T, F, M, t, op, q)
    PROVE  /\ Number(todo, T, RefsOf(Items(M, F), q)) = 1
           /\ Number(todo', T, RefsOf(Items(M, F), q)) = Given(calls, RefsOf(Items(M, F), q))
           /\ Number(todo', T, ReadsOf(Items(M, F), q)) = Given(calls, ReadsOf(Items(M, F), q))
           /\ \A f \in F : /\ Number(todo, T, HoldsOf(Items(M, F), q, f)) = 0
                           /\ Number(todo', T, HoldsOf(Items(M, F), q, f)) = Given(calls, HoldsOf(Items(M, F), q, f))
<1> DEFINE E == Items(M, F)
           n == Height(todo, t)
           top == Item(todo, t, n)
<1>1. /\ todo[t] # <<>> /\ n \in 1 .. n /\ n \in Nat /\ top.op = op /\ top.pin = q /\ op \in {"create", "run"}
      /\ \A u \in T : \A k \in 1 .. Height(todo, u) :
            Item(todo, u, k).op \in HasPin /\ Item(todo, u, k).pin = q => u = t /\ k = n
      /\ q \in 1 .. M
  BY DEF Opens
<1>2. /\ t \in T /\ IsFiniteSet(T) /\ todo \in [T -> Seq(E)] /\ top \in E
  BY <1>1, ItemsOf DEF Moved
<1>3. ASSUME NEW K, top \notin K, \A e \in K : e.op \in HasPin /\ e.pin = q
      PROVE  Number(todo, T, K) = 0 /\ Number(todo', T, K) = Given(calls, K)
  <2>1. ~ \E u \in T : \E h \in 1 .. Height(todo, u) : Item(todo, u, h) \in K
    BY <1>1, <1>3
  <2>2. Number(todo, T, K) = 0
    <3>1. Number(todo, T, K) \in Nat
      BY <1>2, PlacesFinite
    <3>2. ~(Number(todo, T, K) > 0)
      BY <1>2, <2>1, SomePlace
    <3> QED
      BY <3>1, <3>2
  <2>3. Dropped(todo, t, b, K) = 0
    <3>1. \A h \in b + 1 .. Height(todo, t) : Item(todo, t, h) \notin K
      BY <1>3, <1>1 DEF Opens
    <3> QED
      BY <3>1, DroppedNone
  <2> QED
    BY <2>2, <2>3, Tally
<1>4. ASSUME NEW K, top \in K, \A e \in K : e.op \in HasPin /\ e.pin = q
      PROVE  Number(todo, T, K) = 1 /\ Number(todo', T, K) = Given(calls, K)
  <2>1. PlacesOf(todo, T, K) = {<<t, n>>}
    <3>1. <<t, n>> \in PlacesOf(todo, T, K)
      BY <1>1, <1>2, <1>4, InPlaces
    <3>2. ASSUME NEW x \in PlacesOf(todo, T, K) PROVE x = <<t, n>>
      <4>1. x = <<x[1], x[2]>> /\ x[1] \in T /\ x[2] \in 1 .. Height(todo, x[1]) /\ Item(todo, x[1], x[2]) \in K
        BY EachIsPlace
      <4>2. x[1] = t /\ x[2] = n
        BY <1>1, <1>4, <4>1
      <4> QED
        BY <4>1, <4>2
    <3> QED
      BY <3>1, <3>2
  <2>2. Number(todo, T, K) = 1
    BY <2>1, FS_Singleton DEF Number
  <2>3. Dropped(todo, t, b, K) = 1
    <3>1. Dropped(todo, t, b, K) = One(top \in K)
      BY <1>1, <1>2, DroppedTop
    <3> QED
      BY <1>4, <3>1 DEF One
  <2> QED
    BY <2>2, <2>3, Tally
<1>5. top \in RefsOf(E, q) /\ \A e \in RefsOf(E, q) : e.op \in HasPin /\ e.pin = q
  BY <1>1, <1>2 DEF RefsOf, RefOps, HasPin, PinOps, FrameOps
<1>6. top \notin ReadsOf(E, q) /\ \A e \in ReadsOf(E, q) : e.op \in HasPin /\ e.pin = q
  BY <1>1, <1>2 DEF ReadsOf, ReadOps, HasPin, PinOps, FrameOps
<1>7. ASSUME NEW f \in F
      PROVE  top \notin HoldsOf(E, q, f) /\ \A e \in HoldsOf(E, q, f) : e.op \in HasPin /\ e.pin = q
  BY <1>1, <1>2 DEF HoldsOf, HoldOps, HasPin, PinOps, FrameOps
<1> HIDE DEF E, top, n
<1>8. Number(todo, T, RefsOf(E, q)) = 1 /\ Number(todo', T, RefsOf(E, q)) = Given(calls, RefsOf(E, q))
  BY <1>4, <1>5
<1>9. Number(todo', T, ReadsOf(E, q)) = Given(calls, ReadsOf(E, q))
  BY <1>3, <1>6
<1>10. ASSUME NEW f \in F
       PROVE  /\ Number(todo, T, HoldsOf(E, q, f)) = 0
              /\ Number(todo', T, HoldsOf(E, q, f)) = Given(calls, HoldsOf(E, q, f))
  BY <1>3, <1>7
<1> QED
  BY <1>8, <1>9, <1>10 DEF E

\* The books after the step.
Bought(T, F, M, calls, q) ==
    /\ Given(calls, RefsOf(Items(M, F), q)) + One(q \in lost \/ Owned(T, q))' = 1
    /\ Given(calls, ReadsOf(Items(M, F), q)) <= Reads
    /\ \A f \in F : Given(calls, HoldsOf(Items(M, F), q, f)) = 0
    /\ refs' = refs /\ posted' = posted /\ dead' = dead /\ made' = made
    /\ \/ free' = free /\ (handle'[q] # "none" <=> handle[q] # "none")
       \/ free'[q] = F /\ handle'[q] # "none" /\ handle[q] = "none"

\* The accounts of the pin balance.
LEMMA OpenBooks ==
    ASSUME NEW T, NEW F, NEW M \in Nat, NEW t, NEW calls, NEW b, Moved(T, F, M, t, b, calls),
           b = Height(todo, t) - 1, NEW op, NEW q, Opens(T, F, M, t, op, q),
           Books(T, F, M, q), made \in Nat, Bought(T, F, M, calls, q)
    PROVE  Books(T, F, M, q)' /\ refs[q] = 1
<1> DEFINE E == Items(M, F)
<1>1. /\ Number(todo, T, RefsOf(E, q)) = 1
      /\ Number(todo', T, RefsOf(E, q)) = Given(calls, RefsOf(E, q))
      /\ Number(todo', T, ReadsOf(E, q)) = Given(calls, ReadsOf(E, q))
      /\ \A f \in F : /\ Number(todo, T, HoldsOf(E, q, f)) = 0
                      /\ Number(todo', T, HoldsOf(E, q, f)) = Given(calls, HoldsOf(E, q, f))
  BY OpenCounts
<1>2. /\ q <= made /\ q \in Nat /\ q \notin lost /\ pin = 0 /\ posted[q] = {} /\ Cardinality(posted[q]) = 0
      /\ posted'[q] = {} /\ Cardinality(posted'[q]) = 0
  <2>1. /\ q <= made /\ q \in 1 .. M /\ q \notin lost /\ pin = 0 /\ posted[q] = {} /\ posted' = posted
    BY DEF Opens, Bought
  <2>2. Cardinality({}) = 0
    BY FS_EmptySet
  <2> QED
    BY <2>1, <2>2
<1>3. refs[q] = 1
  <2>1. ~(q \in lost \/ Owned(T, q))
    BY <1>2 DEF Owned, Opens
  <2>2. One(q \in lost \/ Owned(T, q)) = 0
    BY <2>1 DEF One
  <2>3. refs[q] = Cardinality(posted[q]) + Number(todo, T, RefsOf(E, q)) + One(q \in lost \/ Owned(T, q))
    BY DEF Books, PinBook
  <2> HIDE DEF E
  <2> QED
    BY <1>1, <1>2, <2>2, <2>3
<1>4. PinBook(T, F, M, q)'
  <2>1. One(q \in lost \/ Owned(T, q))' \in {0, 1} /\ Given(calls, RefsOf(E, q)) \in Nat
    BY Tally DEF One
  <2>2. Given(calls, RefsOf(E, q)) + One(q \in lost \/ Owned(T, q))' = 1
    BY DEF Bought
  <2>3. PICK g \in Nat, o \in Nat : g = Given(calls, RefsOf(E, q)) /\ o = One(q \in lost \/ Owned(T, q))'
    BY <2>1
  <2>4. refs'[q] = 1 /\ g + o = 1 /\ q \notin dead' /\ q <= made'
    BY <1>2, <1>3, <2>2, <2>3 DEF Bought, Books, PinBook
  <2>5. refs'[q] = Cardinality(posted'[q]) + Number(todo', T, RefsOf(E, q)) + One(q \in lost \/ Owned(T, q))'
    <3>1. Number(todo', T, RefsOf(E, q)) = g
      BY <1>1, <2>3
    <3> QED
      BY <3>1, <2>3, <2>4, <1>2
  <2>6. q \in dead' <=> q <= made' /\ refs'[q] = 0
    BY <2>4
  <2>7. q > made' => refs'[q] = 0
    BY <1>2, <2>4 DEF Bought
  <2> QED
    BY <2>5, <2>6, <2>7 DEF PinBook
<1>5. ASSUME NEW f \in F PROVE FrameBook(T, F, M, q, f)'
  <2>1. One(f \in posted[q]) = 0 /\ One(f \in posted'[q]) = 0
    BY <1>2 DEF One
  <2>2. Number(todo', T, HoldsOf(E, q, f)) = 0 /\ Number(todo, T, HoldsOf(E, q, f)) = 0
    BY <1>1 DEF Bought
  <2>3. Number(todo, T, HoldsOf(E, q, f)) + One(f \in free[q]) + One(f \in posted[q]) = One(handle[q] # "none")
    BY DEF Books, FrameBook
  <2> HIDE DEF E
  <2>4. One(f \in free'[q]) = One(handle'[q] # "none")
    <3>1. CASE free' = free /\ (handle'[q] # "none" <=> handle[q] # "none")
      <4>1. One(f \in free[q]) = One(handle[q] # "none")
        <5>1. One(f \in free[q]) \in Int /\ One(handle[q] # "none") \in Int
          BY DEF One
        <5> QED
          BY <2>1, <2>2, <2>3, <5>1
      <4> QED
        BY <3>1, <4>1 DEF One
    <3>2. CASE free'[q] = F /\ handle'[q] # "none"
      BY <3>2 DEF One
    <3> QED
      BY <3>1, <3>2 DEF Bought
  <2>5. One(f \in free'[q]) \in Int /\ One(handle'[q] # "none") \in Int
    BY DEF One
  <2>6. Number(todo', T, HoldsOf(E, q, f)) + One(f \in free'[q]) + One(f \in posted'[q]) = One(handle'[q] # "none")
    BY <2>1, <2>2, <2>4, <2>5
  <2> QED
    BY <2>6 DEF FrameBook, E
<1>6. ReadBook(T, F, M, q)'
  <2>1. Given(calls, ReadsOf(E, q)) <= Reads /\ Given(calls, ReadsOf(E, q)) \in Nat
    BY Tally DEF Bought
  <2>2. Cardinality(posted'[q]) + Number(todo', T, ReadsOf(E, q)) = Given(calls, ReadsOf(E, q))
    <3> HIDE DEF E
    <3> QED
      BY <1>1, <1>2, <2>1
  <2> QED
    BY <2>1, <2>2 DEF ReadBook
<1> QED
  BY <1>3, <1>4, <1>5, <1>6 DEF Books

\* The rest of the invariant, which is about the pin itself.
LEMMA OpenDone ==
    ASSUME NEW T, NEW Q, NEW F, NEW M \in Nat, NEW B, NEW C, PinInv(T, Q, F, M, B), NEW t, NEW b, NEW calls,
           NEW op, NEW q, Opens(T, F, M, t, op, q), Opened(T, Q, F, M, t, b, calls, q),
           Bought(T, F, M, calls, q), PinTypes(T, F, M)', HandleIs(T, q)', Fresh(T, M)',
           NewBacked(T, C, t, b, calls)'
    PROVE  PinInv(T, Q, F, M, C)'
<1>1. /\ Moved(T, F, M, t, b, calls) /\ b = Height(todo, t) - 1 /\ Books(T, F, M, q) /\ made \in Nat
      /\ BackFits(T, t, b, B, C) /\ Backed(todo, T, B)
  BY Parts DEF Opened
<1>2. Books(T, F, M, q)'
  BY <1>1, OpenBooks
<1>3. Backed(todo, T, C)'
  BY <1>1, BackedStep DEF BackFits
<1>4. (\A p \in 1 .. M : Books(T, F, M, p))' /\ (\A p \in 1 .. M : HandleIs(T, p))'
  BY <1>2 DEF Opened
<1>5. Known(todo, T)' /\ Filled(todo, T, Q)' /\ Solo(todo, T)' /\ LockPlaces(todo, T)' /\ Locked(todo, T, M)' /\ Spare(Q, F)'
  BY DEF Opened
<1> QED
  BY <1>3, <1>4, <1>5, Whole

\* What the calls bring: nothing that is counted, one reference, or the reads.
LEMMA PlainGiven ==
    ASSUME NEW M, NEW F, NEW q, NEW e, e.op \in PlainOps, NEW calls, calls = <<e>>
    PROVE  /\ Given(calls, RefsOf(Items(M, F), q)) = 0 /\ Given(calls, ReadsOf(Items(M, F), q)) = 0
           /\ \A f \in F : Given(calls, HoldsOf(Items(M, F), q, f)) = 0
<1>1. \A i \in 1 .. Len(calls) : calls[i].op \in PlainOps
  OBVIOUS
<1>2. ASSUME NEW K, \A d \in K : d.op \in HasPin PROVE Given(calls, K) = 0
  BY <1>1, <1>2, GivenNone DEF PlainOps, HasPin, PinOps, FrameOps
<1>3. \A d \in RefsOf(Items(M, F), q) : d.op \in HasPin
  BY DEF RefsOf, RefOps, HasPin, PinOps, FrameOps
<1>4. \A d \in ReadsOf(Items(M, F), q) : d.op \in HasPin
  BY DEF ReadsOf, ReadOps, HasPin, PinOps, FrameOps
<1>5. \A f \in F : \A d \in HoldsOf(Items(M, F), q, f) : d.op \in HasPin
  BY DEF HoldsOf, HoldOps, HasPin, PinOps, FrameOps
<1> QED
  BY <1>2, <1>3, <1>4, <1>5

\* The reference goes to the first of the calls.
RefFirst(calls, M, F, q) ==
    /\ Len(calls) \in Nat /\ Len(calls) > 0 /\ calls[1] \in Items(M, F) /\ calls[1].pin = q
    /\ calls[1].op \in {"run", "release"}
    /\ \A i \in 1 .. Len(calls) : i # 1 => calls[i].op \in PlainOps

\* So they bring one reference;
LEMMA RefGiven ==
    ASSUME NEW M, NEW F, NEW q, NEW calls, RefFirst(calls, M, F, q)
    PROVE  /\ Given(calls, RefsOf(Items(M, F), q)) = 1 /\ Given(calls, ReadsOf(Items(M, F), q)) = 0
           /\ \A f \in F : Given(calls, HoldsOf(Items(M, F), q, f)) = 0
<1>1. Given(calls, RefsOf(Items(M, F), q)) = 1
  <2>1. 1 \in 1 .. Len(calls) /\ calls[1] \in RefsOf(Items(M, F), q)
    BY DEF RefFirst, RefsOf, RefOps
  <2>2. \A i \in 1 .. Len(calls) : 1 # i => calls[i] \notin RefsOf(Items(M, F), q)
    BY DEF RefFirst, RefsOf, RefOps, PlainOps
  <2> QED
    BY <2>1, <2>2, GivenOne
<1>2. Given(calls, ReadsOf(Items(M, F), q)) = 0
  <2>1. \A i \in 1 .. Len(calls) : calls[i] \notin ReadsOf(Items(M, F), q)
    BY DEF RefFirst, ReadsOf, ReadOps, PlainOps
  <2> QED
    BY <2>1, GivenNone
<1>3. ASSUME NEW f \in F PROVE Given(calls, HoldsOf(Items(M, F), q, f)) = 0
  <2>1. \A i \in 1 .. Len(calls) : calls[i] \notin HoldsOf(Items(M, F), q, f)
    BY DEF RefFirst, HoldsOf, HoldOps, PlainOps
  <2> QED
    BY <2>1, GivenNone
<1> QED
  BY <1>1, <1>2, <1>3

\* the first reads of a pin that runs
ForReads(calls, M, F, q) ==
    /\ calls \in Seq(Items(M, F)) /\ Len(calls) = Reads /\ \A i \in 1 .. Len(calls) : calls[i] = On("read", q)
    /\ Given(calls, RefsOf(Items(M, F), q)) = 0 /\ Given(calls, ReadsOf(Items(M, F), q)) <= Reads
    /\ \A f \in F : Given(calls, HoldsOf(Items(M, F), q, f)) = 0

\* bring no more than Reads reads.
LEMMA ReadsGiven ==
    ASSUME NEW M, NEW F, NEW q \in 1 .. M, Reads \in Nat, NEW calls, calls = [i \in 1 .. Posts |-> On("read", q)]
    PROVE  ForReads(calls, M, F, q)
<1>1. On("read", q).op = "read" /\ On("read", q).pin = q /\ On("read", q) \in Items(M, F)
  BY OnIs, OnItem DEF PinOps
<1>2. calls \in Seq(Items(M, F)) /\ Len(calls) = Reads /\ \A i \in 1 .. Len(calls) : calls[i] = On("read", q)
  BY <1>1 DEF Posts
<1>3. Given(calls, RefsOf(Items(M, F), q)) = 0
  <2>1. \A i \in 1 .. Len(calls) : calls[i] \notin RefsOf(Items(M, F), q)
    BY <1>1, <1>2 DEF RefsOf, RefOps
  <2> QED
    BY <2>1, GivenNone
<1>4. ASSUME NEW f \in F PROVE Given(calls, HoldsOf(Items(M, F), q, f)) = 0
  <2>1. \A i \in 1 .. Len(calls) : calls[i] \notin HoldsOf(Items(M, F), q, f)
    BY <1>1, <1>2 DEF HoldsOf, HoldOps
  <2> QED
    BY <2>1, GivenNone
<1>5. Given(calls, ReadsOf(Items(M, F), q)) <= Reads
  <2>1. PICK S : S = {i \in 1 .. Len(calls) : calls[i] \in ReadsOf(Items(M, F), q)}
    OBVIOUS
  <2>2. S \in SUBSET (1 .. Reads)
    BY <1>2, <2>1
  <2>3. IsFiniteSet(1 .. Reads) /\ Cardinality(1 .. Reads) = Reads
    <3>1. 1 \in Int /\ Reads \in Int
      OBVIOUS
    <3>2. /\ IsFiniteSet(1 .. Reads)
          /\ Cardinality(1 .. Reads) = IF 1 > Reads THEN 0 ELSE Reads - 1 + 1
      BY <3>1, FS_Interval
    <3> QED
      BY <3>2
  <2>4. Cardinality(S) <= Reads
    BY <2>2, <2>3, FS_Subset
  <2> QED
    BY <2>1, <2>4 DEF Given
<1> QED
  BY <1>2, <1>3, <1>4, <1>5 DEF ForReads

\* Create: the pin is open and will run, or it is forgotten.
LEMMA CreateOpens ==
    ASSUME NEW T, IsFiniteSet(T), NEW Q, NEW F, NEW M \in Nat, NEW B, NEW C, PinInv(T, Q, F, M, B),
           NEW t \in T, Reads \in Nat, At(t, "create"), NEW q, q = Arg(t),
           handle' = [handle EXCEPT ![q] = "open"], free' = [free EXCEPT ![q] = F],
           Do(t, <<On("run", q)>>), lost' = lost,
           UNCHANGED <<pin, made, users, refs, running, posted, dead, dry>>
    PROVE  PinInv(T, Q, F, M, C)'
<1>1. Opens(T, F, M, t, "create", q)
  BY IsOpening
<1>2. q \in 1 .. M /\ pin = 0 /\ q \notin lost /\ q <= made /\ posted[q] = {} /\ handle[q] = "none"
  BY <1>1 DEF Opens
<1>3. On("run", q).op = "run" /\ On("run", q).pin = q /\ On("run", q) \in Items(M, F)
  BY <1>2, OnIs, OnItem DEF PinOps
<1>4. PICK x : x = <<On("run", q)>>
  OBVIOUS
<1>5. /\ x \in Seq(Items(M, F)) /\ Len(x) = 1 /\ x[1] = On("run", q) /\ Do(t, x)
      /\ \A i \in 1 .. Len(x) : x[i] = On("run", q)
  BY <1>3, <1>4
<1>6. PinTypes(T, F, M)
  BY Parts
<1>7. handle'[q] = "open" /\ free'[q] = F
  BY <1>2, <1>6 DEF PinTypes
<1>8. OpenCalls(x, q)
  BY <1>3, <1>5 DEF OpenCalls, LockOps
<1>9. OpenElsewhere(M, q)
  BY <1>2, <1>6, <1>7 DEF OpenElsewhere, PinTypes
<1>10. PICK b : b = Height(todo, t) - 1
  OBVIOUS
<1>11. Opened(T, Q, F, M, t, b, x, q)
  <2>1. handle'[q] # "none"
    BY <1>7
  <2> QED
    BY <1>1, <1>5, <1>8, <1>9, <1>10, <2>1, OpenStep
<1>12. /\ Moved(T, F, M, t, b, x) /\ b \in Nat /\ Solo(todo, T)' /\ ~Somewhere(todo', T, {"clear"})
       /\ HandleIs(T, q) /\ todo' \in [T -> Seq(Items(M, F))]
  BY <1>11 DEF Opened
<1>13. Bought(T, F, M, x, q)
  <2>1. RefFirst(x, M, F, q)
    BY <1>3, <1>5 DEF RefFirst
  <2>2. /\ Given(x, RefsOf(Items(M, F), q)) = 1 /\ Given(x, ReadsOf(Items(M, F), q)) = 0
        /\ \A f \in F : Given(x, HoldsOf(Items(M, F), q, f)) = 0
    BY <2>1, RefGiven
  <2>3. One(q \in lost \/ Owned(T, q))' = 0
    BY <1>2 DEF Owned, One
  <2> QED
    BY <1>2, <1>7, <2>2, <2>3 DEF Bought
<1>14. HandleIs(T, q)'
  <2>1. OnPin(todo', T, {"run"}, q)
    <3>1. 1 \in 1 .. Len(x) /\ x[1].op \in {"run"} /\ x[1].pin = q
      BY <1>3, <1>5
    <3> QED
      BY <1>12, <3>1, GivenOnPin
  <2>2. WillClose(T, q)'
    BY <2>1 DEF WillClose, OnPin
  <2>3. q <= made' /\ q \notin lost' /\ ~(q > made')
    BY <1>2, <1>6 DEF PinTypes
  <2> QED
    BY <1>7, <2>2, <2>3 DEF HandleIs
<1>15. PinTypes(T, F, M)'
  BY <1>2, <1>6, <1>12 DEF PinTypes
<1>16. Fresh(T, M)'
  <2>1. PICK h : h = b + 1
    OBVIOUS
  <2>2. Height(todo', t) = b + Len(x) /\ Item(todo', t, b + Len(x) + 1 - 1) = x[1]
    <3>1. /\ Height(todo', t) = b + Len(x)
          /\ \A i \in 1 .. Len(x) : Item(todo', t, b + Len(x) + 1 - i) = x[i]
      BY <1>12, MovedIs
    <3>2. 1 \in 1 .. Len(x)
      BY <1>5
    <3> QED
      BY <3>1, <3>2
  <2>3. h \in 1 .. Height(todo', t) /\ Item(todo', t, h) = On("run", q)
    BY <1>5, <1>12, <2>1, <2>2
  <2>4. \A u \in T : \A k \in 1 .. Height(todo', u) :
              Item(todo', u, k).op \in HasPin /\ Item(todo', u, k).pin = q => u = t /\ k = h
    <3>1. ASSUME NEW u \in T, NEW k \in 1 .. Height(todo', u),
                 Item(todo', u, k).op \in HasPin, Item(todo', u, k).pin = q, ~(u = t /\ k = h)
          PROVE  FALSE
      <4>1. Comes(todo, todo', T, t, b, x)
        BY <1>12, MovedIs
      <4>2. CASE k \in 1 .. Height(todo, u) /\ (u = t => k <= b) /\ Item(todo', u, k) = Item(todo, u, k)
        <5>1. u = t /\ k = Height(todo, t)
          BY <1>1, <3>1, <4>2 DEF Opens
        <5> QED
          BY <1>10, <1>12, <4>2, <5>1
      <4>3. CASE u = t /\ \E i \in 1 .. Len(x) : k = b + Len(x) + 1 - i
        BY <1>5, <1>12, <2>1, <3>1, <4>3
      <4> QED
        BY <4>1, <4>2, <4>3 DEF Comes
    <3> QED
      BY <3>1
  <2>5. PICK o \in {"create", "run"} : o = "run"
    OBVIOUS
  <2>6. pin' = 0 /\ q \notin lost' /\ posted'[q] = {} /\ handle'[q] = IF o = "create" THEN "none" ELSE "open"
    BY <1>2, <1>7, <2>5
  <2>7. Item(todo', t, h).op = o /\ Item(todo', t, h).pin = q
    BY <1>3, <2>3, <2>5
  <2>8. Solo(todo, T)'
    BY <1>12
  <2> QED
    BY <2>3, <2>4, <2>6, <2>7, <2>8, FreshLone
<1>17. NewBacked(T, C, t, b, x)'
  BY <1>3, <1>5 DEF NewBacked, NeedOps
<1> QED
  BY <1>1, <1>11, <1>13, <1>14, <1>15, <1>16, <1>17, OpenDone

LEMMA CreateForgets ==
    ASSUME NEW T, IsFiniteSet(T), NEW Q, NEW F, NEW M \in Nat, NEW B, NEW C, PinInv(T, Q, F, M, B),
           NEW t \in T, Reads \in Nat, At(t, "create"), NEW q, q = Arg(t), lost' = lost \cup {q},
           NEW e \in Items(M, F), e.op \in PlainOps \ {"clear"}, Do(t, <<e>>),
           UNCHANGED <<handle, free, pin, made, users, refs, running, posted, dead, dry>>
    PROVE  PinInv(T, Q, F, M, C)'
<1>1. Opens(T, F, M, t, "create", q)
  BY IsOpening
<1>2. q \in 1 .. M /\ pin = 0 /\ q \notin lost /\ q <= made /\ posted[q] = {} /\ handle[q] = "none"
  BY <1>1 DEF Opens
<1>3. e.op \notin HasPin /\ e.op \notin LockOps \cup {"push", "process", "clear", "create", "run"} /\ e.op \notin NeedOps
  BY DEF PlainOps, HasPin, PinOps, FrameOps, LockOps, NeedOps
<1>4. PICK x : x = <<e>>
  OBVIOUS
<1>5. /\ x \in Seq(Items(M, F)) /\ Len(x) = 1 /\ x[1] = e /\ Do(t, x)
      /\ \A i \in 1 .. Len(x) : x[i] = e
  BY <1>4
<1>6. PinTypes(T, F, M)
  BY Parts
<1>8. OpenCalls(x, q)
  BY <1>3, <1>5 DEF OpenCalls
<1>9. OpenElsewhere(M, q)
  BY <1>2 DEF OpenElsewhere
<1>10. PICK b : b = Height(todo, t) - 1
  OBVIOUS
<1>11. Opened(T, Q, F, M, t, b, x, q)
  <2>1. \A i \in 1 .. Len(x) : x[i].op \notin HasPin
    BY <1>3, <1>5
  <2> QED
    BY <1>1, <1>5, <1>8, <1>9, <1>10, <2>1, OpenStep
<1>12. /\ Moved(T, F, M, t, b, x) /\ HandleIs(T, q) /\ todo' \in [T -> Seq(Items(M, F))]
  BY <1>11 DEF Opened
<1>13. Bought(T, F, M, x, q)
  <2>1. e.op \in PlainOps
    OBVIOUS
  <2>2. /\ Given(x, RefsOf(Items(M, F), q)) = 0 /\ Given(x, ReadsOf(Items(M, F), q)) = 0
        /\ \A f \in F : Given(x, HoldsOf(Items(M, F), q, f)) = 0
    BY <1>4, <2>1, PlainGiven
  <2>3. One(q \in lost \/ Owned(T, q))' = 1
    BY DEF One
  <2> QED
    BY <2>2, <2>3 DEF Bought
<1>14. HandleIs(T, q)'
  <2>1. users[q] = {} /\ running[q] # TRUE /\ handle'[q] = "none"
    BY <1>2, <1>12 DEF HandleIs
  <2>2. ~Owned(T, q)'
    BY <1>2 DEF Owned
  <2> QED
    BY <2>1, <2>2 DEF HandleIs
<1>15. PinTypes(T, F, M)'
  <2>1. lost' \subseteq 1 .. made' /\ pin' \notin lost'
    <3>1. made \in Nat /\ lost \subseteq 1 .. made /\ q \in 1 .. made /\ q # 0 /\ pin \notin lost
      <4>1. made \in 0 .. M /\ lost \subseteq 1 .. made /\ pin \notin lost
        BY <1>6 DEF PinTypes
      <4> QED
        BY <1>2, <4>1
    <3> QED
      BY <1>2, <3>1
  <2> QED
    BY <1>6, <1>12, <2>1 DEF PinTypes
<1>16. Fresh(T, M)'
  BY <1>1, <1>3, <1>5, <1>10, <1>12, FreshNone
<1>17. NewBacked(T, C, t, b, x)'
  BY <1>3, <1>5 DEF NewBacked
<1> QED
  BY <1>1, <1>11, <1>13, <1>14, <1>15, <1>16, <1>17, OpenDone

\* Run: the pin becomes the owner's, and reads; or it is released.
LEMMA RunStarts ==
    ASSUME NEW T, IsFiniteSet(T), NEW Q, NEW F, NEW M \in Nat, NEW B, NEW C, PinInv(T, Q, F, M, B),
           NEW t \in T, t \in C, Reads \in Nat, At(t, "run"), NEW q, q = Arg(t),
           running' = [running EXCEPT ![q] = TRUE], pin' = q,
           Do(t, [i \in 1 .. Posts |-> On("read", q)]),
           UNCHANGED <<made, handle, users, refs, free, posted, dead, lost, dry>>
    PROVE  PinInv(T, Q, F, M, C)'
<1>1. Opens(T, F, M, t, "run", q)
  BY IsOpening
<1>2. q \in 1 .. M /\ q # 0 /\ pin = 0 /\ q \notin lost /\ q <= made /\ posted[q] = {} /\ handle[q] = "open"
  BY <1>1 DEF Opens
<1>3. On("read", q).op = "read" /\ On("read", q).pin = q
  BY OnIs
<1>4. PICK x : x = [i \in 1 .. Posts |-> On("read", q)]
  OBVIOUS
<1>5. /\ x \in Seq(Items(M, F)) /\ Len(x) = Reads /\ \A i \in 1 .. Len(x) : x[i] = On("read", q)
      /\ Given(x, RefsOf(Items(M, F), q)) = 0 /\ Given(x, ReadsOf(Items(M, F), q)) <= Reads
      /\ \A f \in F : Given(x, HoldsOf(Items(M, F), q, f)) = 0
  <2>1. ForReads(x, M, F, q)
    BY <1>2, <1>4, ReadsGiven
  <2> QED
    BY <2>1 DEF ForReads
<1>6. PinTypes(T, F, M)
  BY Parts
<1>7. Do(t, x)
  BY <1>4
<1>8. OpenCalls(x, q)
  BY <1>3, <1>5 DEF OpenCalls, LockOps, SoloOps
<1>9. OpenElsewhere(M, q)
  BY <1>2, <1>6 DEF OpenElsewhere, PinTypes
<1>10. PICK b : b = Height(todo, t) - 1
  OBVIOUS
<1>11. Opened(T, Q, F, M, t, b, x, q)
  <2>1. handle'[q] # "none"
    BY <1>2
  <2> QED
    BY <1>1, <1>5, <1>7, <1>8, <1>9, <1>10, <2>1, OpenStep
<1>12. /\ Moved(T, F, M, t, b, x) /\ HandleIs(T, q) /\ todo' \in [T -> Seq(Items(M, F))]
       /\ ~Somewhere(todo', T, {"clear"})
  BY <1>11 DEF Opened
<1>13. Owned(T, q)'
  <2>1. Owned(T, q)' <=> pin' = q /\ ~Somewhere(todo', T, {"clear"})
    BY DEF Owned, Somewhere
  <2> QED
    BY <1>12, <2>1
<1>14. Bought(T, F, M, x, q)
  <2>1. One(q \in lost \/ Owned(T, q))' = 1
    BY <1>13 DEF One
  <2> QED
    BY <1>5, <2>1 DEF Bought
<1>15. HandleIs(T, q)'
  <2>1. WillClose(T, q)'
    BY <1>13 DEF WillClose
  <2>2. q \notin lost' /\ ~(q > made')
    <3>1. made \in 0 .. M
      BY <1>6 DEF PinTypes
    <3> QED
      BY <1>2, <3>1
  <2> QED
    BY <1>2, <2>1, <2>2 DEF HandleIs
<1>16. PinTypes(T, F, M)'
  <2>1. made \in 0 .. M /\ q \in 0 .. made
    <3>1. made \in 0 .. M
      BY <1>6 DEF PinTypes
    <3> QED
      BY <1>2, <3>1
  <2>2. running' \in [1 .. M -> BOOLEAN]
    BY <1>6 DEF PinTypes
  <2> QED
    BY <1>2, <1>6, <1>12, <2>1, <2>2 DEF PinTypes
<1>17. Fresh(T, M)'
  <2>1. \A i \in 1 .. Len(x) : x[i].op \notin {"create", "run"}
    BY <1>3, <1>5
  <2> QED
    BY <1>1, <1>10, <1>12, <2>1, FreshNone
<1>18. NewBacked(T, C, t, b, x)'
  <2>1. ~Somewhere(todo', T, SoloOps)
    <3>1. ASSUME NEW u \in T, NEW k \in 1 .. Height(todo', u), Item(todo', u, k).op \in SoloOps
          PROVE  FALSE
      <4>1. Comes(todo, todo', T, t, b, x)
        BY <1>12, MovedIs
      <4>2. CASE k \in 1 .. Height(todo, u) /\ (u = t => k <= b) /\ Item(todo', u, k) = Item(todo, u, k)
        <5>1. u = t /\ k = Height(todo, t) /\ Height(todo, t) \in Nat
          BY <1>1, <3>1, <4>2 DEF Opens
        <5> QED
          BY <1>10, <4>2, <5>1
      <4>3. CASE \E i \in 1 .. Len(x) : Item(todo', u, k) = x[i]
        BY <1>3, <1>5, <3>1, <4>3 DEF SoloOps
      <4> QED
        BY <4>1, <4>2, <4>3 DEF Comes
    <3> QED
      BY <3>1 DEF Somewhere
  <2>2. Starting(todo, T, C, t, q)'
    BY <2>1 DEF Starting, Somewhere
  <2> QED
    BY <1>3, <1>5, <2>2 DEF NewBacked
<1> QED
  BY <1>1, <1>11, <1>14, <1>15, <1>16, <1>17, <1>18, OpenDone

LEMMA RunFails ==
    ASSUME NEW T, IsFiniteSet(T), NEW Q, NEW F, NEW M \in Nat, NEW B, NEW C, PinInv(T, Q, F, M, B),
           NEW t \in T, Reads \in Nat, At(t, "run"), NEW q, q = Arg(t),
           NEW e \in Items(M, F), e.op \in PlainOps \ {"clear"}, Do(t, <<On("release", q), e>>),
           UNCHANGED <<pin, running, made, handle, users, refs, free, posted, dead, lost, dry>>
    PROVE  PinInv(T, Q, F, M, C)'
<1>1. Opens(T, F, M, t, "run", q)
  BY IsOpening
<1>2. q \in 1 .. M /\ pin = 0 /\ q \notin lost /\ q <= made /\ posted[q] = {} /\ handle[q] = "open"
  BY <1>1 DEF Opens
<1>3. e.op \notin HasPin /\ e.op \notin LockOps \cup {"push", "process", "clear", "create", "run"} /\ e.op \notin NeedOps
  BY DEF PlainOps, HasPin, PinOps, FrameOps, LockOps, NeedOps
<1>4. On("release", q).op = "release" /\ On("release", q).pin = q /\ On("release", q) \in Items(M, F)
  BY <1>2, OnIs, OnItem DEF PinOps
<1>5. PICK x : x = <<On("release", q), e>>
  OBVIOUS
<1>6. /\ x \in Seq(Items(M, F)) /\ Len(x) = 2 /\ x[1] = On("release", q) /\ x[2] = e /\ Do(t, x)
      /\ \A i \in 1 .. Len(x) : x[i] = IF i = 1 THEN On("release", q) ELSE e
  BY <1>4, <1>5
<1>7. PinTypes(T, F, M)
  BY Parts
<1>8. OpenCalls(x, q)
  <2>1. \A i \in 1 .. Len(x) : /\ x[i].op \notin LockOps \cup {"push", "process", "clear"}
                               /\ x[i].op \in HasPin => x[i].pin = q
    BY <1>3, <1>4, <1>6 DEF LockOps
  <2>2. \A i, j \in 1 .. Len(x) : x[i].op \in SoloOps /\ x[j].op \in SoloOps => i = j
    BY <1>4, <1>6 DEF SoloOps
  <2> QED
    BY <2>1, <2>2 DEF OpenCalls
<1>9. OpenElsewhere(M, q)
  BY <1>2 DEF OpenElsewhere
<1>10. PICK b : b = Height(todo, t) - 1
  OBVIOUS
<1>11. Opened(T, Q, F, M, t, b, x, q)
  <2>1. handle'[q] # "none"
    BY <1>2
  <2> QED
    BY <1>1, <1>6, <1>8, <1>9, <1>10, <2>1, OpenStep
<1>12. /\ Moved(T, F, M, t, b, x) /\ HandleIs(T, q) /\ todo' \in [T -> Seq(Items(M, F))] /\ Books(T, F, M, q)
       /\ made \in Nat
  BY <1>11 DEF Opened
<1>13. Bought(T, F, M, x, q)
  <2>1. RefFirst(x, M, F, q)
    BY <1>4, <1>6 DEF RefFirst
  <2>2. /\ Given(x, RefsOf(Items(M, F), q)) = 1 /\ Given(x, ReadsOf(Items(M, F), q)) = 0
        /\ \A f \in F : Given(x, HoldsOf(Items(M, F), q, f)) = 0
    BY <2>1, RefGiven
  <2>3. One(q \in lost \/ Owned(T, q))' = 0
    BY <1>2 DEF Owned, One
  <2> QED
    BY <1>2, <2>2, <2>3 DEF Bought
<1>14. HandleIs(T, q)'
  <2>1. refs'[q] = 1
    <3>1. refs[q] = 1
      BY <1>1, <1>10, <1>12, <1>13, OpenBooks
    <3> QED
      BY <3>1
  <2>2. Releasing(T, q)'
    <3>1. /\ Height(todo', t) = b + Len(x) /\ b \in Nat
          /\ \A i \in 1 .. Len(x) : Item(todo', t, b + Len(x) + 1 - i) = x[i]
      BY <1>12, MovedIs
    <3>2. Height(todo', t) > 0 /\ Item(todo', t, Height(todo', t)) = On("release", q)
      <4>1. 1 \in 1 .. Len(x) /\ Len(x) = 2
        BY <1>6
      <4>2. Item(todo', t, b + Len(x) + 1 - 1) = x[1]
        BY <3>1, <4>1
      <4>3. b + Len(x) + 1 - 1 = Height(todo', t)
        BY <3>1, <4>1
      <4> QED
        BY <1>6, <3>1, <4>1, <4>2, <4>3
    <3> QED
      BY <1>4, <2>1, <3>2 DEF Releasing
  <2>3. WillClose(T, q)'
    BY <2>2 DEF WillClose
  <2>4. q \notin lost' /\ ~(q > made')
    BY <1>2, <1>12
  <2> QED
    BY <1>2, <2>3, <2>4 DEF HandleIs
<1>15. PinTypes(T, F, M)'
  BY <1>7, <1>12 DEF PinTypes
<1>16. Fresh(T, M)'
  <2>1. \A i \in 1 .. Len(x) : x[i].op \notin {"create", "run"}
    BY <1>3, <1>4, <1>6
  <2> QED
    BY <1>1, <1>10, <1>12, <2>1, FreshNone
<1>17. NewBacked(T, C, t, b, x)'
  BY <1>3, <1>4, <1>6 DEF NewBacked, NeedOps
<1> QED
  BY <1>1, <1>11, <1>13, <1>14, <1>15, <1>16, <1>17, OpenDone

\* KsRead::SetState(KSSTATE_RUN).
LEMMA RunStep ==
    ASSUME NEW T, IsFiniteSet(T), NEW Q, NEW F, NEW M \in Nat, NEW B, NEW C, PinInv(T, Q, F, M, B),
           NEW t \in T, t \in C, Reads \in Nat, NEW e \in Items(M, F), e.op \in PlainOps \ {"clear"},
           Run(t, <<On("release", Arg(t)), e>>)
    PROVE  PinInv(T, Q, F, M, C)'
<1>1. PICK q : q = Arg(t)
  OBVIOUS
<1>2. At(t, "run") /\ UNCHANGED <<made, handle, users, refs, free, posted, dead, lost, dry>>
  BY DEF Run
<1>3. CASE /\ running' = [running EXCEPT ![q] = TRUE] /\ pin' = q
           /\ Do(t, [i \in 1 .. Posts |-> On("read", q)])
  BY <1>1, <1>2, <1>3, RunStarts
<1>4. CASE Do(t, <<On("release", q), e>>) /\ UNCHANGED <<running, pin>>
  BY <1>1, <1>2, <1>4, RunFails
<1> QED
  BY <1>1, <1>3, <1>4 DEF Run

\* KsRead::Create with the frames F; e is what is done when it fails.
Creates(F, t, e) ==
    /\ At(t, "create")
    /\ \/ /\ handle' = [handle EXCEPT ![Arg(t)] = "open"] /\ free' = [free EXCEPT ![Arg(t)] = F]
          /\ Do(t, <<On("run", Arg(t))>>) /\ lost' = lost
       \/ lost' = lost \cup {Arg(t)} /\ Do(t, <<e>>) /\ UNCHANGED <<handle, free>>
    /\ UNCHANGED <<pin, made, users, refs, running, posted, dead, dry>>

LEMMA CreateStep ==
    ASSUME NEW T, IsFiniteSet(T), NEW Q, NEW M \in Nat, NEW B, NEW C, NEW F, PinInv(T, Q, F, M, B),
           NEW t \in T, Reads \in Nat, NEW e \in Items(M, F), e.op \in PlainOps \ {"clear"},
           Creates(F, t, e)
    PROVE  PinInv(T, Q, F, M, C)'
<1>1. PICK q : q = Arg(t)
  OBVIOUS
<1>2. At(t, "create") /\ UNCHANGED <<pin, made, users, refs, running, posted, dead, dry>>
  BY DEF Creates
<1>3. CASE /\ handle' = [handle EXCEPT ![q] = "open"] /\ free' = [free EXCEPT ![q] = F]
           /\ Do(t, <<On("run", q)>>) /\ lost' = lost
  BY <1>1, <1>2, <1>3, CreateOpens
<1>4. CASE lost' = lost \cup {q} /\ Do(t, <<e>>) /\ UNCHANGED <<handle, free>>
  BY <1>1, <1>2, <1>4, CreateForgets
<1> QED
  BY <1>1, <1>3, <1>4 DEF Creates

\* A new pin: nothing is known of it yet.
Unknown(T, q) ==
    /\ posted[q] = {} /\ q \notin lost /\ q \notin dead /\ handle[q] = "none" /\ users[q] = {} /\ running[q] # TRUE
    /\ \A u \in T : \A k \in 1 .. Height(todo, u) : Item(todo, u, k).op \in HasPin => Item(todo, u, k).pin # q

\* A pin that was not made is unknown.
LEMMA Unmade ==
    ASSUME NEW T, IsFiniteSet(T), NEW Q, NEW F, IsFiniteSet(F), NEW M \in Nat, NEW B, PinInv(T, Q, F, M, B),
           NEW q \in 1 .. M, q > made
    PROVE  Unknown(T, q)
<1>1. PinTypes(T, F, M) /\ Known(todo, T) /\ Books(T, F, M, q) /\ HandleIs(T, q)
  BY Parts
<1>2. made \in Nat /\ lost \subseteq 1 .. made /\ dead \subseteq 1 .. made /\ posted[q] \in SUBSET F
  BY <1>1 DEF PinTypes
<1>3. q \notin lost /\ q \notin dead
  BY <1>2
<1>4. handle[q] = "none" /\ users[q] = {} /\ running[q] # TRUE
  BY <1>1 DEF HandleIs
<1>5. \A u \in T : \A k \in 1 .. Height(todo, u) : Item(todo, u, k).op \in HasPin => Item(todo, u, k).pin # q
  BY <1>1, <1>2 DEF Known, HasPin
<1>6. posted[q] = {}
  <2>1. refs[q] = 0 /\ refs[q] = Cardinality(posted[q]) + Number(todo, T, RefsOf(Items(M, F), q))
                                  + One(q \in lost \/ Owned(T, q))
    BY <1>1 DEF Books, PinBook
  <2>2. One(q \in lost \/ Owned(T, q)) \in Nat
    BY DEF One
  <2>3. Number(todo, T, RefsOf(Items(M, F), q)) \in Nat
    BY <1>1, PlacesFinite DEF PinTypes
  <2>4. Cardinality(posted[q]) \in Nat
    BY <1>2, CardNat
  <2>5. PICK x \in Nat, y \in Nat, z \in Nat :
           /\ x = Cardinality(posted[q]) /\ y = Number(todo, T, RefsOf(Items(M, F), q))
           /\ z = One(q \in lost \/ Owned(T, q))
    BY <2>2, <2>3, <2>4
  <2>6. x = 0
    BY <2>1, <2>5
  <2>7. IsFiniteSet(posted[q])
    BY <1>2, FS_Subset
  <2> QED
    BY <2>5, <2>6, <2>7, FS_EmptySet
<1> QED
  BY <1>3, <1>4, <1>5, <1>6 DEF Unknown

\* Its accounts, when a call has its only reference.
LEMMA NewBooks ==
    ASSUME NEW T, IsFiniteSet(T), NEW F, NEW M \in Nat, NEW t, NEW b, NEW x, Moved(T, F, M, t, b, x),
           \A h \in b + 1 .. Height(todo, t) : Item(todo, t, h).op \notin HasPin,
           NEW q \in 1 .. M, Books(T, F, M, q), PinTypes(T, F, M), Reads \in Nat,
           \A u \in T : \A k \in 1 .. Height(todo, u) : Item(todo, u, k).op \in HasPin => Item(todo, u, k).pin # q,
           NEW j \in 1 .. Len(x), x[j].op = "create", x[j].pin = q,
           \A i \in 1 .. Len(x) : x[i].op \in HasPin => i = j,
           posted[q] = {}, posted' = posted, q \notin lost, lost' = lost, q \notin dead, dead' = dead, free' = free, handle' = handle,
           refs'[q] = 1, made' = q, ~Owned(T, q)'
    PROVE  Books(T, F, M, q)'
<1> DEFINE E == Items(M, F)
<1>1. todo \in [T -> Seq(E)] /\ x[j] \in E
  BY MovedIs DEF Moved
<1>2. ASSUME NEW K, \A e \in K : e.op \in HasPin /\ e.pin = q
      PROVE  /\ Number(todo, T, K) = 0 /\ Number(todo', T, K) = One(x[j] \in K)
  <2>1. ~ \E u \in T : \E h \in 1 .. Height(todo, u) : Item(todo, u, h) \in K
    BY <1>2
  <2>2. Number(todo, T, K) \in Nat
    BY <1>1, PlacesFinite
  <2>3. ~(Number(todo, T, K) > 0)
    BY <1>1, <2>1, SomePlace, SMTT(30)
  <2>4. \A h \in b + 1 .. Height(todo, t) : Item(todo, t, h) \notin K
    BY <1>2
  <2>5. \A i \in 1 .. Len(x) : i # j => x[i] \notin K
    BY <1>2
  <2>6. Number(todo', T, K) = Number(todo, T, K) + One(x[j] \in K)
    BY <2>4, <2>5, CountNew
  <2>7. One(x[j] \in K) \in Nat
    BY DEF One
  <2> QED
    BY <2>2, <2>3, <2>6, <2>7
<1>3. x[j] \in RefsOf(E, q) /\ \A e \in RefsOf(E, q) : e.op \in HasPin /\ e.pin = q
  BY <1>1 DEF RefsOf, RefOps, HasPin, PinOps, FrameOps
<1>4. x[j] \notin ReadsOf(E, q) /\ \A e \in ReadsOf(E, q) : e.op \in HasPin /\ e.pin = q
  BY <1>1 DEF ReadsOf, ReadOps, HasPin, PinOps, FrameOps
<1>5. \A f \in F : x[j] \notin HoldsOf(E, q, f) /\ \A e \in HoldsOf(E, q, f) : e.op \in HasPin /\ e.pin = q
  BY <1>1 DEF HoldsOf, HoldOps, HasPin, PinOps, FrameOps
<1> HIDE DEF E
<1>6. Cardinality(posted'[q]) = 0
  BY FS_EmptySet
<1>7. PinBook(T, F, M, q)'
  <2>1. Number(todo', T, RefsOf(E, q)) = 1
    BY <1>2, <1>3 DEF One
  <2>2. One(q \in lost \/ Owned(T, q))' = 0
    BY DEF One
  <2>3. refs'[q] = Cardinality(posted'[q]) + Number(todo', T, RefsOf(E, q)) + One(q \in lost \/ Owned(T, q))'
    BY <1>6, <2>1, <2>2
  <2> QED
    BY <2>3 DEF PinBook, E
<1>8. ASSUME NEW f \in F PROVE FrameBook(T, F, M, q, f)'
  <2>1. Number(todo, T, HoldsOf(E, q, f)) = 0 /\ Number(todo', T, HoldsOf(E, q, f)) = 0
    BY <1>2, <1>5 DEF One
  <2>2. Number(todo, T, HoldsOf(E, q, f)) + One(f \in free[q]) + One(f \in posted[q]) = One(handle[q] # "none")
    BY DEF Books, FrameBook, E
  <2>3. Number(todo', T, HoldsOf(E, q, f)) + One(f \in free'[q]) + One(f \in posted'[q]) = One(handle'[q] # "none")
    BY <2>1, <2>2
  <2> QED
    BY <2>3 DEF FrameBook, E
<1>9. ReadBook(T, F, M, q)'
  <2>1. Number(todo', T, ReadsOf(E, q)) = 0
    BY <1>2, <1>4 DEF One
  <2>2. Cardinality(posted'[q]) + Number(todo', T, ReadsOf(E, q)) <= Reads
    BY <1>6, <2>1
  <2> QED
    BY <2>2 DEF ReadBook, E
<1> QED
  BY <1>7, <1>8, <1>9 DEF Books

\* The calls create pin q, and are of no other.
MakesPin(x, q) == \E j \in 1 .. Len(x) :
    /\ x[j].op = "create" /\ x[j].pin = q
    /\ \A i \in 1 .. Len(x) : i # j => x[i].op \notin HasPin \cup SoloOps

\* A pin is made.
LEMMA NewPinStep ==
    ASSUME NEW T, IsFiniteSet(T), NEW Q, NEW F, IsFiniteSet(F), NEW M \in Nat, NEW B, NEW C, PinInv(T, Q, F, M, B),
           Reads \in Nat, NEW t, NEW b, NEW x, Moved(T, F, M, t, b, x), b < Height(todo, t) \/ Height(todo, t) = 0,
           PlainOnly(todo, t, b, <<>>), NEW q, q = made + 1, q <= M, pin = 0, MakesPin(x, q),
           SoloFits(todo, T, t, b, x), made' = q, refs' = [refs EXCEPT ![q] = 1],
           UNCHANGED <<pin, handle, users, running, free, posted, dead, lost, dry>>
    PROVE  PinInv(T, Q, F, M, C)'
<1>1. /\ PinTypes(T, F, M) /\ (\A p \in 1 .. M : Books(T, F, M, p))
      /\ Known(todo, T) /\ Filled(todo, T, Q) /\ Backed(todo, T, B)
      /\ LockPlaces(todo, T) /\ Locked(todo, T, M) /\ (\A p \in 1 .. M : HandleIs(T, p))
      /\ Fresh(T, M) /\ Solo(todo, T) /\ Spare(Q, F)
  BY Parts
<1>2. made \in Nat /\ made' \in Nat /\ q \in 1 .. M /\ q > made /\ q # 0 /\ made <= made' /\ q \in Nat
  <2>1. made \in 0 .. M
    BY <1>1 DEF PinTypes
  <2> QED
    BY <2>1
<1>3. /\ posted[q] = {} /\ q \notin lost /\ q \notin dead /\ handle[q] = "none" /\ users[q] = {} /\ running[q] # TRUE
      /\ \A u \in T : \A k \in 1 .. Height(todo, u) : Item(todo, u, k).op \in HasPin => Item(todo, u, k).pin # q
  <2>1. Unknown(T, q)
    BY <1>2, Unmade
  <2> QED
    BY <2>1 DEF Unknown
<1>4. PICK j \in 1 .. Len(x) : /\ x[j].op = "create" /\ x[j].pin = q
                               /\ \A i \in 1 .. Len(x) : i # j => x[i].op \notin HasPin \cup SoloOps
  BY DEF MakesPin
<1>5. /\ \A h \in b + 1 .. Height(todo, t) : Item(todo, t, h).op \notin HasPin
      /\ \A i \in 1 .. Len(x) : x[i].op \in HasPin => i = j
  BY <1>4 DEF PlainOnly
<1>6. /\ \A i \in 1 .. Len(x) : x[i].op \notin LockOps \cup {"push", "process"} \cup NeedOps
      /\ \A h \in b + 1 .. Height(todo, t) : Item(todo, t, h).op \notin LockOps
      /\ x[j].op \in HasPin
  BY <1>4, <1>5 DEF LockOps, NeedOps, HasPin, PinOps, FrameOps
<1>7. /\ b < Height(todo, t) \/ b = 0
      /\ t \in T /\ b \in Nat /\ Len(x) \in Nat /\ Height(todo', t) = b + Len(x) /\ b <= Height(todo, t)
      /\ todo' \in [T -> Seq(Items(M, F))]
      /\ \A u \in T : Height(todo, u) \in Nat
  <2>1. todo' \in [T -> Seq(Items(M, F))]
    BY DEF Moved
  <2> QED
    BY <2>1, MovedIs
<1>8. PinTypes(T, F, M)'
  <2>1. pin \in 0 .. made' /\ made' \in 0 .. M /\ dead \subseteq 1 .. made' /\ lost \subseteq 1 .. made'
    <3>1. pin \in 0 .. made /\ dead \subseteq 1 .. made /\ lost \subseteq 1 .. made
      BY <1>1 DEF PinTypes
    <3> QED
      BY <1>2, <3>1
  <2>2. refs' \in [1 .. M -> Nat]
    BY <1>1, <1>2 DEF PinTypes
  <2> QED
    BY <1>1, <1>7, <2>1, <2>2 DEF PinTypes
<1>9. Known(todo, T)'
  <2>1. NewKnown(x)'
    BY <1>2, <1>4, <1>5 DEF NewKnown
  <2>2. \A p \in 1 .. M : handle[p] # "none" => handle'[p] # "none"
    OBVIOUS
  <2> QED
    BY <1>1, <1>2, <2>1, <2>2, KnownStep
<1>10. Filled(todo, T, Q)'
  BY <1>1, <1>6, FilledStep
<1>11. Backed(todo, T, C)'
  <2>1. ASSUME NEW u \in T, NEW h \in 1 .. Height(todo', u), Item(todo', u, h).op \in NeedOps
        PROVE  ReleaseBelow(todo', u, h, Item(todo', u, h).pin)
    <3>1. h \in 1 .. Height(todo, u) /\ (u = t => h <= b) /\ Item(todo', u, h) = Item(todo, u, h)
      <4>1. Comes(todo, todo', T, t, b, x)
        BY MovedIs
      <4>2. ~ \E i \in 1 .. Len(x) : Item(todo', u, h) = x[i]
        BY <1>6, <2>1
      <4> QED
        BY <4>1, <4>2 DEF Comes
    <3>2. PICK p : p = Item(todo, u, h).pin
      OBVIOUS
    <3>3. p \in 1 .. M
      <4>1. Item(todo, u, h).op \in HasPin
        BY <2>1, <3>1 DEF NeedOps, HasPin, PinOps, FrameOps
      <4> QED
        BY <3>1, <3>2, <4>1, PinIsSome
    <3>4. ~Starting(todo, T, B, u, p)
      BY <3>3 DEF Starting
    <3>5. ReleaseBelow(todo, u, h, p)
      BY <1>1, <2>1, <3>1, <3>2, <3>4 DEF Backed
    <3>6. h \in Nat /\ h <= Height(todo, u) + 1 /\ (u = t => h <= b + 1)
      BY <1>7, <3>1
    <3>7. ReleaseBelow(todo', u, h, p)
      BY <3>5, <3>6, ReleaseKept
    <3> QED
      BY <3>1, <3>2, <3>7
  <2> QED
    BY <2>1 DEF Backed, ReleaseBelow
<1>12. LockPlaces(todo, T)' /\ Locked(todo, T, M)'
  BY <1>1, <1>6, <1>7, LocksQuiet
<1>13. Solo(todo, T)'
  BY <1>1, SoloStep DEF SoloFits
<1>14. Fresh(T, M)'
  <2>1. PICK h : h = b + Len(x) + 1 - j
    OBVIOUS
  <2>2. Item(todo', t, h) = x[j]
    <3>1. \A i \in 1 .. Len(x) : Item(todo', t, b + Len(x) + 1 - i) = x[i]
      BY MovedIs
    <3> QED
      BY <2>1, <3>1
  <2>3. h \in 1 .. Height(todo', t)
    BY <1>7, <2>1
  <2>4. \A u \in T : \A k \in 1 .. Height(todo', u) :
              Item(todo', u, k).op \in HasPin /\ Item(todo', u, k).pin = q => u = t /\ k = h
    <3>1. ASSUME NEW u \in T, NEW k \in 1 .. Height(todo', u),
                 Item(todo', u, k).op \in HasPin, Item(todo', u, k).pin = q, ~(u = t /\ k = h)
          PROVE  FALSE
      <4>1. Comes(todo, todo', T, t, b, x)
        BY MovedIs
      <4>2. CASE k \in 1 .. Height(todo, u) /\ Item(todo', u, k) = Item(todo, u, k)
        BY <1>3, <3>1, <4>2
      <4>3. CASE u = t /\ \E i \in 1 .. Len(x) : k = b + Len(x) + 1 - i /\ Item(todo', u, k) = x[i]
        <5>1. PICK i \in 1 .. Len(x) : k = b + Len(x) + 1 - i /\ Item(todo', u, k) = x[i]
          BY <4>3
        <5>2. i = j
          BY <1>5, <3>1, <5>1
        <5> QED
          BY <2>1, <3>1, <4>3, <5>1, <5>2
      <4> QED
        BY <4>1, <4>2, <4>3 DEF Comes
    <3> QED
      BY <3>1
  <2>5. PICK o \in {"create", "run"} : o = "create"
    OBVIOUS
  <2>6. pin' = 0 /\ q \notin lost' /\ posted'[q] = {} /\ handle'[q] = IF o = "create" THEN "none" ELSE "open"
    BY <1>3, <2>5
  <2>7. Item(todo', t, h).op = o /\ Item(todo', t, h).pin = q
    BY <1>4, <2>2, <2>5
  <2> QED
    BY <1>7, <1>13, <2>3, <2>4, <2>6, <2>7, FreshLone, SMTT(30)
<1>15. \A p \in 1 .. M : ~Owned(T, p) /\ ~Owned(T, p)'
  BY DEF Owned
<1>16. ASSUME NEW p \in 1 .. M, p # q PROVE Books(T, F, M, p)' /\ HandleIs(T, p)'
  <2>1. SamePin(T, p)
    <3>1. refs'[p] = refs[p] /\ (p <= made' <=> p <= made)
      BY <1>1, <1>2, <1>16 DEF PinTypes
    <3> QED
      BY <1>15, <3>1 DEF SamePin
  <2>2. Away(todo, t, b, x, p)
    BY <1>4, <1>5, <1>16 DEF Away
  <2>3. SameCounts(T, F, M, p)
    BY <2>2, AwayCounts
  <2>4. Books(T, F, M, p)'
    BY <1>1, <1>2, <2>1, <2>3, BooksSame
  <2>5. p \in Nat /\ handle'[p] = handle[p] /\ users'[p] = users[p] /\ running'[p] = running[p]
    OBVIOUS
  <2>6. HandleIs(T, p)'
    BY <1>1, <1>2, <2>1, <2>2, <2>5, HandleOther
  <2> QED
    BY <2>4, <2>6
<1>17. HandleIs(T, q)'
  BY <1>2, <1>3, <1>15 DEF HandleIs
<1>18. Books(T, F, M, q)'
  <2>1. refs'[q] = 1 /\ ~Owned(T, q)'
    BY <1>1, <1>2, <1>15 DEF PinTypes
  <2>2. Books(T, F, M, q)
    BY <1>1, <1>2
  <2> QED
    BY <1>1, <1>2, <1>3, <1>4, <1>5, <2>1, <2>2, NewBooks
<1>19. (\A p \in 1 .. M : Books(T, F, M, p))' /\ (\A p \in 1 .. M : HandleIs(T, p))'
  <2>1. \A p \in 1 .. M : Books(T, F, M, p)' /\ HandleIs(T, p)'
    BY <1>16, <1>17, <1>18
  <2> QED
    BY <2>1
<1>20. Spare(Q, F)'
  BY <1>1 DEF Spare
<1> QED
  BY <1>8, <1>9, <1>10, <1>11, <1>12, <1>13, <1>14, <1>19, <1>20, Whole

-----------------------------------------------------------------------------
\* The session.  What its part of the invariant asks of a step.
OpenOps == SoloOps \ {"cstop", "clear"}
StopOps == {"cstop", "clear"}
SessionFits(T, M, t, b, x) ==
    /\ \A h \in b + 1 .. Height(todo, t) : Item(todo, t, h).op # "leave"
    /\ \A i \in 1 .. Len(x) :
          /\ x[i].op # "leave"
          /\ x[i].op \in OpenOps => t \in inside /\ b = 1 /\ i = Len(x) /\ Item(todo, t, 1).op = "leave"
          /\ x[i].op \in StopOps => t \in inside \/ phase' = "off"
    /\ inside' = inside /\ overlap' = overlap /\ stoping' \in [1 .. M -> BOOLEAN]
    /\ phase' \in {"live", "closing", "off"} /\ (phase = "off" => phase' = "off")
    /\ phase' = "off" => inside = {} /\ (pin' # 0 => Somewhere(todo', T, StopOps))

\* What such a step leaves of the session.
LEMMA SessionKept ==
    ASSUME NEW T, NEW F, NEW M \in Nat, NEW O \in SUBSET T, SessionInv(T, M, O), NEW t, NEW b, NEW x,
           Moved(T, F, M, t, b, x), b < Height(todo, t) \/ Height(todo, t) = 0, SessionFits(T, M, t, b, x)
    PROVE  SessionInv(T, M, O)'
<1>1. /\ t \in T /\ b \in Nat /\ b <= Height(todo, t) /\ Height(todo, t) \in Nat /\ Len(x) \in Nat
      /\ Height(todo', t) = b + Len(x)
      /\ Comes(todo, todo', T, t, b, x) /\ Stays(todo, todo', T, t, b)
  BY MovedIs
<1>2. SessionPlaces(T)'
  <2>1. ASSUME NEW u \in T, NEW h \in 1 .. Height(todo', u),
               h \in 1 .. Height(todo, u), u = t => h <= b, Item(todo', u, h) = Item(todo, u, h)
        PROVE  /\ Item(todo', u, h).op = "leave" =>
                     /\ u \in inside'
                     /\ \/ h = 1
                        \/ h = 2 /\ Height(todo', u) = 2 /\ Item(todo', u, 1).op = "disconnect"
               /\ Item(todo', u, h).op \in OpenOps => u \in inside' /\ h = 2 /\ Item(todo', u, 1).op = "leave"
               /\ Item(todo', u, h).op \in StopOps => u \in inside' \/ phase' = "off"
    <3>1. /\ Item(todo, u, h).op = "leave" =>
                     /\ u \in inside
                     /\ \/ h = 1
                        \/ h = 2 /\ Height(todo, u) = 2 /\ Item(todo, u, 1).op = "disconnect"
          /\ Item(todo, u, h).op \in OpenOps => u \in inside /\ h = 2 /\ Item(todo, u, 1).op = "leave"
          /\ Item(todo, u, h).op \in StopOps => u \in inside \/ phase = "off"
      <4>1. SessionPlaces(T) /\ u \in T /\ h \in 1 .. Height(todo, u)
        BY <2>1 DEF SessionInv
      <4> QED
        BY <4>1 DEF SessionPlaces, OpenOps, StopOps
    <3>2. h > 1 => Item(todo', u, 1) = Item(todo, u, 1)
      <4>1. h > 1 => 1 \in 1 .. Height(todo, u) /\ (u = t => 1 <= b)
        <5>1. Height(todo, u) \in Nat
          BY MovedIs
        <5> QED
          BY <1>1, <2>1, <5>1
      <4> QED
        BY <1>1, <4>1 DEF Stays
    <3>3. u # t => Height(todo', u) = Height(todo, u)
      <4>1. u # t => todo'[u] = todo[u]
        BY MovedIs
      <4> QED
        BY <4>1 DEF Height
    <3>4. u = t => ~(h = 2 /\ Height(todo, u) = 2)
      BY <1>1, <2>1
    <3>5. inside' = inside /\ (phase = "off" => phase' = "off")
      BY DEF SessionFits
    <3> QED
      BY <2>1, <3>1, <3>2, <3>3, <3>4, <3>5
  <2>2. ASSUME NEW i \in 1 .. Len(x), NEW h, h = b + Len(x) + 1 - i, Item(todo', t, h) = x[i]
        PROVE  /\ Item(todo', t, h).op # "leave"
               /\ Item(todo', t, h).op \in OpenOps => t \in inside' /\ h = 2 /\ Item(todo', t, 1).op = "leave"
               /\ Item(todo', t, h).op \in StopOps => t \in inside' \/ phase' = "off"
    <3>1. /\ x[i].op # "leave"
          /\ x[i].op \in OpenOps => t \in inside /\ b = 1 /\ i = Len(x) /\ Item(todo, t, 1).op = "leave"
          /\ x[i].op \in StopOps => t \in inside \/ phase' = "off"
          /\ inside' = inside
      BY DEF SessionFits
    <3>2. b = 1 => Item(todo', t, 1) = Item(todo, t, 1)
      <4>1. b = 1 => 1 \in 1 .. Height(todo, t) /\ 1 <= b
        BY <1>1
      <4> QED
        BY <1>1, <4>1 DEF Stays
    <3>3. b = 1 /\ i = Len(x) => h = 2
      BY <1>1, <2>2
    <3> QED
      BY <2>2, <3>1, <3>2, <3>3
  <2>3. ASSUME NEW u \in T, NEW h \in 1 .. Height(todo', u)
        PROVE  /\ Item(todo', u, h).op = "leave" =>
                     /\ u \in inside'
                     /\ \/ h = 1
                        \/ h = 2 /\ Height(todo', u) = 2 /\ Item(todo', u, 1).op = "disconnect"
               /\ Item(todo', u, h).op \in OpenOps => u \in inside' /\ h = 2 /\ Item(todo', u, 1).op = "leave"
               /\ Item(todo', u, h).op \in StopOps => u \in inside' \/ phase' = "off"
    <3>1. CASE h \in 1 .. Height(todo, u) /\ (u = t => h <= b) /\ Item(todo', u, h) = Item(todo, u, h)
      BY <2>1, <3>1
    <3>2. CASE u = t /\ \E i \in 1 .. Len(x) : h = b + Len(x) + 1 - i /\ Item(todo', u, h) = x[i]
      <4>1. PICK i \in 1 .. Len(x) : h = b + Len(x) + 1 - i /\ Item(todo', t, h) = x[i]
        BY <3>2
      <4>2. /\ Item(todo', t, h).op # "leave"
            /\ Item(todo', t, h).op \in OpenOps => t \in inside' /\ h = 2 /\ Item(todo', t, 1).op = "leave"
            /\ Item(todo', t, h).op \in StopOps => t \in inside' \/ phase' = "off"
        BY <2>2, <4>1
      <4> QED
        BY <3>2, <4>2
    <3> QED
      BY <1>1, <3>1, <3>2 DEF Comes
  <2> QED
    BY <2>3 DEF SessionPlaces, OpenOps, StopOps
<1>3. \A u \in inside' : Somewhere(todo', {u}, {"leave"})
  <2>1. ASSUME NEW u \in inside' PROVE Somewhere(todo', {u}, {"leave"})
    <3>1. Somewhere(todo, {u}, {"leave"})
      BY DEF SessionInv, SessionFits
    <3>2. PICK h \in 1 .. Height(todo, u) : Item(todo, u, h).op = "leave"
      BY <3>1 DEF Somewhere
    <3>3. CASE u = t
      <4>1. h <= b
        <5>1. \A k \in b + 1 .. Height(todo, t) : Item(todo, t, k).op # "leave"
          BY DEF SessionFits
        <5>2. h \in 1 .. Height(todo, t) /\ Item(todo, t, h).op = "leave"
          BY <3>2, <3>3
        <5> QED
          BY <1>1, <5>1, <5>2
      <4>2. h \in 1 .. Height(todo', u) /\ Item(todo', u, h) = Item(todo, u, h)
        BY <1>1, <3>3, <4>1 DEF Stays
      <4> QED
        BY <3>2, <4>2 DEF Somewhere
    <3>4. CASE u # t /\ u \in T
      <4>1. h \in 1 .. Height(todo', u) /\ Item(todo', u, h) = Item(todo, u, h)
        BY <1>1, <3>4 DEF Stays
      <4> QED
        BY <3>2, <4>1 DEF Somewhere
    <3>5. u \in T
      BY DEF SessionInv, SessionFits
    <3> QED
      BY <3>3, <3>4, <3>5
  <2> QED
    BY <2>1
<1>4. /\ phase' \in {"live", "closing", "off"} /\ inside' \subseteq O /\ overlap' = FALSE
      /\ stoping' \in [1 .. M -> BOOLEAN] /\ \A u, v \in inside' : u = v
  BY DEF SessionInv, SessionFits
<1>5. phase' = "off" => inside' = {} /\ (pin' # 0 => Somewhere(todo', T, StopOps))
  BY DEF SessionFits
<1> QED
  BY <1>2, <1>3, <1>4, <1>5 DEF SessionInv, StopOps

\* A step of a pin is no step of the session.
SessionOps == {"leave"} \cup SoloOps

LEMMA SessionQuiet ==
    ASSUME NEW T, NEW F, NEW M \in Nat, NEW O \in SUBSET T, SessionInv(T, M, O), NEW t, NEW b, NEW x,
           Moved(T, F, M, t, b, x), b < Height(todo, t) \/ Height(todo, t) = 0,
           Untouched(todo, t, b, x, SessionOps),
           phase' = phase, inside' = inside, overlap' = overlap, pin' = pin, stoping' \in [1 .. M -> BOOLEAN]
    PROVE  SessionInv(T, M, O)'
<1>1. /\ \A h \in b + 1 .. Height(todo, t) : Item(todo, t, h).op \notin SessionOps
      /\ \A i \in 1 .. Len(x) : x[i].op \notin SessionOps
  BY DEF Untouched
<1>2. phase = "off" => inside = {} /\ (pin # 0 => Somewhere(todo, T, StopOps))
  BY DEF SessionInv, StopOps
<1>3. Somewhere(todo, T, StopOps) => Somewhere(todo', T, StopOps)
  <2>1. \A h \in b + 1 .. Height(todo, t) : Item(todo, t, h).op \notin StopOps
    BY <1>1 DEF SessionOps, SoloOps, StopOps
  <2> QED
    BY <2>1, SameSomewhere
<1>4. phase \in {"live", "closing", "off"}
  BY DEF SessionInv
<1>5. SessionFits(T, M, t, b, x)
  BY <1>1, <1>2, <1>3, <1>4 DEF SessionFits, SessionOps, SoloOps, OpenOps, StopOps
<1> QED
  BY <1>5, SessionKept

\* What is known of the thread that starts or stops a pin for the user.
Within_(t) ==
    /\ todo[t] # <<>> /\ Height(todo, t) = 2 /\ Item(todo, t, 1).op = "leave" /\ t \in inside
    /\ phase \in {"live", "closing"}

\* The invariant says it of a thread at such a call.
LEMMA SoloAt ==
    ASSUME NEW T, NEW F, NEW M \in Nat, NEW O, PinTypes(T, F, M), SessionInv(T, M, O), NEW t \in T,
           NEW op \in OpenOps, At(t, op)
    PROVE  Within_(t) /\ Item(todo, t, 2).op = op /\ Somewhere(todo, T, SoloOps)
<1>1. PICK n : n = Height(todo, t)
  OBVIOUS
<1>2. todo[t] # <<>> /\ n \in 1 .. n /\ Item(todo, t, n).op = op
  BY <1>1, AtSomewhere
<1>3. t \in inside /\ n = 2 /\ Item(todo, t, 1).op = "leave"
  <2>1. SessionPlaces(T) /\ n \in 1 .. Height(todo, t)
    BY <1>1, <1>2 DEF SessionInv
  <2> QED
    BY <1>2, <2>1 DEF SessionPlaces, OpenOps
<1>4. phase \in {"live", "closing"}
  BY <1>3 DEF SessionInv
<1>5. Somewhere(todo, T, SoloOps)
  BY <1>1, <1>2 DEF Somewhere, OpenOps
<1> QED
  BY <1>1, <1>2, <1>3, <1>4, <1>5 DEF Within_

\* The calls are on the stack of t, above b others.
PushedAs(t, b, x) == /\ Height(todo', t) = b + Len(x) /\ b \in Nat
                     /\ \A i \in 1 .. Len(x) : Item(todo', t, b + Len(x) + 1 - i) = x[i]

LEMMA IsPushed ==
    ASSUME NEW T, NEW F, NEW M, NEW t, NEW b, NEW x, Moved(T, F, M, t, b, x)
    PROVE  PushedAs(t, b, x)
BY MovedIs DEF PushedAs

LEMMA PushedTwo ==
    ASSUME NEW T, NEW F, NEW M, NEW t, NEW b, NEW x, Moved(T, F, M, t, b, x), Len(x) = 2
    PROVE  Height(todo', t) = b + 2 /\ Item(todo', t, b + 2) = x[1] /\ Item(todo', t, b + 1) = x[2]
<1>1. /\ Height(todo', t) = b + Len(x) /\ b \in Nat
      /\ \A i \in 1 .. Len(x) : Item(todo', t, b + Len(x) + 1 - i) = x[i]
  <2>1. PushedAs(t, b, x)
    BY IsPushed
  <2> QED
    BY <2>1 DEF PushedAs
<1>2. 1 \in 1 .. Len(x) /\ 2 \in 1 .. Len(x) /\ Len(x) = 2
  OBVIOUS
<1>3. Item(todo', t, b + Len(x) + 1 - 1) = x[1] /\ Item(todo', t, b + Len(x) + 1 - 2) = x[2]
  BY <1>1, <1>2
<1>4. b + Len(x) + 1 - 1 = b + 2 /\ b + Len(x) + 1 - 2 = b + 1
  BY <1>1, <1>2
<1> QED
  BY <1>1, <1>2, <1>3, <1>4

\* It comes back with an error: only leave and disconnect are left.
LEMMA RefusedSession ==
    ASSUME NEW T, NEW F, NEW M \in Nat, NEW O \in SUBSET T, SessionInv(T, M, O), NEW t, NEW b, b = 0, NEW x,
           Moved(T, F, M, t, b, x), Len(x) = 2, x[1].op = "leave", x[2].op = "disconnect", Within_(t),
           UNCHANGED <<phase, inside, overlap, pin, stoping>>
    PROVE  SessionInv(T, M, O)'
<1>1. /\ t \in T /\ \A u \in T \ {t} : todo'[u] = todo[u]
  BY MovedIs
<1>2. Height(todo', t) = 2 /\ Item(todo', t, 2).op = "leave" /\ Item(todo', t, 1).op = "disconnect"
  <2>1. Height(todo', t) = b + 2 /\ Item(todo', t, b + 2) = x[1] /\ Item(todo', t, b + 1) = x[2]
    BY PushedTwo
  <2>2. b + 2 = 2 /\ b + 1 = 1
    OBVIOUS
  <2> QED
    BY <2>1, <2>2
<1>3. SessionPlaces(T)'
  <2>1. ASSUME NEW u \in T, NEW h \in 1 .. Height(todo', u)
        PROVE  /\ Item(todo', u, h).op = "leave" =>
                     /\ u \in inside'
                     /\ \/ h = 1
                        \/ h = 2 /\ Height(todo', u) = 2 /\ Item(todo', u, 1).op = "disconnect"
               /\ Item(todo', u, h).op \in OpenOps => u \in inside' /\ h = 2 /\ Item(todo', u, 1).op = "leave"
               /\ Item(todo', u, h).op \in StopOps => u \in inside' \/ phase' = "off"
    <3>1. CASE u = t
      <4>1. h \in {1, 2} /\ t \in inside'
        BY <1>2, <3>1 DEF Within_
      <4> QED
        BY <1>1, <1>2, <3>1, <4>1 DEF OpenOps, StopOps, SoloOps
    <3>2. CASE u # t
      <4>1. \A k : Item(todo', u, k) = Item(todo, u, k)
        BY <1>1, <3>2 DEF Item
      <4>2. Height(todo', u) = Height(todo, u)
        BY <1>1, <3>2 DEF Height
      <4>3. SessionPlaces(T)
        BY DEF SessionInv
      <4>4. inside' = inside /\ phase' = phase
        OBVIOUS
      <4> QED
        BY <4>1, <4>2, <4>3, <4>4 DEF SessionPlaces, OpenOps, StopOps
    <3> QED
      BY <3>1, <3>2
  <2> QED
    BY <2>1 DEF SessionPlaces, OpenOps, StopOps
<1>4. \A u \in inside' : Somewhere(todo', {u}, {"leave"})
  <2>1. \A u \in inside' : u = t
    BY DEF Within_, SessionInv
  <2>2. Somewhere(todo', {t}, {"leave"})
    BY <1>1, <1>2 DEF Somewhere
  <2> QED
    BY <2>1, <2>2
<1> QED
  BY <1>3, <1>4 DEF SessionInv, Within_

\* The last one leaves.
LEMMA LeaveSession ==
    ASSUME NEW T, NEW F, NEW M \in Nat, NEW O \in SUBSET T, PinTypes(T, F, M), SessionInv(T, M, O), NEW t \in T,
           At(t, "leave")
    PROVE  /\ inside = {t} /\ phase \in {"live", "closing"} /\ Height(todo, t) \in {1, 2}
           /\ ~Somewhere(todo, T, SoloOps)
           /\ Height(todo, t) = 2 => Item(todo, t, 1).op = "disconnect"
           /\ \A u \in T : \A h \in 1 .. Height(todo, u) :
                 Item(todo, u, h).op = "leave" => u = t /\ h = Height(todo, t)
<1>1. PICK n : n = Height(todo, t)
  OBVIOUS
<1>2. todo[t] # <<>> /\ n \in 1 .. n /\ Item(todo, t, n).op = "leave"
  BY <1>1, AtSomewhere
<1>3. SessionPlaces(T)
  BY DEF SessionInv
<1>4. t \in inside /\ (n = 1 \/ (n = 2 /\ Item(todo, t, 1).op = "disconnect"))
  BY <1>1, <1>2, <1>3 DEF SessionPlaces
<1>5. inside = {t} /\ phase \in {"live", "closing"}
  BY <1>4 DEF SessionInv
<1>6. ASSUME NEW u \in T, NEW h \in 1 .. Height(todo, u)
      PROVE  /\ Item(todo, u, h).op = "leave" => u = t /\ h = n
             /\ Item(todo, u, h).op \notin SoloOps
  <2>1. CASE u = t
    <3>1. h = 1 \/ h = 2
      BY <1>1, <1>4, <2>1
    <3>2. Item(todo, u, h).op \in OpenOps => h = 2 /\ Item(todo, u, 1).op = "leave"
      BY <1>3 DEF SessionPlaces, OpenOps
    <3> QED
      BY <1>1, <1>2, <1>4, <2>1, <3>1, <3>2 DEF OpenOps, SoloOps
  <2>2. CASE u # t
    <3>1. u \notin inside
      BY <1>5, <2>2
    <3> QED
      BY <1>3, <1>5, <3>1 DEF SessionPlaces, SoloOps
  <2> QED
    BY <2>1, <2>2
<1> QED
  BY <1>1, <1>4, <1>5, <1>6 DEF Somewhere

\* The steps of the session.
Cap(T, Q, F, M) == PinInv(T, Q, F, M, inside) /\ SessionInv(T, M, T \ Q)

\* The invariant after a step, by its parts.
LEMMA CapIs ==
    ASSUME NEW T, NEW Q, NEW F, NEW M, NEW C, C = inside', PinInv(T, Q, F, M, C)', SessionInv(T, M, T \ Q)'
    PROVE  Cap(T, Q, F, M)'
<1>1. Backed(todo, T, C)' => Backed(todo, T, inside)'
  BY DEF Backed, Starting
<1>2. PinInv(T, Q, F, M, inside)'
  BY <1>1 DEF PinInv
<1> QED
  BY <1>2 DEF Cap

\* While nobody is inside, nobody starts or stops a pin.
LEMMA Nobody ==
    ASSUME NEW T, NEW M, NEW O, SessionInv(T, M, O), inside = {}, phase # "off"
    PROVE  /\ \A u \in T : \A h \in 1 .. Height(todo, u) : Item(todo, u, h).op \notin SessionOps
           /\ ~Somewhere(todo, T, SoloOps)
<1>1. SessionPlaces(T)
  BY DEF SessionInv
<1>2. \A u \in T : \A h \in 1 .. Height(todo, u) : Item(todo, u, h).op \notin SessionOps
  BY <1>1 DEF SessionPlaces, SessionOps, SoloOps
<1> QED
  BY <1>2 DEF Somewhere, SessionOps

\* A message arrives.
Messaged(t) ==
    /\ todo[t] = <<>> /\ phase = "live"
    /\ inside' = inside \cup {t}
    /\ overlap' = (overlap \/ inside # {})
    /\ \E op \in {"strt", "stop"} : todo' = [todo EXCEPT ![t] = <<Call(op), Call("leave")>>]
    /\ Idle /\ UNCHANGED <<phase, stoping>>

\* The only one inside, unless two were let in.
LEMMA MessageStep ==
    ASSUME NEW T, IsFiniteSet(T), NEW Q \in SUBSET T, NEW F, NEW M \in Nat, Cap(T, Q, F, M),
           NEW t \in T \ Q, Messaged(t)
    PROVE  overlap' \/ Cap(T, Q, F, M)'
<1>1. SUFFICES ASSUME inside = {} PROVE Cap(T, Q, F, M)'
  BY DEF Messaged
<1>0. PICK C : C = inside'
  OBVIOUS
<1>2. PICK e \in {"strt", "stop"} : todo' = [todo EXCEPT ![t] = <<Call(e), Call("leave")>>]
  BY DEF Messaged
<1>3. /\ PinInv(T, Q, F, M, inside) /\ SessionInv(T, M, T \ Q) /\ t \in T /\ PinTypes(T, F, M)
  BY Parts DEF Cap
<1>4. /\ todo[t] = <<>> /\ phase = "live" /\ inside' = {t} /\ phase' = phase /\ stoping' = stoping
      /\ overlap' = FALSE /\ Idle
  BY <1>1, <1>3 DEF Messaged, SessionInv
<1>5. Call(e).op = e /\ Call("leave").op = "leave" /\ Call(e) \in Items(M, F) /\ Call("leave") \in Items(M, F)
  BY CallIs, CallItem DEF PlainOps
<1>6. PICK x : x = <<Call(e), Call("leave")>>
  OBVIOUS
<1>7. /\ x \in Seq(Items(M, F)) /\ Len(x) = 2 /\ x[1].op = e /\ x[2].op = "leave"
      /\ \A i \in 1 .. Len(x) : x[i].op = IF i = 1 THEN e ELSE "leave"
  BY <1>5, <1>6
<1>8. Moved(T, F, M, t, 0, x) /\ Height(todo, t) = 0
  <2>1. todo' = [todo EXCEPT ![t] = x] /\ todo[t] = <<>> /\ x \in Seq(Items(M, F)) /\ t \in T
    BY <1>2, <1>3, <1>4, <1>6, <1>7
  <2>2. PinTypes(T, F, M)
    BY <1>3
  <2> QED
    BY <2>1, <2>2, Idles
<1>9. /\ \A u \in T : \A h \in 1 .. Height(todo, u) : Item(todo, u, h).op \notin SessionOps
      /\ ~Somewhere(todo, T, SoloOps)
  BY <1>1, <1>3, <1>4, Nobody
<1>10. PinInv(T, Q, F, M, C)'
  <2>1. PlainOnly(todo, t, 0, x)
    BY <1>7, <1>8 DEF PlainOnly, HasPin, PinOps, FrameOps
  <2>2. NoClear(todo, t, 0, x)
    BY <1>7, <1>8 DEF NoClear
  <2>3. SoloFits(todo, T, t, 0, x)
    BY <1>7, <1>9 DEF SoloFits, SoloOps
  <2>4. BackFits(T, t, 0, inside, C)
    BY <1>1 DEF BackFits, Starting
  <2> QED
    BY <1>3, <1>4, <1>8, <2>1, <2>2, <2>3, <2>4, PlainStep
<1>11. /\ Height(todo', t) = 2 /\ Item(todo', t, 2).op = e /\ Item(todo', t, 1).op = "leave"
       /\ \A u \in T \ {t} : todo'[u] = todo[u]
  <2>1. PICK b : b = 0
    OBVIOUS
  <2>2. Moved(T, F, M, t, b, x)
    BY <1>8, <2>1
  <2>3. Height(todo', t) = b + 2 /\ Item(todo', t, b + 2) = x[1] /\ Item(todo', t, b + 1) = x[2]
    BY <1>7, <2>2, PushedTwo
  <2>4. b + 2 = 2 /\ b + 1 = 1
    BY <2>1
  <2>5. \A u \in T \ {t} : todo'[u] = todo[u]
    BY <2>2, MovedIs
  <2> QED
    BY <1>7, <2>3, <2>4, <2>5
<1>12. SessionPlaces(T)'
  <2>1. ASSUME NEW u \in T, NEW h \in 1 .. Height(todo', u)
        PROVE  /\ Item(todo', u, h).op = "leave" =>
                     /\ u \in inside'
                     /\ \/ h = 1
                        \/ h = 2 /\ Height(todo', u) = 2 /\ Item(todo', u, 1).op = "disconnect"
               /\ Item(todo', u, h).op \in OpenOps => u \in inside' /\ h = 2 /\ Item(todo', u, 1).op = "leave"
               /\ Item(todo', u, h).op \in StopOps => u \in inside' \/ phase' = "off"
    <3>1. CASE u = t
      <4>1. (h = 1 \/ h = 2) /\ t \in inside'
        BY <1>4, <1>11, <3>1
      <4> QED
        BY <1>11, <3>1, <4>1 DEF OpenOps, StopOps, SoloOps
    <3>2. CASE u # t
      <4>1. Item(todo', u, h) = Item(todo, u, h) /\ h \in 1 .. Height(todo, u)
        BY <1>11, <3>2 DEF Item, Height
      <4>2. Item(todo, u, h).op \notin SessionOps
        BY <1>9, <4>1
      <4> QED
        BY <4>1, <4>2 DEF OpenOps, StopOps, SessionOps, SoloOps
    <3> QED
      BY <3>1, <3>2
  <2> QED
    BY <2>1 DEF SessionPlaces, OpenOps, StopOps
<1>13. \A u \in inside' : Somewhere(todo', {u}, {"leave"})
  <2>1. Somewhere(todo', {t}, {"leave"})
    BY <1>11 DEF Somewhere
  <2> QED
    BY <1>4, <2>1
<1>14. SessionInv(T, M, T \ Q)'
  <2>1. phase' = "live" /\ overlap' = FALSE /\ stoping' \in [1 .. M -> BOOLEAN] /\ inside' = {t}
    BY <1>3, <1>4 DEF SessionInv
  <2>2. inside' \subseteq T \ Q /\ \A u, v \in inside' : u = v
    BY <2>1
  <2> QED
    BY <1>12, <1>13, <2>1, <2>2 DEF SessionInv
<1> QED
  BY <1>0, <1>10, <1>14, CapIs

\* OnUserData returns.
LEMMA LeaveStep ==
    ASSUME NEW T, IsFiniteSet(T), NEW Q \in SUBSET T, NEW F, NEW M \in Nat, Cap(T, Q, F, M), NEW t \in T, Leave(t)
    PROVE  Cap(T, Q, F, M)'
<1>1. /\ PinInv(T, Q, F, M, inside) /\ SessionInv(T, M, T \ Q) /\ PinTypes(T, F, M)
  BY Parts DEF Cap
<1>0. PICK C : C = inside'
  OBVIOUS
<1>2. At(t, "leave") /\ inside' = inside \ {t} /\ Idle /\ overlap' = overlap /\ stoping' = stoping
  BY DEF Leave
<1>3. /\ inside = {t} /\ phase \in {"live", "closing"} /\ Height(todo, t) \in {1, 2}
      /\ ~Somewhere(todo, T, SoloOps)
      /\ Height(todo, t) = 2 => Item(todo, t, 1).op = "disconnect"
      /\ \A u \in T : \A h \in 1 .. Height(todo, u) :
            Item(todo, u, h).op = "leave" => u = t /\ h = Height(todo, t)
  BY <1>1, <1>2, LeaveSession
<1>4. Call("cstop").op = "cstop" /\ Call("cstop") \in Items(M, F)
  BY CallIs, CallItem DEF PlainOps
<1>5. PICK x : /\ x \in {<<>>, <<Call("cstop")>>} /\ Do(t, x)
               /\ \/ x = <<>> /\ phase' = phase /\ phase' = "live"
                  \/ x = <<Call("cstop")>> /\ phase' = "off"
  BY <1>3 DEF Leave
<1>6. x \in Seq(Items(M, F)) /\ \A i \in 1 .. Len(x) : x[i].op = "cstop" /\ phase' = "off" /\ i = 1 /\ Len(x) = 1
  <2>1. CASE x = <<>>
    BY <2>1
  <2>2. CASE x = <<Call("cstop")>> /\ phase' = "off"
    <3>1. Len(x) = 1 /\ x[1] = Call("cstop") /\ x \in Seq(Items(M, F))
      BY <1>4, <2>2
    <3> QED
      BY <1>4, <2>2, <3>1
  <2> QED
    BY <1>5, <2>1, <2>2
<1>7. PICK b : b = Height(todo, t) - 1
  OBVIOUS
<1>8. /\ todo[t] # <<>> /\ Item(todo, t, Height(todo, t)).op = "leave"
      /\ \A h \in Height(todo, t) - 1 + 1 .. Height(todo, t) : h = Height(todo, t)
  <2>1. /\ todo[t] # <<>> /\ Item(todo, t, Height(todo, t)) = Head(todo[t]) /\ Head(todo[t]).op = "leave"
        /\ \A h \in Height(todo, t) - 1 + 1 .. Height(todo, t) : h = Height(todo, t)
    BY <1>1, <1>2, AtSomewhere
  <2> QED
    BY <2>1
<1>9. Moved(T, F, M, t, b, x) /\ b < Height(todo, t) /\ b \in {0, 1}
  BY <1>1, <1>3, <1>5, <1>6, <1>7, <1>8, Doing
<1>10. \A h \in b + 1 .. Height(todo, t) : Item(todo, t, h).op = "leave"
  BY <1>7, <1>8
<1>11. \A h \in 1 .. b : Item(todo, t, h).op = "disconnect"
  BY <1>3, <1>7, <1>9
<1>12. PinInv(T, Q, F, M, C)'
  <2>1. PlainOnly(todo, t, b, x)
    BY <1>6, <1>10 DEF PlainOnly, HasPin, PinOps, FrameOps
  <2>2. NoClear(todo, t, b, x)
    BY <1>6, <1>10 DEF NoClear
  <2>3. SoloFits(todo, T, t, b, x)
    BY <1>3, <1>6 DEF SoloFits
  <2>4. BackFits(T, t, b, inside, C)
    <3>1. ASSUME NEW u \in T, NEW h \in 1 .. Height(todo, u), u = t => h <= b, Item(todo, u, h).op \in NeedOps,
                 NEW p, Starting(todo, T, inside, u, p)
          PROVE  FALSE
      <4>1. u = t
        BY <1>3, <3>1 DEF Starting
      <4>2. h \in 1 .. b
        BY <1>9, <3>1, <4>1
      <4> QED
        BY <1>11, <3>1, <4>1, <4>2 DEF NeedOps
    <3> QED
      BY <3>1 DEF BackFits
  <2> QED
    BY <1>1, <1>2, <1>9, <2>1, <2>2, <2>3, <2>4, PlainStep
<1>13. ASSUME NEW u \in T, NEW h \in 1 .. Height(todo', u), Item(todo', u, h).op \in SessionOps
       PROVE  Item(todo', u, h).op = "cstop" /\ phase' = "off"
  <2>1. Comes(todo, todo', T, t, b, x)
    BY <1>9, MovedIs
  <2>2. CASE h \in 1 .. Height(todo, u) /\ (u = t => h <= b) /\ Item(todo', u, h) = Item(todo, u, h)
    <3>1. Item(todo, u, h).op \notin SoloOps
      BY <1>3, <2>2 DEF Somewhere
    <3>2. Item(todo, u, h).op # "leave"
      BY <1>3, <1>7, <1>9, <2>2
    <3> QED
      BY <1>13, <2>2, <3>1, <3>2 DEF SessionOps
  <2>3. CASE \E i \in 1 .. Len(x) : Item(todo', u, h) = x[i]
    BY <1>6, <2>3
  <2> QED
    BY <2>1, <2>2, <2>3 DEF Comes
<1>14. SessionPlaces(T)'
  BY <1>13 DEF SessionPlaces, SessionOps, SoloOps
<1>15. phase' = "off" => Somewhere(todo', T, StopOps)
  <2>1. ASSUME phase' = "off" PROVE 1 \in 1 .. Len(x) /\ x[1].op \in StopOps
    BY <1>4, <1>5, <2>1, SMTT(30) DEF StopOps
  <2> QED
    BY <1>9, <2>1, GivenSomewhere
<1>16. SessionInv(T, M, T \ Q)'
  <2>1. inside' = {} /\ phase' \in {"live", "off"} /\ overlap' = FALSE /\ stoping' \in [1 .. M -> BOOLEAN]
    BY <1>1, <1>2, <1>3, <1>5 DEF SessionInv
  <2> QED
    BY <1>14, <1>15, <2>1 DEF SessionInv, StopOps
<1> QED
  BY <1>0, <1>12, <1>16, CapIs

\* OnUserData returns with an error.
LEMMA RefuseStep ==
    ASSUME NEW T, IsFiniteSet(T), NEW Q \in SUBSET T, NEW F, NEW M \in Nat, Cap(T, Q, F, M), NEW t \in T,
           NEW op \in {"strt", "stop", "refuse"}, At(t, op), Refuse(t), Idle, UNCHANGED <<phase, inside, overlap, stoping>>
    PROVE  Cap(T, Q, F, M)'
<1>0. PICK C : C = inside'
  OBVIOUS
<1>1. /\ PinInv(T, Q, F, M, inside) /\ SessionInv(T, M, T \ Q) /\ PinTypes(T, F, M)
  BY Parts DEF Cap
<1>2. /\ Within_(t) /\ Item(todo, t, 2).op = op /\ Somewhere(todo, T, SoloOps)
  <2>1. op \in OpenOps
    BY DEF OpenOps, SoloOps
  <2> QED
    BY <1>1, <2>1, SoloAt
<1>3. PICK x : x = Refused
  OBVIOUS
<1>4. /\ x \in Seq(Items(M, F)) /\ Len(x) = 2 /\ x[1].op = "leave" /\ x[2].op = "disconnect"
      /\ \A i \in 1 .. Len(x) : x[i].op \in {"leave", "disconnect"}
  BY <1>3, CallIs, CallItem DEF Refused, PlainOps
<1>5. PICK b : b = 0
  OBVIOUS
<1>6. Moved(T, F, M, t, b, x)
  <2>1. todo' = [todo EXCEPT ![t] = x] /\ todo \in [T -> Seq(Items(M, F))]
    BY <1>1, <1>3 DEF Refuse, PinTypes
  <2>2. todo' \in [T -> Seq(Items(M, F))] /\ Pushed(todo, todo', T, t, 0, x)
    BY <1>4, <2>1, NewPushes
  <2> QED
    BY <1>4, <1>5, <2>1, <2>2 DEF Moved
<1>7. Height(todo, t) = 2 /\ b < Height(todo, t) /\ \A h \in b + 1 .. Height(todo, t) : h = 1 \/ h = 2
  BY <1>2, <1>5 DEF Within_
<1>8. \A h \in b + 1 .. Height(todo, t) : Item(todo, t, h).op \in {"leave", op}
  BY <1>2, <1>7 DEF Within_
<1>9. PinInv(T, Q, F, M, C)'
  <2>1. PlainOnly(todo, t, b, x)
    BY <1>4, <1>8 DEF PlainOnly, HasPin, PinOps, FrameOps
  <2>2. NoClear(todo, t, b, x)
    BY <1>4, <1>8 DEF NoClear
  <2>3. SoloFits(todo, T, t, b, x)
    BY <1>4 DEF SoloFits, SoloOps
  <2>4. BackFits(T, t, b, inside, C)
    BY <1>2 DEF BackFits, Starting
  <2> QED
    BY <1>1, <1>6, <1>7, <2>1, <2>2, <2>3, <2>4, PlainStep
<1>10. SessionInv(T, M, T \ Q)'
  <2>1. UNCHANGED <<phase, inside, overlap, pin, stoping>>
    BY DEF Idle
  <2>2. PICK O \in SUBSET T : O = T \ Q
    OBVIOUS
  <2>3. SessionInv(T, M, O)'
    BY <1>1, <1>2, <1>4, <1>5, <1>6, <2>1, <2>2, RefusedSession
  <2> QED
    BY <2>2, <2>3
<1> QED
  BY <1>0, <1>9, <1>10, CapIs

\* A call of no pin is over, and at most CEncTcp::Stop is called.
LEMMA PlainCap ==
    ASSUME NEW T, IsFiniteSet(T), NEW Q \in SUBSET T, NEW F, NEW M \in Nat, Cap(T, Q, F, M), NEW t \in T,
           NEW op \in PlainOps \ {"leave", "clear"}, At(t, op), NEW x, x \in {<<>>, <<Call("cstop")>>}, Do(t, x),
           Idle, UNCHANGED <<inside, overlap, stoping>>,
           phase' \in {"live", "closing", "off"}, phase = "off" => phase' = "off",
           x # <<>> => /\ op \in OpenOps \/ (inside = {} /\ phase = "live")
                       /\ t \in inside \/ phase' = "off",
           phase' = "off" => inside = {} /\ (x # <<>> \/ pin = 0 \/ (phase = "off" /\ op \notin StopOps))
    PROVE  Cap(T, Q, F, M)'
<1>0. PICK C : C = inside'
  OBVIOUS
<1>1. /\ PinInv(T, Q, F, M, inside) /\ SessionInv(T, M, T \ Q) /\ PinTypes(T, F, M)
  BY Parts DEF Cap
<1>2. Call("cstop").op = "cstop" /\ Call("cstop") \in Items(M, F)
  BY CallIs, CallItem DEF PlainOps
<1>3. /\ x \in Seq(Items(M, F)) /\ \A i \in 1 .. Len(x) : x[i].op = "cstop" /\ i = 1 /\ Len(x) = 1 /\ x # <<>>
  <2>1. CASE x = <<>>
    BY <2>1
  <2>2. CASE x = <<Call("cstop")>>
    <3>1. Len(x) = 1 /\ x[1] = Call("cstop") /\ x \in Seq(Items(M, F))
      BY <1>2, <2>2
    <3> QED
      BY <1>2, <2>2, <3>1
  <2> QED
    BY <2>1, <2>2
<1>4. x # <<>> => 1 \in 1 .. Len(x) /\ x[1].op = "cstop"
  BY <1>2
<1>5. /\ todo[t] # <<>> /\ Item(todo, t, Height(todo, t)).op = op /\ Height(todo, t) \in 1 .. Height(todo, t)
      /\ \A h \in Height(todo, t) - 1 + 1 .. Height(todo, t) : h = Height(todo, t)
  <2>1. /\ todo[t] # <<>> /\ Item(todo, t, Height(todo, t)) = Head(todo[t]) /\ Head(todo[t]).op = op
        /\ Height(todo, t) \in 1 .. Height(todo, t)
        /\ \A h \in Height(todo, t) - 1 + 1 .. Height(todo, t) : h = Height(todo, t)
    BY <1>1, AtSomewhere
  <2> QED
    BY <2>1
<1>6. PICK b : b = Height(todo, t) - 1
  OBVIOUS
<1>7. Moved(T, F, M, t, b, x) /\ b < Height(todo, t)
  BY <1>1, <1>3, <1>5, <1>6, Doing
<1>8. \A h \in b + 1 .. Height(todo, t) : Item(todo, t, h).op = op
  BY <1>5, <1>6
<1>9. op \in SoloOps => Somewhere(todo, T, SoloOps)
  BY <1>5 DEF Somewhere
<1>10. inside = {} /\ phase = "live" => ~Somewhere(todo, T, SoloOps)
  BY <1>1, Nobody
<1>11. PinInv(T, Q, F, M, C)'
  <2>1. PlainOnly(todo, t, b, x)
    BY <1>3, <1>8 DEF PlainOnly, HasPin, PinOps, FrameOps, PlainOps
  <2>2. NoClear(todo, t, b, x)
    BY <1>3, <1>8 DEF NoClear
  <2>3. SoloFits(todo, T, t, b, x)
    <3>1. CASE x = <<>>
      BY <1>3, <3>1 DEF SoloFits
    <3>2. CASE x # <<>> /\ op \in OpenOps
      <4>1. \E h \in b + 1 .. Height(todo, t) : Item(todo, t, h).op \in SoloOps
        <5>1. Height(todo, t) \in b + 1 .. Height(todo, t)
          BY <1>5, <1>6
        <5> QED
          BY <1>5, <3>2, <5>1 DEF OpenOps
      <4>2. \A i, j \in 1 .. Len(x) : x[i].op \in SoloOps /\ x[j].op \in SoloOps => i = j
        BY <1>3
      <4> QED
        BY <4>1, <4>2 DEF SoloFits
    <3>3. CASE x # <<>> /\ inside = {} /\ phase = "live"
      BY <1>3, <1>10, <3>3 DEF SoloFits
    <3> QED
      BY <3>1, <3>2, <3>3
  <2>4. BackFits(T, t, b, inside, C)
    <3>1. CASE op \in SoloOps
      BY <1>9, <3>1 DEF BackFits, Starting
    <3>2. CASE inside = {}
      BY <3>2 DEF BackFits, Starting
    <3>3. CASE x = <<>>
      <4>1. inside \subseteq C /\ pin' = pin /\ \A i \in 1 .. Len(x) : x[i].op \notin SoloOps
        BY <1>0, <1>3, <3>3 DEF Idle
      <4>2. PICK D : D = inside
        OBVIOUS
      <4>3. \A u, p : Starting(todo, T, D, u, p) => Starting(todo, T, C, u, p)'
        BY <1>7, <4>1, <4>2, StartingStays
      <4> QED
        BY <4>2, <4>3 DEF BackFits
    <3> QED
      BY <3>1, <3>2, <3>3 DEF OpenOps
  <2> QED
    BY <1>1, <1>7, <2>1, <2>2, <2>3, <2>4, PlainStep
<1>12. SessionInv(T, M, T \ Q)'
  <2>1. phase' = "off" => inside = {} /\ (pin' # 0 => Somewhere(todo', T, StopOps))
    <3>1. CASE x # <<>>
      <4>1. 1 \in 1 .. Len(x) /\ x[1].op \in StopOps
        BY <1>4, <3>1 DEF StopOps
      <4>2. Somewhere(todo', T, StopOps)
        BY <1>7, <4>1, GivenSomewhere
      <4> QED
        BY <4>2
    <3>2. CASE pin = 0
      BY <3>2 DEF Idle
    <3>3. CASE phase = "off" /\ op \notin StopOps
      <4>1. pin # 0 => Somewhere(todo, T, StopOps)
        BY <1>1, <3>3 DEF SessionInv, StopOps
      <4>2. Somewhere(todo, T, StopOps) => Somewhere(todo', T, StopOps)
        <5>1. \A h \in b + 1 .. Height(todo, t) : Item(todo, t, h).op \notin StopOps
          BY <1>8, <3>3
        <5> QED
          BY <1>7, <5>1, SameSomewhere
      <4> QED
        BY <4>1, <4>2 DEF Idle
    <3> QED
      BY <3>1, <3>2, <3>3
  <2>2. stoping' \in [1 .. M -> BOOLEAN]
    BY <1>1 DEF SessionInv
  <2>3. SessionFits(T, M, t, b, x)
    BY <1>3, <1>8, <2>1, <2>2 DEF SessionFits, OpenOps, StopOps
  <2>4. PICK O \in SUBSET T : O = T \ Q
    OBVIOUS
  <2>5. SessionInv(T, M, O)'
    BY <1>1, <1>7, <2>3, <2>4, SessionKept
  <2> QED
    BY <2>4, <2>5
<1> QED
  BY <1>0, <1>11, <1>12, CapIs

-----------------------------------------------------------------------------
\* The steps of KsRead that call nothing of the program.
OwnOps == HasPin \ {"create", "run"}
PinMoved(T, F, M, t) == \E b, x :
    /\ Moved(T, F, M, t, b, x) /\ (b < Height(todo, t) \/ Height(todo, t) = 0)
    /\ \A h \in b + 1 .. Height(todo, t) : Item(todo, t, h).op \in OwnOps
    /\ \A i \in 1 .. Len(x) : x[i].op \in OwnOps

\* Such a step, for each number of calls that it makes.
LEMMA DoMoved ==
    ASSUME NEW T, IsFiniteSet(T), NEW F, NEW M \in Nat, PinTypes(T, F, M), NEW t \in T,
           NEW op \in OwnOps, At(t, op), NEW x \in Seq(Items(M, F)), \A i \in 1 .. Len(x) : x[i].op \in OwnOps, Do(t, x)
    PROVE  PinMoved(T, F, M, t)
<1>1. /\ todo[t] # <<>> /\ Item(todo, t, Height(todo, t)) = Head(todo[t]) /\ Head(todo[t]).op = op
      /\ \A h \in Height(todo, t) - 1 + 1 .. Height(todo, t) : h = Height(todo, t)
  BY AtSomewhere
<1>2. Moved(T, F, M, t, Height(todo, t) - 1, x) /\ Height(todo, t) - 1 < Height(todo, t)
  BY <1>1, Doing
<1>3. \A h \in Height(todo, t) - 1 + 1 .. Height(todo, t) : Item(todo, t, h).op \in OwnOps
  BY <1>1
<1> QED
  BY <1>2, <1>3 DEF PinMoved

LEMMA NoneMoved ==
    ASSUME NEW T, IsFiniteSet(T), NEW F, NEW M \in Nat, PinTypes(T, F, M), NEW t \in T,
           NEW op \in OwnOps, At(t, op), Do(t, <<>>)
    PROVE  PinMoved(T, F, M, t)
<1>1. PICK x : x = <<>>
  OBVIOUS
<1>2. x \in Seq(Items(M, F)) /\ (\A i \in 1 .. Len(x) : x[i].op \in OwnOps) /\ Do(t, x)
  BY <1>1
<1> QED
  BY <1>2, DoMoved

LEMMA OneMoved ==
    ASSUME NEW T, IsFiniteSet(T), NEW F, NEW M \in Nat, PinTypes(T, F, M), NEW t \in T,
           NEW op \in OwnOps, At(t, op), NEW c \in Items(M, F), c.op \in OwnOps, Do(t, <<c>>)
    PROVE  PinMoved(T, F, M, t)
<1>1. PICK x : x = <<c>>
  OBVIOUS
<1>2. x \in Seq(Items(M, F)) /\ (\A i \in 1 .. Len(x) : x[i].op \in OwnOps) /\ Do(t, x)
  BY <1>1
<1> QED
  BY <1>2, DoMoved

LEMMA TwoMoved ==
    ASSUME NEW T, IsFiniteSet(T), NEW F, NEW M \in Nat, PinTypes(T, F, M), NEW t \in T,
           NEW op \in OwnOps, At(t, op), NEW c \in Items(M, F), c.op \in OwnOps, NEW d \in Items(M, F), d.op \in OwnOps,
           Do(t, <<c, d>>)
    PROVE  PinMoved(T, F, M, t)
<1>1. PICK x : x = <<c, d>>
  OBVIOUS
<1>2. x \in Seq(Items(M, F)) /\ (\A i \in 1 .. Len(x) : x[i].op \in OwnOps) /\ Do(t, x)
  BY <1>1
<1> QED
  BY <1>2, DoMoved

\* The calls of KsRead that call nothing of the program.
Own_(t) == \/ Read(t) \/ IssueRead(t) \/ Ioctl(t) \/ Unlock(t) \/ PushFrame(t)
           \/ SetState(t) \/ SetStop(t) \/ Close(t)

\* Each of them is such a step,
LEMMA OwnMoved ==
    ASSUME NEW T, IsFiniteSet(T), NEW Q, NEW F, NEW M \in Nat, NEW B, PinInv(T, Q, F, M, B),
           NEW t \in T, Own_(t)
    PROVE  PinMoved(T, F, M, t) /\ pin' = pin
<1>1. PinTypes(T, F, M)
  BY Parts
<1>2. PICK q : q = Arg(t)
  OBVIOUS
<1>3. pin' = pin
  BY DEF Own_, Read, IssueRead, Ioctl, Unlock, PushFrame, SetState, SetStop, Close
<1>4. {"read", "issue", "ioctl", "unlock", "push", "setstate", "setstop", "close"} \subseteq OwnOps
  BY DEF OwnOps, HasPin, PinOps, FrameOps
<1>5. ASSUME NEW op \in OwnOps, At(t, op)
      PROVE  /\ q \in 1 .. M /\ AtPin(T, Q, F, M, t, q) /\ todo[t] # <<>> /\ Head(todo[t]).op = op
             /\ op \in FrameOps => Frame(t) \in F
  <2>1. AtPin(T, Q, F, M, t, q) /\ Head(todo[t]).op = op /\ q \in 1 .. M
    BY <1>2, <1>5, AtCall DEF OwnOps
  <2> QED
    BY <2>1 DEF AtPin
<1>6. ASSUME q \in 1 .. M
      PROVE  /\ \A op \in {"unlock", "setstop"} : On(op, q) \in Items(M, F) /\ On(op, q).op \in OwnOps
             /\ \A op \in {"fail", "ioctl", "issue"} : \A f \in F : With(op, q, f) \in Items(M, F) /\ With(op, q, f).op \in OwnOps
  BY <1>6, OnIs, OnItem, WithIs, WithItem DEF OwnOps, HasPin, PinOps, FrameOps
<1>7. CASE Read(t)
  <2>1. At(t, "read") /\ "read" \in OwnOps
    BY <1>4, <1>7 DEF Read
  <2>2. q \in 1 .. M
    BY <1>5, <2>1
  <2>3. CASE Do(t, <<>>)
    BY <1>1, <1>3, <2>1, <2>3, NoneMoved
  <2>4. ASSUME NEW f \in free[q], Do(t, <<With("issue", q, f)>>) PROVE PinMoved(T, F, M, t)
    <3>1. f \in F
      BY <1>1, <2>2 DEF PinTypes
    <3>2. With("issue", q, f) \in Items(M, F) /\ With("issue", q, f).op \in OwnOps
      BY <1>6, <2>2, <3>1
    <3> QED
      BY <1>1, <2>1, <2>4, <3>2, OneMoved
  <2> QED
    BY <1>2, <1>3, <1>7, <2>3, <2>4 DEF Read
<1>8. CASE IssueRead(t)
  <2>1. At(t, "issue") /\ "issue" \in OwnOps
    BY <1>4, <1>8 DEF IssueRead
  <2>2. q \in 1 .. M /\ Frame(t) \in F
    BY <1>5, <2>1 DEF FrameOps
  <2>3. /\ With("ioctl", q, Frame(t)) \in Items(M, F) /\ With("ioctl", q, Frame(t)).op \in OwnOps
        /\ With("fail", q, Frame(t)) \in Items(M, F) /\ With("fail", q, Frame(t)).op \in OwnOps
        /\ On("unlock", q) \in Items(M, F) /\ On("unlock", q).op \in OwnOps
    BY <1>6, <2>2
  <2>4. CASE Do(t, <<With("ioctl", q, Frame(t)), On("unlock", q)>>)
    BY <1>1, <1>3, <2>1, <2>3, <2>4, TwoMoved
  <2>5. CASE Do(t, <<With("fail", q, Frame(t))>>)
    BY <1>1, <1>3, <2>1, <2>3, <2>5, OneMoved
  <2> QED
    BY <1>2, <1>3, <1>8, <2>4, <2>5 DEF IssueRead
<1>9. CASE Ioctl(t)
  <2>1. At(t, "ioctl") /\ "ioctl" \in OwnOps
    BY <1>4, <1>9 DEF Ioctl
  <2>2. q \in 1 .. M /\ Frame(t) \in F /\ AtPin(T, Q, F, M, t, q) /\ todo[t] # <<>> /\ Head(todo[t]).op = "ioctl"
    BY <1>5, <2>1 DEF FrameOps
  <2>3. CASE Do(t, <<>>)
    BY <1>1, <1>3, <2>1, <2>3, NoneMoved
  <2>4. PICK d : d = With("fail", q, Frame(t))
    OBVIOUS
  <2>5. d \in Items(M, F) /\ d.op \in OwnOps
    BY <1>6, <2>2, <2>4
  <2>6. CASE todo' = [todo EXCEPT ![t] = <<todo[t][2], d>> \o SubSeq(@, 3, Len(@))]
    <3>1. PICK u : u = Item(todo, t, Height(todo, t) - 1)
      OBVIOUS
    <3>2. Unlocker(todo, T, M, F, t, q, u)
      BY <2>2, <3>1, UnderTop
    <3>3. PICK x : x = <<u, d>>
      OBVIOUS
    <3>4. Moved(T, F, M, t, Height(todo, t) - 2, x)
      BY <1>1, <2>2, <2>5, <2>6, <3>2, <3>3, BackTwo
    <3>5. /\ Height(todo, t) \in Nat /\ u = Item(todo, t, Height(todo, t) - 1) /\ u.op = "unlock"
      BY <3>2 DEF Unlocker
    <3>6. \A i \in 1 .. Len(x) : x[i].op \in OwnOps
      <4>1. Len(x) = 2 /\ x[1] = u /\ x[2] = d
        BY <3>3
      <4> QED
        BY <1>4, <2>5, <3>5, <4>1
    <3>7. Item(todo, t, Height(todo, t)).op = "ioctl"
      BY <1>1, <2>1, AtSomewhere
    <3>8. \A h \in Height(todo, t) - 2 + 1 .. Height(todo, t) : Item(todo, t, h).op \in OwnOps
      <4>1. \A h \in Height(todo, t) - 2 + 1 .. Height(todo, t) : h = Height(todo, t) \/ h = Height(todo, t) - 1
        BY <3>5
      <4> QED
        BY <1>4, <3>5, <3>7, <4>1
    <3>9. Height(todo, t) - 2 < Height(todo, t)
      BY <3>5
    <3> QED
      BY <1>3, <3>4, <3>6, <3>8, <3>9 DEF PinMoved
  <2> QED
    BY <1>2, <1>9, <2>3, <2>4, <2>6 DEF Ioctl
<1>10. CASE Unlock(t)
  <2>1. At(t, "unlock") /\ "unlock" \in OwnOps /\ Do(t, <<>>)
    BY <1>4, <1>10 DEF Unlock
  <2> QED
    BY <1>1, <1>3, <2>1, NoneMoved
<1>11. CASE PushFrame(t)
  <2>1. At(t, "push") /\ "push" \in OwnOps /\ Do(t, <<>>)
    BY <1>4, <1>11 DEF PushFrame
  <2> QED
    BY <1>1, <1>3, <2>1, NoneMoved
<1>12. CASE SetStop(t)
  <2>1. At(t, "setstop") /\ "setstop" \in OwnOps /\ Do(t, <<>>)
    BY <1>4, <1>12 DEF SetStop
  <2> QED
    BY <1>1, <1>3, <2>1, NoneMoved
<1>13. CASE SetState(t)
  <2>1. At(t, "setstate") /\ "setstate" \in OwnOps
    BY <1>4, <1>13 DEF SetState
  <2>2. q \in 1 .. M
    BY <1>5, <2>1
  <2>3. /\ On("setstop", q) \in Items(M, F) /\ On("setstop", q).op \in OwnOps
        /\ On("unlock", q) \in Items(M, F) /\ On("unlock", q).op \in OwnOps
    BY <1>6, <2>2
  <2>4. CASE Do(t, <<On("setstop", q), On("unlock", q)>>)
    BY <1>1, <1>3, <2>1, <2>3, <2>4, TwoMoved
  <2>5. CASE Do(t, <<>>)
    BY <1>1, <1>3, <2>1, <2>5, NoneMoved
  <2> QED
    BY <1>2, <1>3, <1>13, <2>4, <2>5 DEF SetState
<1>14. CASE Close(t)
  <2>1. At(t, "close") /\ "close" \in OwnOps
    BY <1>4, <1>14 DEF Close
  <2>2. q \in 1 .. M
    BY <1>5, <2>1
  <2>3. On("unlock", q) \in Items(M, F) /\ On("unlock", q).op \in OwnOps
    BY <1>6, <2>2
  <2>4. CASE Do(t, <<On("unlock", q)>>)
    BY <1>1, <1>3, <2>1, <2>3, <2>4, OneMoved
  <2>5. CASE Do(t, <<>>)
    BY <1>1, <1>3, <2>1, <2>5, NoneMoved
  <2> QED
    BY <1>2, <1>3, <1>14, <2>4, <2>5 DEF Close
<1> QED
  BY <1>7, <1>8, <1>9, <1>10, <1>11, <1>12, <1>13, <1>14 DEF Own_

\* and keeps the invariant of the pins.
LEMMA OwnPinStep ==
    ASSUME NEW T, IsFiniteSet(T), NEW Q, IsFiniteSet(Q), NEW F, IsFiniteSet(F), NEW M \in Nat, NEW B, NEW C,
           PinInv(T, Q, F, M, B), B \subseteq C, Reads \in Int, NEW t \in T, Own_(t)
    PROVE  PinInv(T, Q, F, M, C)'
BY ReadStep_, IssueStep, IoctlStep, UnlockStep, PushStep, SetStateStep, SetStopStep, CloseStep DEF Own_

\* A step of a thread that touches none of these calls.
Untouching(T, F, M, t, ops) == \E b, x :
    /\ Moved(T, F, M, t, b, x) /\ (b < Height(todo, t) \/ Height(todo, t) = 0)
    /\ Untouched(todo, t, b, x, ops)

\* The pin's own steps touch no call of the program.
LEMMA OwnUntouching ==
    ASSUME NEW T, NEW F, NEW M, NEW t, PinMoved(T, F, M, t), NEW ops, ops \cap OwnOps = {}
    PROVE  Untouching(T, F, M, t, ops)
BY DEF PinMoved, Untouching, Untouched

\* A step that neither is nor makes one of these calls.
LEMMA CallsUntouching ==
    ASSUME NEW T, IsFiniteSet(T), NEW F, NEW M \in Nat, PinTypes(T, F, M), NEW t \in T, NEW op, At(t, op),
           NEW x \in Seq(Items(M, F)), Do(t, x), NEW ops, op \notin ops, \A i \in 1 .. Len(x) : x[i].op \notin ops
    PROVE  Untouching(T, F, M, t, ops)
<1>1. /\ todo[t] # <<>> /\ Item(todo, t, Height(todo, t)) = Head(todo[t]) /\ Head(todo[t]).op = op
      /\ \A h \in Height(todo, t) - 1 + 1 .. Height(todo, t) : h = Height(todo, t)
  BY AtSomewhere
<1>2. Moved(T, F, M, t, Height(todo, t) - 1, x) /\ Height(todo, t) - 1 < Height(todo, t)
  BY <1>1, Doing
<1>3. \A h \in Height(todo, t) - 1 + 1 .. Height(todo, t) : Item(todo, t, h).op \notin ops
  BY <1>1
<1>4. Untouched(todo, t, Height(todo, t) - 1, x, ops)
  BY <1>3 DEF Untouched
<1> QED
  BY <1>2, <1>4 DEF Untouching

\* The session does not hear of it.
LEMMA CapQuiet ==
    ASSUME NEW T, NEW Q \in SUBSET T, NEW F, NEW M \in Nat, Cap(T, Q, F, M), NEW t,
           NEW C, C = inside', PinInv(T, Q, F, M, C)', Untouching(T, F, M, t, SessionOps),
           phase' = phase, inside' = inside, overlap' = overlap, pin' = pin, stoping' \in [1 .. M -> BOOLEAN]
    PROVE  Cap(T, Q, F, M)'
<1>1. PICK b, x : /\ Moved(T, F, M, t, b, x) /\ (b < Height(todo, t) \/ Height(todo, t) = 0)
                  /\ Untouched(todo, t, b, x, SessionOps)
  BY DEF Untouching
<1>2. PICK O \in SUBSET T : O = T \ Q
  OBVIOUS
<1>3. SessionInv(T, M, O)
  BY <1>2 DEF Cap
<1>4. SessionInv(T, M, O)'
  BY <1>1, <1>3, SessionQuiet
<1> QED
  BY <1>2, <1>4, CapIs

\* The calls of CEncTcp for a pin.
NotOfSession(x, M, F, q) == QuietCalls(x, M, F, q) /\ \A i \in 1 .. Len(x) : x[i].op \notin SessionOps

\* What CEncTcp does when a read fails,
LEMMA FailIs ==
    ASSUME NEW M, NEW F, NEW q \in 1 .. M
    PROVE  NotOfSession(Fail(q), M, F, q)
<1>1. /\ Call("h264stop").op = "h264stop" /\ Call("disconnect").op = "disconnect"
      /\ On("close", q).op = "close" /\ On("close", q).pin = q
      /\ Call("h264stop") \in Items(M, F) /\ Call("disconnect") \in Items(M, F) /\ On("close", q) \in Items(M, F)
  BY CallIs, CallItem, OnIs, OnItem DEF PlainOps, PinOps
<1>2. PICK x : x = Fail(q)
  OBVIOUS
<1>3. CASE x = <<>>
  <2>1. NotOfSession(x, M, F, q)
    BY <1>3 DEF NotOfSession, QuietCalls, CallsOf, Needless
  <2> QED
    BY <1>2, <2>1
<1>4. CASE x = <<Call("h264stop"), Call("disconnect"), On("close", q)>>
  <2>1. x \in Seq(Items(M, F)) /\ Len(x) = 3 /\ x[1] = Call("h264stop") /\ x[2] = Call("disconnect") /\ x[3] = On("close", q)
    BY <1>1, <1>4
  <2>2. \A i \in 1 .. Len(x) : x[i].op \in {"h264stop", "disconnect", "close"} /\ (x[i].op = "close" => x[i].pin = q)
    BY <1>1, <2>1
  <2>3. NotOfSession(x, M, F, q)
    <3>1. \A i \in 1 .. Len(x) : /\ x[i].op \notin SessionOps \cup Counted_ \cup LockOps \cup NeedOps \cup {"push", "process"}
                                 /\ x[i].op \in HasPin => x[i].pin = q
      BY <2>2 DEF SessionOps, SoloOps, Counted_, RefOps, HoldOps, ReadOps, LockOps, NeedOps, HasPin, PinOps, FrameOps
    <3> QED
      BY <2>1, <3>1 DEF NotOfSession, QuietCalls, CallsOf, Needless, SessionOps
  <2> QED
    BY <1>2, <2>3
<1> QED
  BY <1>2, <1>3, <1>4 DEF Fail

\* and when the pin is destroyed.
LEMMA DestructorIs ==
    ASSUME NEW M, NEW F, NEW q \in 1 .. M
    PROVE  NotOfSession(Destructor(q), M, F, q)
<1>1. /\ Call("h264stop").op = "h264stop" /\ Call("disconnect").op = "disconnect"
      /\ Call("h264stop") \in Items(M, F) /\ Call("disconnect") \in Items(M, F)
  BY CallIs, CallItem DEF PlainOps
<1>2. PICK x : x = Destructor(q)
  OBVIOUS
<1>3. PICK y, z : /\ x = y \o z /\ y = <<Call("h264stop")>> /\ z \in {<<>>, <<Call("disconnect")>>}
  BY <1>2 DEF Destructor
<1>4. x \in Seq(Items(M, F)) /\ \A i \in 1 .. Len(x) : x[i].op \in {"h264stop", "disconnect"}
  <2>1. y \in Seq(Items(M, F)) /\ \A i \in 1 .. Len(y) : y[i].op \in {"h264stop", "disconnect"}
    BY <1>1, <1>3
  <2>2. z \in Seq(Items(M, F)) /\ \A i \in 1 .. Len(z) : z[i].op \in {"h264stop", "disconnect"}
    <3>1. CASE z = <<>>
      BY <3>1
    <3>2. CASE z = <<Call("disconnect")>>
      <4>1. z \in Seq(Items(M, F)) /\ Len(z) = 1 /\ z[1] = Call("disconnect")
        BY <1>1, <3>2
      <4> QED
        BY <1>1, <4>1
    <3> QED
      BY <1>3, <3>1, <3>2
  <2>3. x \in Seq(Items(M, F)) /\ Len(x) = Len(y) + Len(z) /\ Len(y) \in Nat /\ Len(z) \in Nat
    BY <1>3, <2>1, <2>2
  <2>4. \A i \in 1 .. Len(y) + Len(z) : x[i] = IF i <= Len(y) THEN y[i] ELSE z[i - Len(y)]
    BY <1>3, <2>1, <2>2
  <2>5. ASSUME NEW i \in 1 .. Len(x) PROVE x[i].op \in {"h264stop", "disconnect"}
    <3>1. CASE i <= Len(y)
      <4>1. i \in 1 .. Len(y) /\ x[i] = y[i]
        BY <2>3, <2>4, <3>1
      <4> QED
        BY <2>1, <4>1
    <3>2. CASE ~(i <= Len(y))
      <4>1. i - Len(y) \in 1 .. Len(z) /\ x[i] = z[i - Len(y)]
        BY <2>3, <2>4, <3>2
      <4> QED
        BY <2>2, <4>1
    <3> QED
      BY <3>1, <3>2
  <2> QED
    BY <2>3, <2>5
<1>5. \A i \in 1 .. Len(x) : x[i].op \notin SessionOps \cup Counted_ \cup LockOps \cup NeedOps \cup {"push", "process"} \cup HasPin
  BY <1>4 DEF SessionOps, SoloOps, Counted_, RefOps, HoldOps, ReadOps, LockOps, NeedOps, HasPin, PinOps, FrameOps
<1>6. NotOfSession(x, M, F, q)
  BY <1>4, <1>5 DEF NotOfSession, QuietCalls, CallsOf, Needless, SessionOps
<1> QED
  BY <1>2, <1>6

\* The steps of a pin that call the program: a failed request or read, the last reference.
LEMMA AnswerUntouching ==
    ASSUME NEW T, IsFiniteSet(T), NEW Q, NEW F, NEW M \in Nat, NEW B, PinInv(T, Q, F, M, B), NEW t \in T, todo[t] # <<>>,
           NEW q, q = Arg(t), NEW ops, ops \cap OwnOps = {}, NEW x \in Seq(Items(M, F)), \A i \in 1 .. Len(x) : x[i].op \notin ops,
           \/ NoRequest(t, x) \/ ReadFailed(t, x) \/ Release(t, x)
    PROVE  Untouching(T, F, M, t, ops) /\ pin' = pin
<1>1. PinTypes(T, F, M)
  BY Parts
<1>2. PICK op \in {"read", "fail", "release"} : At(t, op)
  BY DEF NoRequest, ReadFailed, Release
<1>3. op \notin ops /\ "release" \notin ops /\ "close" \notin ops
  BY DEF OwnOps, HasPin, PinOps, FrameOps
<1>4. q \in 1 .. M
  <2>1. op \in HasPin
    BY DEF HasPin, PinOps, FrameOps
  <2> QED
    BY <1>2, <2>1, AtCall
<1>5. PICK y : y \in {<<>>, x, x \o <<On("release", q)>>, x \o <<On("close", q)>>} /\ Do(t, y)
  BY DEF NoRequest, ReadFailed, Release
<1>6. y \in Seq(Items(M, F)) /\ \A i \in 1 .. Len(y) : y[i].op \notin ops
  <2>1. CASE y = <<>>
    BY <2>1
  <2>2. CASE y = x
    BY <2>2
  <2>3. ASSUME NEW r \in {"release", "close"}, y = x \o <<On(r, q)>>
        PROVE  y \in Seq(Items(M, F)) /\ \A i \in 1 .. Len(y) : y[i].op \notin ops
    <3>1. On(r, q).op = r /\ On(r, q) \in Items(M, F)
      BY <1>4, OnIs, OnItem DEF PinOps
    <3>2. PICK d : d = On(r, q)
      OBVIOUS
    <3>3. y = x \o <<d>> /\ d \in Items(M, F) /\ d.op \notin ops
      BY <1>3, <2>3, <3>1, <3>2
    <3>4. y \in Seq(Items(M, F)) /\ Len(y) = Len(x) + 1 /\ y[Len(x) + 1] = d /\ \A i \in 1 .. Len(x) : y[i] = x[i]
      BY <3>3
    <3>5. Len(x) \in Nat
      OBVIOUS
    <3> QED
      BY <3>3, <3>4, <3>5
  <2> QED
    BY <1>5, <2>1, <2>2, <2>3
<1>7. pin' = pin
  BY DEF NoRequest, ReadFailed, Release
<1> QED
  BY <1>1, <1>2, <1>3, <1>5, <1>6, <1>7, CallsUntouching

-----------------------------------------------------------------------------
\* The steps of Capture.  Those of a pin.
LEMMA OwnCap ==
    ASSUME NEW T, IsFiniteSet(T), NEW Q \in SUBSET T, NEW F, IsFiniteSet(F), NEW M \in Nat, Reads \in Nat,
           Cap(T, Q, F, M), NEW t \in T, Own_(t), UNCHANGED <<session, stoping>>
    PROVE  Cap(T, Q, F, M)'
<1>1. PICK C : C = inside'
  OBVIOUS
<1>2. PICK B : B = inside
  OBVIOUS
<1>3. PinInv(T, Q, F, M, B) /\ stoping' \in [1 .. M -> BOOLEAN] /\ B \subseteq C
  BY <1>1, <1>2 DEF Cap, SessionInv, session
<1>4. IsFiniteSet(Q) /\ Reads \in Int
  BY FS_Subset
<1>5. PinInv(T, Q, F, M, C)'
  BY <1>3, <1>4, OwnPinStep
<1>6. PinMoved(T, F, M, t) /\ pin' = pin
  BY <1>3, OwnMoved
<1>7. SessionOps \cap OwnOps = {}
  BY DEF SessionOps, OwnOps, SoloOps, HasPin, PinOps, FrameOps
<1>8. Untouching(T, F, M, t, SessionOps)
  BY <1>6, <1>7, OwnUntouching
<1> QED
  BY <1>1, <1>3, <1>5, <1>6, <1>8, CapQuiet DEF session

LEMMA ClearCap ==
    ASSUME NEW T, IsFiniteSet(T), NEW Q \in SUBSET T, NEW F, NEW M \in Nat,
           Cap(T, Q, F, M), NEW t \in T, Clear(t), UNCHANGED <<session, stoping>>
    PROVE  Cap(T, Q, F, M)'
<1>1. PICK C : C = inside'
  OBVIOUS
<1>2. PICK O \in SUBSET T : O = T \ Q
  OBVIOUS
<1>3. PinInv(T, Q, F, M, inside) /\ SessionInv(T, M, O) /\ PinTypes(T, F, M)
  BY <1>2, Parts DEF Cap
<1>4. PinInv(T, Q, F, M, C)'
  BY <1>3, ClearStep
<1>5. At(t, "clear") /\ Do(t, <<>>) /\ pin' = 0
  BY DEF Clear, NoPin
<1>6. /\ todo[t] # <<>> /\ Item(todo, t, Height(todo, t)) = Head(todo[t]) /\ Head(todo[t]).op = "clear"
      /\ \A h \in Height(todo, t) - 1 + 1 .. Height(todo, t) : h = Height(todo, t)
  BY <1>3, <1>5, AtSomewhere
<1>7. PICK b : b = Height(todo, t) - 1
  OBVIOUS
<1>8. PICK x : x = <<>>
  OBVIOUS
<1>12. x \in Seq(Items(M, F))
  BY <1>8
<1>9. Moved(T, F, M, t, b, x) /\ b < Height(todo, t)
  BY <1>3, <1>5, <1>6, <1>7, <1>8, <1>12, Doing
<1>10. SessionFits(T, M, t, b, x)
  <2>1. \A h \in b + 1 .. Height(todo, t) : Item(todo, t, h).op # "leave"
    BY <1>6, <1>7
  <2>2. \A i \in 1 .. Len(x) : FALSE
    BY <1>8
  <2>3. /\ stoping' \in [1 .. M -> BOOLEAN] /\ phase' \in {"live", "closing", "off"} /\ (phase = "off" => phase' = "off")
        /\ inside' = inside /\ overlap' = overlap /\ (phase' = "off" => inside = {})
    BY <1>3 DEF SessionInv, session
  <2> QED
    BY <1>5, <2>1, <2>2, <2>3 DEF SessionFits
<1>11. SessionInv(T, M, O)'
  BY <1>3, <1>9, <1>10, SessionKept
<1> QED
  BY <1>1, <1>2, <1>4, <1>11, CapIs

\* The request or the read failed, or it was the last reference.
LEMMA AnswerCap ==
    ASSUME NEW T, IsFiniteSet(T), NEW Q \in SUBSET T, NEW F, IsFiniteSet(F), NEW M \in Nat, Reads \in Nat,
           Cap(T, Q, F, M), NEW t \in T, todo[t] # <<>>,
           \/ NoRequest(t, Fail(Arg(t))) \/ ReadFailed(t, Fail(Arg(t))) \/ Release(t, Destructor(Arg(t))),
           UNCHANGED <<session, stoping>>
    PROVE  Cap(T, Q, F, M)'
<1>1. PICK C : C = inside'
  OBVIOUS
<1>2. PICK B : B = inside
  OBVIOUS
<1>3. PinInv(T, Q, F, M, B) /\ stoping' \in [1 .. M -> BOOLEAN] /\ B \subseteq C /\ Reads \in Int
  BY <1>1, <1>2 DEF Cap, SessionInv, session
<1>4. PICK op \in {"read", "fail", "release"} : At(t, op)
  BY DEF NoRequest, ReadFailed, Release
<1>5. PICK q : q = Arg(t)
  OBVIOUS
<1>6. q \in 1 .. M
  <2>1. op \in HasPin
    BY DEF HasPin, PinOps, FrameOps
  <2> QED
    BY <1>3, <1>4, <1>5, <2>1, AtCall
<1>7. PICK x : /\ NotOfSession(x, M, F, q)
               /\ \/ NoRequest(t, x) \/ ReadFailed(t, x)
                  \/ Release(t, x)
  BY <1>5, <1>6, FailIs, DestructorIs
<1>8. QuietCalls(x, M, F, Arg(t)) /\ x \in Seq(Items(M, F)) /\ \A i \in 1 .. Len(x) : x[i].op \notin SessionOps
  BY <1>5, <1>7 DEF NotOfSession, QuietCalls
<1>9. PinInv(T, Q, F, M, C)'
  <2>1. CASE NoRequest(t, x)
    BY <1>3, <1>8, <2>1, NoRequestStep
  <2>2. CASE ReadFailed(t, x)
    BY <1>3, <1>8, <2>2, ReadFailedStep
  <2>3. CASE Release(t, x)
    BY <1>3, <1>8, <2>3, ReleaseStep
  <2> QED
    BY <1>7, <2>1, <2>2, <2>3
<1>10. SessionOps \cap OwnOps = {}
  BY DEF SessionOps, OwnOps, SoloOps, HasPin, PinOps, FrameOps
<1>11. Untouching(T, F, M, t, SessionOps) /\ pin' = pin
  BY <1>3, <1>5, <1>7, <1>8, <1>10, AnswerUntouching
<1> QED
  BY <1>1, <1>3, <1>9, <1>11, CapQuiet DEF session

\* All of them.
LEMMA ReadStepCap ==
    ASSUME NEW T, IsFiniteSet(T), NEW Q \in SUBSET T, NEW F, IsFiniteSet(F), NEW M \in Nat, Reads \in Nat,
           Cap(T, Q, F, M), NEW t \in T, ReadStep(t)
    PROVE  Cap(T, Q, F, M)'
<1>1. CASE OwnStep(t)
  <2>1. Own_(t) \/ Clear(t)
    BY <1>1 DEF OwnStep, Own_
  <2> QED
    BY <2>1, OwnCap, ClearCap DEF ReadStep
<1>2. CASE todo[t] # <<>> /\ (\/ NoRequest(t, Fail(Arg(t))) \/ ReadFailed(t, Fail(Arg(t)))
                              \/ Release(t, Destructor(Arg(t))))
  BY <1>2, AnswerCap DEF ReadStep
<1> QED
  BY <1>1, <1>2 DEF ReadStep

\* Process, and KsRead::Stop.
ProcessCalls(x, M, F, q) ==
    /\ x \in Seq(Items(M, F)) /\ CallsOf(x, q)
    /\ \A i \in 1 .. Len(x) : x[i].op \notin SessionOps \cup Counted_ \cup LockOps

\* A frame is sent, or the peer is gone and the pin is stopped.
LEMMA ProcessIs ==
    ASSUME NEW M, NEW F, NEW q \in 1 .. M,
           NEW x \in {<<>>, <<On("pinstop", q), Call("h264stop"), Call("disconnect")>>}
    PROVE  ProcessCalls(x, M, F, q)
<1>1. CASE x = <<>>
  BY <1>1 DEF ProcessCalls, CallsOf
<1>2. CASE x = <<On("pinstop", q), Call("h264stop"), Call("disconnect")>>
  <2>1. /\ Call("h264stop").op = "h264stop" /\ Call("disconnect").op = "disconnect"
        /\ On("pinstop", q).op = "pinstop" /\ On("pinstop", q).pin = q
        /\ Call("h264stop") \in Items(M, F) /\ Call("disconnect") \in Items(M, F) /\ On("pinstop", q) \in Items(M, F)
    BY CallIs, CallItem, OnIs, OnItem DEF PlainOps, PinOps
  <2>2. /\ x \in Seq(Items(M, F)) /\ Len(x) = 3
        /\ x[1] = On("pinstop", q) /\ x[2] = Call("h264stop") /\ x[3] = Call("disconnect")
    BY <1>2, <2>1
  <2>3. \A i \in 1 .. Len(x) : x[i].op \in {"h264stop", "disconnect", "pinstop"} /\ (x[i].op = "pinstop" => x[i].pin = q)
    BY <2>1, <2>2
  <2>4. \A i \in 1 .. Len(x) : /\ x[i].op \notin SessionOps \cup Counted_ \cup LockOps \cup {"push", "process"}
                               /\ x[i].op \in HasPin => x[i].pin = q
    BY <2>3 DEF SessionOps, SoloOps, Counted_, RefOps, HoldOps, ReadOps, LockOps, HasPin, PinOps, FrameOps
  <2> QED
    BY <2>2, <2>4 DEF ProcessCalls, CallsOf, SessionOps
<1> QED
  BY <1>1, <1>2

\* To stop a pin is to close it.
LEMMA StopIs ==
    ASSUME NEW M, NEW F, NEW q \in 1 .. M, NEW x, x = StopCalls(q)
    PROVE  ProcessCalls(x, M, F, q) /\ NewCloses(x, q)
<1>1. /\ On("setstate", q).op = "setstate" /\ On("setstate", q).pin = q
      /\ On("close", q).op = "close" /\ On("close", q).pin = q
      /\ On("setstate", q) \in Items(M, F) /\ On("close", q) \in Items(M, F)
  BY OnIs, OnItem DEF PinOps
<1>2. /\ x \in Seq(Items(M, F)) /\ Len(x) = 2 /\ x[1] = On("setstate", q) /\ x[2] = On("close", q)
  BY <1>1 DEF StopCalls
<1>3. \A i \in 1 .. Len(x) : x[i].op \in {"setstate", "close"} /\ x[i].pin = q
  BY <1>1, <1>2
<1>4. \A i \in 1 .. Len(x) : /\ x[i].op \notin SessionOps \cup Counted_ \cup LockOps \cup {"push", "process"}
                             /\ x[i].op \in HasPin => x[i].pin = q
  BY <1>3 DEF SessionOps, SoloOps, Counted_, RefOps, HoldOps, ReadOps, LockOps, HasPin, PinOps, FrameOps
<1>5. 2 \in 1 .. Len(x) /\ x[2].op \in {"close", "pinstop"} /\ x[2].pin = q
  BY <1>1, <1>2
<1> QED
  BY <1>2, <1>4, <1>5 DEF ProcessCalls, CallsOf, NewCloses, SessionOps

\* Such a call,
LEMMA CalledCap ==
    ASSUME NEW T, IsFiniteSet(T), NEW Q \in SUBSET T, NEW F, NEW M \in Nat,
           Cap(T, Q, F, M), NEW t \in T, NEW op \in {"process", "pinstop"}, At(t, op), NEW q, q = Arg(t),
           NEW x, ProcessCalls(x, M, F, q), op = "pinstop" => NewCloses(x, q), Do(t, x), Idle,
           UNCHANGED session, stoping' \in [1 .. M -> BOOLEAN]
    PROVE  Cap(T, Q, F, M)'
<1>1. PICK C : C = inside'
  OBVIOUS
<1>2. PICK B : B = inside
  OBVIOUS
<1>3. PinInv(T, Q, F, M, B) /\ B \subseteq C
  BY <1>1, <1>2 DEF Cap, session
<1>4. PinTypes(T, F, M)
  BY <1>3, Parts
<1>5. todo[t] # <<>> /\ Head(todo[t]).op = op
  BY DEF At
<1>6. /\ x \in Seq(Items(M, F)) /\ CallsOf(x, q)
      /\ \A i \in 1 .. Len(x) : x[i].op \notin SessionOps \cup Counted_ \cup LockOps
  BY DEF ProcessCalls
<1>7. /\ op \in HasPin \ ({"create", "run", "release"} \cup LockOps) /\ op \notin Counted_ /\ op \in NeedOps
      /\ op \notin SessionOps
  BY DEF HasPin, PinOps, FrameOps, LockOps, Counted_, RefOps, HoldOps, ReadOps, NeedOps, SessionOps, SoloOps
<1>8. \A p : SameCounts(T, F, M, p)
  <2>1. Head(todo[t]).op \notin Counted_ /\ \A i \in 1 .. Len(x) : x[i].op \notin Counted_
    BY <1>5, <1>6, <1>7
  <2> QED
    BY <1>4, <1>5, <1>6, <2>1, QuietDo
<1>9. PinInv(T, Q, F, M, C)'
  <2>1. /\ Head(todo[t]).op \in HasPin \ ({"create", "run", "release"} \cup LockOps) /\ Head(todo[t]).op \in NeedOps
        /\ \A i \in 1 .. Len(x) : x[i].op \notin LockOps
    BY <1>5, <1>6, <1>7
  <2>2. Head(todo[t]).op \in {"close", "pinstop"} => NewCloses(x, q)
    BY <1>5
  <2> QED
    BY <1>3, <1>5, <1>6, <1>8, <2>1, <2>2, QuietStep
<1>10. Untouching(T, F, M, t, SessionOps)
  <2>1. \A i \in 1 .. Len(x) : x[i].op \notin SessionOps
    BY <1>6
  <2> QED
    BY <1>4, <1>6, <1>7, <2>1, CallsUntouching
<1> QED
  BY <1>1, <1>9, <1>10, CapQuiet DEF session, Idle

\* whose pin is one of the pins,
LEMMA ArgIs ==
    ASSUME NEW T, NEW Q, NEW F, NEW M \in Nat, Cap(T, Q, F, M), NEW t \in T, NEW op \in HasPin, At(t, op), NEW q, q = Arg(t)
    PROVE  q \in 1 .. M /\ stoping \in [1 .. M -> BOOLEAN]
<1>1. PICK B : B = inside
  OBVIOUS
<1>2. PinInv(T, Q, F, M, B)
  BY <1>1 DEF Cap
<1> QED
  BY <1>2, AtCall DEF Cap, SessionInv

\* for a frame
LEMMA ProcessCap ==
    ASSUME NEW T, IsFiniteSet(T), NEW Q \in SUBSET T, NEW F, NEW M \in Nat,
           Cap(T, Q, F, M), NEW t \in T, Process(t)
    PROVE  Cap(T, Q, F, M)'
<1>1. PICK q : q = Arg(t)
  OBVIOUS
<1>2. At(t, "process") /\ "process" \in HasPin
  BY DEF Process, HasPin, FrameOps
<1>3. q \in 1 .. M /\ stoping' \in [1 .. M -> BOOLEAN] /\ UNCHANGED session /\ Idle
  BY <1>1, <1>2, ArgIs DEF Process
<1>4. PICK x : x \in {<<>>, <<On("pinstop", q), Call("h264stop"), Call("disconnect")>>} /\ Do(t, x)
  BY <1>1 DEF Process
<1>5. ProcessCalls(x, M, F, q)
  BY <1>3, <1>4, ProcessIs
<1> QED
  BY <1>1, <1>2, <1>3, <1>4, <1>5, CalledCap

\* and to stop.
LEMMA PinStopCap ==
    ASSUME NEW T, IsFiniteSet(T), NEW Q \in SUBSET T, NEW F, NEW M \in Nat,
           Cap(T, Q, F, M), NEW t \in T, PinStop(t)
    PROVE  Cap(T, Q, F, M)'
<1>1. PICK q : q = Arg(t)
  OBVIOUS
<1>2. At(t, "pinstop") /\ "pinstop" \in HasPin
  BY DEF PinStop, HasPin, PinOps
<1>3. q \in 1 .. M /\ stoping \in [1 .. M -> BOOLEAN]
  BY <1>1, <1>2, ArgIs
<1>4. stoping' \in [1 .. M -> BOOLEAN] /\ UNCHANGED session /\ Idle
  BY <1>3 DEF PinStop
<1>5. PICK x : x = StopCalls(q)
  OBVIOUS
<1>6. Do(t, x) /\ ProcessCalls(x, M, F, q) /\ NewCloses(x, q)
  BY <1>1, <1>3, <1>5, StopIs DEF PinStop
<1> QED
  BY <1>1, <1>2, <1>4, <1>6, CalledCap

\* CEncTcp::Stop.
CallsStop(x, q) == x = <<On("pinstop", q), On("release", q), Call("clear")>>

\* The calls of CEncTcp::Stop are such as StopStep takes.
LEMMA CStopIs ==
    ASSUME NEW M, NEW F, NEW q \in 1 .. M, NEW x, CallsStop(x, q)
    PROVE  /\ StopCalls_(x, M, F, q)
           /\ \A i \in 1 .. Len(x) : x[i].op # "leave" /\ x[i].op \notin OpenOps
           /\ \E i \in 1 .. Len(x) : x[i].op \in StopOps
<1>1. /\ On("pinstop", q).op = "pinstop" /\ On("pinstop", q).pin = q
      /\ On("release", q).op = "release" /\ On("release", q).pin = q
      /\ On("pinstop", q) \in Items(M, F) /\ On("release", q) \in Items(M, F)
      /\ Call("clear").op = "clear" /\ Call("clear") \in Items(M, F)
  BY CallIs, CallItem, OnIs, OnItem DEF PlainOps, PinOps
<1>2. /\ x \in Seq(Items(M, F)) /\ Len(x) = 3
      /\ x[1] = On("pinstop", q) /\ x[2] = On("release", q) /\ x[3] = Call("clear")
  BY <1>1 DEF CallsStop
<1>3. \A i \in 1 .. Len(x) : \/ i = 1 /\ x[i].op = "pinstop" /\ x[i].pin = q
                             \/ i = 2 /\ x[i].op = "release" /\ x[i].pin = q
                             \/ i = 3 /\ x[i].op = "clear"
  BY <1>1, <1>2
<1>4. \A i \in 1 .. Len(x) :
         /\ x[i].op \notin LockOps \cup {"push", "process", "create", "run"} /\ (x[i].op \in HasPin => x[i].pin = q)
         /\ i # 2 => x[i].op \notin Counted_
         /\ x[i].op \in NeedOps => i < 2
         /\ x[i].op \in SoloOps => i = 3
         /\ x[i].op # "leave" /\ x[i].op \notin OpenOps
  BY <1>3 DEF LockOps, HasPin, PinOps, FrameOps, Counted_, RefOps, HoldOps, ReadOps, NeedOps, SoloOps, OpenOps
<1>5. 1 \in 1 .. Len(x) /\ 2 \in 1 .. Len(x) /\ 3 \in 1 .. Len(x)
  BY <1>2
<1>6. x[1].op = "pinstop" /\ x[2].op = "release" /\ x[3].op = "clear"
  BY <1>1, <1>2
<1>7. \E j \in 1 .. Len(x) :
          /\ x[j].op = "release" /\ \A i \in 1 .. Len(x) : i # j => x[i].op \notin Counted_
          /\ \A i \in 1 .. Len(x) : x[i].op \in NeedOps => i < j
  BY <1>4, <1>5, <1>6
<1>8. \E i \in 1 .. Len(x) : x[i].op \in {"close", "pinstop"}
  BY <1>5, <1>6
<1>9. (\E i \in 1 .. Len(x) : x[i].op = "clear") /\ \E i \in 1 .. Len(x) : x[i].op \in StopOps
  BY <1>5, <1>6 DEF StopOps
<1>10. \A i, j \in 1 .. Len(x) : x[i].op \in SoloOps /\ x[j].op \in SoloOps => i = j
  BY <1>4
<1> QED
  BY <1>2, <1>4, <1>7, <1>8, <1>9, <1>10 DEF StopCalls_

\* Whoever stops the pin is alone with it.
LEMMA StopsAlone ==
    ASSUME NEW T, NEW F, NEW M \in Nat, PinTypes(T, F, M), Solo(todo, T), NEW t \in T, At(t, "cstop")
    PROVE  /\ ~Somewhere(todo, T, {"clear"}) /\ Somewhere(todo, T, SoloOps)
           /\ \E h \in Height(todo, t) - 1 + 1 .. Height(todo, t) : Item(todo, t, h).op \in SoloOps
           /\ \A h \in Height(todo, t) - 1 + 1 .. Height(todo, t) : Item(todo, t, h).op = "cstop"
<1>1. /\ Height(todo, t) \in 1 .. Height(todo, t) /\ Height(todo, t) \in Nat
      /\ Item(todo, t, Height(todo, t)).op = "cstop"
      /\ \A h \in Height(todo, t) - 1 + 1 .. Height(todo, t) : h = Height(todo, t)
  <2>1. /\ Height(todo, t) \in 1 .. Height(todo, t) /\ Height(todo, t) \in Nat
        /\ Item(todo, t, Height(todo, t)) = Head(todo[t]) /\ Head(todo[t]).op = "cstop"
        /\ \A h \in Height(todo, t) - 1 + 1 .. Height(todo, t) : h = Height(todo, t)
    BY AtSomewhere
  <2> QED
    BY <2>1
<1>2. "cstop" \in SoloOps /\ "clear" \in SoloOps
  BY DEF SoloOps
<1>3. ~Somewhere(todo, T, {"clear"})
  <2>1. SUFFICES ASSUME NEW u \in T, NEW k \in 1 .. Height(todo, u), Item(todo, u, k).op = "clear" PROVE FALSE
    BY DEF Somewhere
  <2>2. u = t /\ k = Height(todo, t)
    BY <1>1, <1>2, <2>1 DEF Solo
  <2> QED
    BY <1>1, <2>1, <2>2
<1>4. Height(todo, t) \in Height(todo, t) - 1 + 1 .. Height(todo, t)
  BY <1>1
<1> QED
  BY <1>1, <1>2, <1>3, <1>4 DEF Somewhere

LEMMA CStopCap ==
    ASSUME NEW T, IsFiniteSet(T), NEW Q \in SUBSET T, NEW F, IsFiniteSet(F), NEW M \in Nat,
           Cap(T, Q, F, M), NEW t \in T, CStop(t)
    PROVE  Cap(T, Q, F, M)'
<1>1. PICK C : C = inside'
  OBVIOUS
<1>2. PICK O \in SUBSET T : O = T \ Q
  OBVIOUS
<1>3. PinInv(T, Q, F, M, inside) /\ SessionInv(T, M, O)
  BY <1>2 DEF Cap
<1>4. At(t, "cstop") /\ Idle /\ UNCHANGED <<session, stoping>>
  BY DEF CStop
<1>5. CASE pin = 0
  <2>1. PICK x : x = <<>>
    OBVIOUS
  <2>2. Do(t, x) /\ x \in {<<>>, <<Call("cstop")>>}
    BY <1>5, <2>1 DEF CStop, StopPin, NoPin
  <2>3. /\ phase' \in {"live", "closing", "off"} /\ (phase = "off" => phase' = "off")
        /\ (phase' = "off" => inside = {}) /\ UNCHANGED <<inside, overlap, stoping>>
    BY <1>3, <1>4 DEF SessionInv, session
  <2>4. "cstop" \in PlainOps \ {"leave", "clear"}
    BY DEF PlainOps
  <2> QED
    BY <1>4, <1>5, <2>1, <2>2, <2>3, <2>4, PlainCap
<1>6. CASE pin # 0
  <2>1. PinTypes(T, F, M) /\ Solo(todo, T)
    BY <1>3, Parts
  <2>2. /\ ~Somewhere(todo, T, {"clear"}) /\ Somewhere(todo, T, SoloOps)
        /\ \E h \in Height(todo, t) - 1 + 1 .. Height(todo, t) : Item(todo, t, h).op \in SoloOps
        /\ \A h \in Height(todo, t) - 1 + 1 .. Height(todo, t) : Item(todo, t, h).op = "cstop"
    BY <1>4, <2>1, StopsAlone
  <2>3. PICK q : q = pin
    OBVIOUS
  <2>4. q \in 1 .. M
    <3>1. pin \in 0 .. made /\ made \in 0 .. M
      BY <2>1 DEF PinTypes
    <3> QED
      BY <1>6, <2>3, <3>1
  <2>5. Owned(T, q)
    BY <2>2, <2>3 DEF Owned
  <2>6. PICK x : CallsStop(x, q)
    BY DEF CallsStop
  <2>7. Do(t, x)
    BY <1>6, <2>3, <2>6 DEF CStop, StopPin, NoPin, CallsStop
  <2>8. /\ StopCalls_(x, M, F, q)
        /\ \A i \in 1 .. Len(x) : x[i].op # "leave" /\ x[i].op \notin OpenOps
        /\ \E i \in 1 .. Len(x) : x[i].op \in StopOps
    BY <2>4, <2>6, CStopIs
  <2>9. PICK b : b = Height(todo, t) - 1
    OBVIOUS
  <2>10. Moved(T, F, M, t, b, x) /\ b < Height(todo, t)
    <3>1. todo[t] # <<>> /\ x \in Seq(Items(M, F))
      BY <1>4, <2>8 DEF At, StopCalls_
    <3> QED
      BY <2>1, <2>7, <2>9, <3>1, Doing
  <2>11. PlainOnly(todo, t, b, <<>>)
    BY <2>2, <2>9 DEF PlainOnly, HasPin, PinOps, FrameOps
  <2>12. SoloFits(todo, T, t, b, x)
    BY <2>2, <2>8, <2>9 DEF SoloFits, StopCalls_
  <2>13. BackFits(T, t, b, inside, C)
    BY <2>2 DEF BackFits, Starting
  <2>14. PinInv(T, Q, F, M, C)'
    BY <1>3, <1>4, <1>6, <2>3, <2>5, <2>8, <2>10, <2>11, <2>12, <2>13, StopStep
  <2>15. SessionFits(T, M, t, b, x)
    <3>1. t \in inside \/ phase = "off"
      <4>1. PICK h \in 1 .. Height(todo, t) : Item(todo, t, h).op = "cstop"
        <5>1. Height(todo, t) \in 1 .. Height(todo, t) /\ Item(todo, t, Height(todo, t)) = Head(todo[t])
              /\ Head(todo[t]).op = "cstop"
          BY <1>4, <2>1, AtSomewhere
        <5> QED
          BY <5>1
      <4> QED
        BY <1>3, <4>1 DEF SessionInv, SessionPlaces
    <3>2. Somewhere(todo', T, StopOps)
      BY <2>8, <2>10, GivenSomewhere
    <3>3. /\ inside' = inside /\ overlap' = overlap /\ stoping' \in [1 .. M -> BOOLEAN] /\ phase' = phase
          /\ phase' \in {"live", "closing", "off"} /\ (phase' = "off" => inside = {})
      BY <1>3, <1>4 DEF SessionInv, session
    <3>4. \A h \in b + 1 .. Height(todo, t) : Item(todo, t, h).op # "leave"
      BY <2>2, <2>9
    <3> QED
      BY <2>8, <3>1, <3>2, <3>3, <3>4 DEF SessionFits
  <2>16. SessionInv(T, M, O)'
    BY <1>3, <2>10, <2>15, SessionKept
  <2> QED
    BY <1>1, <1>2, <2>14, <2>16, CapIs
<1> QED
  BY <1>5, <1>6

\* The steps that are of no pin.
LEMMA H264StopCap ==
    ASSUME NEW T, IsFiniteSet(T), NEW Q \in SUBSET T, NEW F, NEW M \in Nat, Cap(T, Q, F, M), NEW t \in T, H264Stop(t)
    PROVE  Cap(T, Q, F, M)'
<1>1. SessionInv(T, M, T \ Q)
  BY DEF Cap
<1>2. PICK x : x = <<>>
  OBVIOUS
<1>3. x \in {<<>>, <<Call("cstop")>>} /\ Do(t, x) /\ At(t, "h264stop") /\ Idle /\ UNCHANGED <<session, stoping>>
  BY <1>2 DEF H264Stop
<1>4. phase' \in {"live", "closing", "off"} /\ (phase = "off" => phase' = "off") /\ (phase' = "off" => inside = {} /\ phase = "off")
  BY <1>1, <1>3 DEF SessionInv, session
<1>5. "h264stop" \in PlainOps \ {"leave", "clear"} /\ "h264stop" \notin StopOps
  BY DEF PlainOps, StopOps
<1> QED
  BY <1>2, <1>3, <1>4, <1>5, PlainCap DEF session

LEMMA DisconnectCap ==
    ASSUME NEW T, IsFiniteSet(T), NEW Q \in SUBSET T, NEW F, NEW M \in Nat, Cap(T, Q, F, M), NEW t \in T, Disconnect(t)
    PROVE  Cap(T, Q, F, M)'
<1>1. SessionInv(T, M, T \ Q)
  BY DEF Cap
<1>2. phase \in {"live", "closing", "off"} /\ (phase = "off" => inside = {})
  BY <1>1 DEF SessionInv
<1>3. At(t, "disconnect") /\ Idle /\ UNCHANGED <<inside, overlap, stoping>>
  BY DEF Disconnect
<1>4. "disconnect" \in PlainOps \ {"leave", "clear"} /\ "disconnect" \notin StopOps
  BY DEF PlainOps, StopOps
<1>5. CASE phase = "live" /\ LastOut
  <2>1. PICK x : x = <<Call("cstop")>>
    OBVIOUS
  <2>2. Do(t, x) /\ phase' = "off" /\ inside = {} /\ x \in {<<>>, <<Call("cstop")>>} /\ x # <<>>
    BY <1>5, <2>1 DEF Disconnect, LastOut
  <2> QED
    BY <1>3, <1>4, <1>5, <2>2, PlainCap
<1>6. CASE ~(phase = "live" /\ LastOut)
  <2>1. PICK x : x = <<>>
    OBVIOUS
  <2>2. /\ Do(t, x) /\ phase' = (IF phase = "live" THEN "closing" ELSE phase)
        /\ x \in {<<>>, <<Call("cstop")>>}
    BY <1>6, <2>1 DEF Disconnect
  <2>3. /\ phase' \in {"live", "closing", "off"} /\ (phase = "off" => phase' = "off")
        /\ (phase' = "off" => inside = {} /\ phase = "off")
    BY <1>2, <2>2
  <2> QED
    BY <1>3, <1>4, <2>1, <2>2, <2>3, PlainCap
<1> QED
  BY <1>5, <1>6

LEMMA UserStopCap ==
    ASSUME NEW T, IsFiniteSet(T), NEW Q \in SUBSET T, NEW F, NEW M \in Nat, Cap(T, Q, F, M), NEW t \in T, UserStop(t)
    PROVE  Cap(T, Q, F, M)'
<1>1. SessionInv(T, M, T \ Q) /\ PinTypes(T, F, M)
  BY Parts DEF Cap
<1>2. At(t, "stop") /\ Idle /\ UNCHANGED <<session, stoping>> /\ UNCHANGED <<phase, inside, overlap, stoping>>
  BY DEF UserStop, session
<1>3. "stop" \in OpenOps /\ "stop" \in PlainOps \ {"leave", "clear"} /\ "stop" \in {"strt", "stop", "refuse"}
  BY DEF OpenOps, SoloOps, PlainOps
<1>4. t \in inside /\ phase \in {"live", "closing"}
  BY <1>1, <1>2, <1>3, SoloAt DEF Within_
<1>5. CASE pin = 0
  <2>1. Refuse(t)
    BY <1>5 DEF UserStop, NoPin
  <2> QED
    BY <1>2, <1>3, <2>1, RefuseStep
<1>6. CASE pin # 0
  <2>1. PICK x : x = <<Call("cstop")>>
    OBVIOUS
  <2>2. Do(t, x) /\ x \in {<<>>, <<Call("cstop")>>}
    BY <1>6, <2>1 DEF UserStop, NoPin
  <2> QED
    BY <1>2, <1>3, <1>4, <2>2, PlainCap
<1> QED
  BY <1>5, <1>6

LEMMA RefusingCap ==
    ASSUME NEW T, IsFiniteSet(T), NEW Q \in SUBSET T, NEW F, NEW M \in Nat, Cap(T, Q, F, M), NEW t \in T, Refusing(t)
    PROVE  Cap(T, Q, F, M)'
<1>1. /\ At(t, "refuse") /\ Refuse(t) /\ Idle /\ UNCHANGED <<phase, inside, overlap, stoping>>
      /\ "refuse" \in {"strt", "stop", "refuse"}
  BY DEF Refusing, session
<1> QED
  BY <1>1, RefuseStep

\* A goodbye.
Parted(t) ==
    /\ todo[t] = <<>> /\ todo' = [todo EXCEPT ![t] = <<Call("disconnect")>>]
    /\ Idle /\ UNCHANGED <<phase, inside, overlap, stoping>>

LEMMA GoodbyeCap ==
    ASSUME NEW T, IsFiniteSet(T), NEW Q \in SUBSET T, NEW F, NEW M \in Nat, Cap(T, Q, F, M), NEW t \in T, Parted(t)
    PROVE  Cap(T, Q, F, M)'
<1>1. PICK C : C = inside'
  OBVIOUS
<1>2. PICK B : B = inside
  OBVIOUS
<1>3. PinInv(T, Q, F, M, B) /\ B = C /\ stoping' \in [1 .. M -> BOOLEAN]
  BY <1>1, <1>2 DEF Cap, Parted, SessionInv
<1>4. PinTypes(T, F, M)
  BY <1>3, Parts
<1>5. Call("disconnect").op = "disconnect" /\ Call("disconnect") \in Items(M, F)
  BY CallIs, CallItem DEF PlainOps
<1>6. PICK x : x = <<Call("disconnect")>>
  OBVIOUS
<1>7. x \in Seq(Items(M, F)) /\ \A i \in 1 .. Len(x) : x[i].op = "disconnect"
  <2>1. x \in Seq(Items(M, F)) /\ Len(x) = 1 /\ x[1] = Call("disconnect")
    BY <1>5, <1>6
  <2> QED
    BY <1>5, <2>1
<1>8. todo[t] = <<>> /\ todo' = [todo EXCEPT ![t] = x] /\ Idle /\ pin' = pin
  BY <1>6 DEF Parted, Idle
<1>9. PICK b : b = 0
  OBVIOUS
<1>10. Moved(T, F, M, t, b, x) /\ Height(todo, t) = 0 /\ b = Height(todo, t)
  BY <1>4, <1>7, <1>8, <1>9, Idles
<1>11. \A h \in b + 1 .. Height(todo, t) : FALSE
  BY <1>9, <1>10
<1>12. PlainOnly(todo, t, b, x)
  BY <1>7, <1>11 DEF PlainOnly, HasPin, PinOps, FrameOps
<1>13. NoClear(todo, t, b, x) /\ SoloFits(todo, T, t, b, x)
  BY <1>7, <1>11 DEF NoClear, SoloFits, SoloOps
<1>14. BackFits(T, t, b, B, C)
  <2>1. B \subseteq C /\ \A i \in 1 .. Len(x) : x[i].op \notin SoloOps
    BY <1>3, <1>7 DEF SoloOps
  <2>2. \A u, p : Starting(todo, T, B, u, p) => Starting(todo, T, C, u, p)'
    BY <1>8, <1>10, <2>1, StartingStays
  <2> QED
    BY <2>2 DEF BackFits
<1>15. PinInv(T, Q, F, M, C)'
  BY <1>3, <1>8, <1>10, <1>12, <1>13, <1>14, PlainStep
<1>16. Untouching(T, F, M, t, SessionOps)
  <2>1. Untouched(todo, t, b, x, SessionOps)
    BY <1>7, <1>11 DEF Untouched, SessionOps, SoloOps
  <2> QED
    BY <1>10, <2>1 DEF Untouching
<1> QED
  BY <1>1, <1>3, <1>8, <1>15, <1>16, CapQuiet DEF Parted

\* A read completes.
LEMMA DeliveredCap ==
    ASSUME NEW T, IsFiniteSet(T), NEW Q \in SUBSET T, NEW F, IsFiniteSet(F), NEW M \in Nat, Reads \in Nat,
           Cap(T, Q, F, M), NEW t \in Q, Delivered(t)
    PROVE  Cap(T, Q, F, M)'
<1>1. PICK C : C = inside'
  OBVIOUS
<1>2. PICK B : B = inside
  OBVIOUS
<1>3. PinInv(T, Q, F, M, B) /\ B \subseteq C /\ stoping' \in [1 .. M -> BOOLEAN] /\ Reads \in Int
  BY <1>1, <1>2 DEF Cap, Delivered, SessionInv, session
<1>4. PinTypes(T, F, M) /\ t \in T
  BY <1>3, Parts
<1>5. PinInv(T, Q, F, M, C)'
  BY <1>3, ReadDoneStep DEF Delivered
<1>6. PICK p \in 1 .. made : \E f \in posted[p] : todo' = [todo EXCEPT ![t] = Completion(p, f)] \/ todo' = [todo EXCEPT ![t] = <<With("fail", p, f)>>]
  BY DEF Delivered, ReadDone
<1>7. PICK f \in posted[p] : todo' = [todo EXCEPT ![t] = Completion(p, f)] \/ todo' = [todo EXCEPT ![t] = <<With("fail", p, f)>>]
  BY <1>6
<1>8. p \in 1 .. M /\ f \in F
  <2>1. made \in 0 .. M
    BY <1>4 DEF PinTypes
  <2>2. p \in 1 .. M
    BY <2>1
  <2> QED
    BY <1>4, <2>2 DEF PinTypes
<1>9. PICK y : FrameCalls(y, M, F, p, f) /\ todo' = [todo EXCEPT ![t] = y]
  BY <1>7, <1>8, FailedCalls, CompletionCalls
<1>10. y \in Seq(Items(M, F)) /\ \A i \in 1 .. Len(y) : y[i].op \notin SessionOps
  BY <1>9 DEF FrameCalls, SessionOps, SoloOps, HasPin, PinOps, FrameOps
<1>11. todo[t] = <<>> /\ pin' = pin
  BY DEF Delivered, ReadDone
<1>12. PICK b : b = 0
  OBVIOUS
<1>13. Moved(T, F, M, t, b, y) /\ Height(todo, t) = 0
  BY <1>4, <1>9, <1>10, <1>11, <1>12, Idles
<1>14. Untouched(todo, t, b, y, SessionOps)
  BY <1>10, <1>12, <1>13 DEF Untouched
<1>15. Untouching(T, F, M, t, SessionOps)
  BY <1>13, <1>14 DEF Untouching
<1> QED
  BY <1>1, <1>3, <1>5, <1>11, <1>15, CapQuiet DEF Delivered, session

\* CEncTcp::Start, for at most M pins with the frames F.
Starts(M, t) ==
    /\ At(t, "strt")
    /\ \/ pin # 0 /\ Do(t, <<>>) /\ Idle
       \/ pin = 0 /\ Refuse(t) /\ Idle
       \/ /\ pin = 0 /\ made < M /\ made' = made + 1 /\ refs' = [refs EXCEPT ![made + 1] = 1]
          /\ Do(t, <<On("create", made + 1)>>)
          /\ UNCHANGED <<pin, handle, users, running, free, posted, dead, lost, dry>>
    /\ UNCHANGED <<session, stoping>>

\* The pin is created, or run; when it fails OnUserData refuses.
Opens_(F, t) ==
    /\ \/ Creates(F, t, Call("refuse"))
       \/ Run(t, <<On("release", Arg(t)), Call("refuse")>>)
    /\ UNCHANGED <<session, stoping>>

\* Of a thread that opens a pin its session hears nothing but that it goes on with it.
LEMMA OpeningFits ==
    ASSUME NEW T, NEW F, NEW M \in Nat, NEW O \in SUBSET T, PinTypes(T, F, M), SessionInv(T, M, O), NEW t \in T,
           NEW op \in OpenOps, At(t, op), UNCHANGED <<session, stoping>>, NEW x \in Seq(Items(M, F)),
           \A i \in 1 .. Len(x) : /\ x[i].op \notin {"leave", "cstop", "clear"}
                                  /\ x[i].op \in OpenOps => i = Len(x),
           NEW b, b = Height(todo, t) - 1
    PROVE  SessionFits(T, M, t, b, x)
<1>1. Height(todo, t) = 2 /\ Item(todo, t, 1).op = "leave" /\ t \in inside /\ phase \in {"live", "closing"} /\ Item(todo, t, 2).op = op
  BY SoloAt DEF Within_
<1>2. b = 1 /\ \A h \in b + 1 .. Height(todo, t) : h = 2
  BY <1>1
<1>3. op # "leave"
  BY DEF OpenOps, SoloOps
<1>4. /\ inside' = inside /\ overlap' = overlap /\ stoping' \in [1 .. M -> BOOLEAN]
      /\ phase' = phase
  BY DEF SessionInv, session
<1> QED
  BY <1>1, <1>2, <1>3, <1>4 DEF SessionFits, StopOps

\* CEncTcp::Start makes a pin,
LEMMA NewPinCap ==
    ASSUME NEW T, IsFiniteSet(T), NEW Q \in SUBSET T, NEW F, IsFiniteSet(F), NEW M \in Nat, Reads \in Nat,
           Cap(T, Q, F, M), NEW t \in T, At(t, "strt"), pin = 0, NEW q, q = made + 1, q <= M,
           made' = q, refs' = [refs EXCEPT ![q] = 1], Do(t, <<On("create", q)>>),
           UNCHANGED <<pin, handle, users, running, free, posted, dead, lost, dry>>, UNCHANGED <<session, stoping>>
    PROVE  Cap(T, Q, F, M)'
<1>1. PICK C : C = inside'
  OBVIOUS
<1>2. PICK O \in SUBSET T : O = T \ Q
  OBVIOUS
<1>3. PinInv(T, Q, F, M, inside) /\ SessionInv(T, M, O) /\ PinTypes(T, F, M)
  BY <1>2, Parts DEF Cap
<1>4. q \in 1 .. M
  <2>1. made \in 0 .. M
    BY <1>3 DEF PinTypes
  <2> QED
    BY <2>1
<1>5. On("create", q).op = "create" /\ On("create", q).pin = q /\ On("create", q) \in Items(M, F)
  BY <1>4, OnIs, OnItem DEF PinOps
<1>6. PICK x : x = <<On("create", q)>>
  OBVIOUS
<1>7. x \in Seq(Items(M, F)) /\ Len(x) = 1 /\ x[1].op = "create" /\ x[1].pin = q /\ \A i \in 1 .. Len(x) : i = 1
  BY <1>5, <1>6
<1>8. PICK b : b = Height(todo, t) - 1
  OBVIOUS
<1>9. "strt" \in OpenOps
  BY DEF OpenOps, SoloOps
<1>10. Height(todo, t) = 2 /\ Item(todo, t, 2).op = "strt" /\ Somewhere(todo, T, SoloOps)
  BY <1>3, <1>9, SoloAt DEF Within_
<1>11. b = 1 /\ \A h \in b + 1 .. Height(todo, t) : h = 2
  BY <1>8, <1>10
<1>12. Moved(T, F, M, t, b, x) /\ b < Height(todo, t)
  <2>1. todo[t] # <<>> /\ Do(t, x)
    BY <1>6 DEF At
  <2> QED
    BY <1>3, <1>7, <1>8, <2>1, Doing
<1>13. PlainOnly(todo, t, b, <<>>)
  BY <1>10, <1>11 DEF PlainOnly, HasPin, PinOps, FrameOps
<1>14. MakesPin(x, q)
  BY <1>7 DEF MakesPin
<1>15. SoloFits(todo, T, t, b, x)
  <2>1. \E h \in b + 1 .. Height(todo, t) : Item(todo, t, h).op \in SoloOps
    <3>1. 2 \in b + 1 .. Height(todo, t) /\ Item(todo, t, 2).op \in SoloOps
      BY <1>9, <1>10, <1>11 DEF OpenOps
    <3> QED
      BY <3>1
  <2> QED
    BY <1>7, <2>1 DEF SoloFits
<1>16. PinInv(T, Q, F, M, C)'
  BY <1>3, <1>12, <1>13, <1>14, <1>15, NewPinStep
<1>17. SessionFits(T, M, t, b, x)
  <2>1. \A i \in 1 .. Len(x) : x[i].op \notin {"leave", "cstop", "clear"} /\ i = Len(x)
    BY <1>7
  <2> QED
    BY <1>3, <1>7, <1>8, <1>9, <2>1, OpeningFits
<1>18. SessionInv(T, M, O)'
  BY <1>3, <1>12, <1>17, SessionKept
<1> QED
  BY <1>1, <1>2, <1>16, <1>18, CapIs

\* or has one, or fails.
LEMMA StrtCap ==
    ASSUME NEW T, IsFiniteSet(T), NEW Q \in SUBSET T, NEW F, IsFiniteSet(F), NEW M \in Nat, Reads \in Nat,
           Cap(T, Q, F, M), NEW t \in T, Starts(M, t)
    PROVE  Cap(T, Q, F, M)'
<1>1. SessionInv(T, M, T \ Q) /\ PinTypes(T, F, M)
  BY Parts DEF Cap
<1>2. At(t, "strt") /\ UNCHANGED <<session, stoping>> /\ UNCHANGED <<phase, inside, overlap, stoping>>
  BY DEF Starts, session
<1>3. "strt" \in OpenOps /\ "strt" \in PlainOps \ {"leave", "clear"} /\ "strt" \in {"strt", "stop", "refuse"}
  BY DEF OpenOps, SoloOps, PlainOps
<1>4. t \in inside /\ phase \in {"live", "closing"}
  BY <1>1, <1>2, <1>3, SoloAt DEF Within_
<1>5. CASE Do(t, <<>>) /\ Idle
  <2>1. PICK x : x = <<>>
    OBVIOUS
  <2>2. Do(t, x) /\ x \in {<<>>, <<Call("cstop")>>}
    BY <1>5, <2>1
  <2> QED
    BY <1>2, <1>3, <1>4, <1>5, <2>1, <2>2, PlainCap
<1>6. CASE Refuse(t) /\ Idle
  BY <1>2, <1>3, <1>6, RefuseStep
<1>7. CASE /\ pin = 0 /\ made < M /\ made' = made + 1 /\ refs' = [refs EXCEPT ![made + 1] = 1]
           /\ Do(t, <<On("create", made + 1)>>)
           /\ UNCHANGED <<pin, handle, users, running, free, posted, dead, lost, dry>>
  <2>1. PICK q : q = made + 1
    OBVIOUS
  <2>2. made \in 0 .. M
    BY <1>1 DEF PinTypes
  <2>3. q <= M
    BY <1>7, <2>1, <2>2
  <2> QED
    BY <1>2, <1>7, <2>1, <2>3, NewPinCap
<1> QED
  BY <1>5, <1>6, <1>7 DEF Starts

\* What a thread that opens a pin calls next,
LEMMA OpenCallsAre ==
    ASSUME NEW M, NEW F, NEW q \in 1 .. M,
           NEW x, \/ x = <<On("run", q)>> \/ x = <<Call("refuse")>>
                  \/ x = <<On("release", q), Call("refuse")>>
    PROVE  /\ x \in Seq(Items(M, F))
           /\ \A i \in 1 .. Len(x) : /\ x[i].op \notin {"leave", "cstop", "clear"}
                                     /\ x[i].op \in OpenOps => i = Len(x)
<1>1. /\ On("run", q).op = "run" /\ On("release", q).op = "release" /\ Call("refuse").op = "refuse"
      /\ On("run", q) \in Items(M, F) /\ On("release", q) \in Items(M, F) /\ Call("refuse") \in Items(M, F)
  BY CallIs, CallItem, OnIs, OnItem DEF PlainOps, PinOps
<1>2. "release" \notin OpenOps
  BY DEF OpenOps, SoloOps
<1>3. CASE x = <<On("run", q)>>
  <2>1. x \in Seq(Items(M, F)) /\ Len(x) = 1 /\ x[1].op = "run"
    BY <1>1, <1>3
  <2> QED
    BY <2>1
<1>4. CASE x = <<Call("refuse")>>
  <2>1. x \in Seq(Items(M, F)) /\ Len(x) = 1 /\ x[1].op = "refuse"
    BY <1>1, <1>4
  <2> QED
    BY <2>1
<1>5. CASE x = <<On("release", q), Call("refuse")>>
  <2>1. x \in Seq(Items(M, F)) /\ Len(x) = 2 /\ x[1].op = "release" /\ x[2].op = "refuse"
    BY <1>1, <1>5
  <2> QED
    BY <1>2, <2>1
<1> QED
  BY <1>3, <1>4, <1>5

\* and the reads that it starts.
LEMMA ReadCallsAre ==
    ASSUME NEW M, NEW F, NEW q \in 1 .. M, Reads \in Nat, NEW x, x = [i \in 1 .. Posts |-> On("read", q)]
    PROVE  /\ x \in Seq(Items(M, F))
           /\ \A i \in 1 .. Len(x) : /\ x[i].op \notin {"leave", "cstop", "clear"}
                                     /\ x[i].op \in OpenOps => i = Len(x)
<1>1. x \in Seq(Items(M, F)) /\ \A i \in 1 .. Len(x) : x[i] = On("read", q)
  BY ReadsGiven DEF ForReads
<1>2. On("read", q).op = "read" /\ "read" \notin OpenOps
  BY OnIs DEF OpenOps, SoloOps
<1> QED
  BY <1>1, <1>2

LEMMA OpeningCap ==
    ASSUME NEW T, IsFiniteSet(T), NEW Q \in SUBSET T, NEW F, NEW M \in Nat, Reads \in Nat,
           Cap(T, Q, F, M), NEW t \in T, Opens_(F, t)
    PROVE  Cap(T, Q, F, M)'
<1>1. PICK C : C = inside'
  OBVIOUS
<1>2. PICK B : B = inside
  OBVIOUS
<1>3. PICK O \in SUBSET T : O = T \ Q
  OBVIOUS
<1>4. PinInv(T, Q, F, M, B) /\ SessionInv(T, M, O) /\ B = C
  BY <1>1, <1>2, <1>3 DEF Cap, Opens_, session
<1>5. PinTypes(T, F, M)
  BY <1>4, Parts
<1>6. PICK op \in {"create", "run"} : At(t, op)
  BY DEF Opens_, Creates, Run
<1>7. op \in OpenOps /\ op \in HasPin
  BY DEF OpenOps, SoloOps, HasPin, PinOps
<1>8. t \in C /\ phase \in {"live", "closing"}
  BY <1>2, <1>4, <1>5, <1>6, <1>7, SoloAt DEF Within_
<1>9. PICK q : q = Arg(t)
  OBVIOUS
<1>10. q \in 1 .. M
  BY <1>4, <1>6, <1>7, <1>9, AtCall
<1>11. Call("refuse") \in Items(M, F) /\ Call("refuse").op \in PlainOps \ {"clear"}
  BY CallItem, CallIs DEF PlainOps
<1>12. PinInv(T, Q, F, M, C)'
  <2>1. CASE Creates(F, t, Call("refuse"))
    <3>1. PICK e : e = Call("refuse")
      OBVIOUS
    <3> QED
      BY <1>4, <1>11, <2>1, <3>1, CreateStep
  <2>2. CASE Run(t, <<On("release", Arg(t)), Call("refuse")>>)
    <3>1. PICK e : e = Call("refuse")
      OBVIOUS
    <3>2. e \in Items(M, F) /\ e.op \in PlainOps \ {"clear"} /\ Run(t, <<On("release", Arg(t)), e>>)
      BY <1>11, <2>2, <3>1
    <3> QED
      BY <1>4, <1>8, <3>2, RunStep
  <2> QED
    BY <2>1, <2>2 DEF Opens_
<1>13. PICK x : /\ Do(t, x)
                /\ \/ x = <<On("run", q)>> \/ x = <<Call("refuse")>>
                   \/ x = <<On("release", q), Call("refuse")>>
                   \/ x = [i \in 1 .. Posts |-> On("read", q)]
  BY <1>9 DEF Opens_, Creates, Run
<1>14. /\ x \in Seq(Items(M, F))
       /\ \A i \in 1 .. Len(x) : /\ x[i].op \notin {"leave", "cstop", "clear"}
                                 /\ x[i].op \in OpenOps => i = Len(x)
  <2>1. CASE x = [i \in 1 .. Posts |-> On("read", q)]
    BY <1>10, <2>1, ReadCallsAre
  <2>2. CASE \/ x = <<On("run", q)>> \/ x = <<Call("refuse")>>
             \/ x = <<On("release", q), Call("refuse")>>
    BY <1>10, <2>2, OpenCallsAre
  <2> QED
    BY <1>13, <2>1, <2>2
<1>15. PICK b : b = Height(todo, t) - 1
  OBVIOUS
<1>16. Moved(T, F, M, t, b, x) /\ b < Height(todo, t)
  <2>1. todo[t] # <<>>
    BY <1>6 DEF At
  <2> QED
    BY <1>5, <1>13, <1>14, <1>15, <2>1, Doing
<1>17. SessionFits(T, M, t, b, x)
  <2>1. UNCHANGED <<session, stoping>>
    BY DEF Opens_
  <2> QED
    BY <1>4, <1>5, <1>6, <1>7, <1>14, <1>15, <2>1, OpeningFits
<1>18. SessionInv(T, M, O)'
  BY <1>4, <1>16, <1>17, SessionKept
<1> QED
  BY <1>1, <1>3, <1>12, <1>18, CapIs

-----------------------------------------------------------------------------
\* What the invariant says of the properties.
LEMMA Fields ==
    ASSUME NEW M, NEW F, NEW c \in Items(M, F)
    PROVE  /\ "pin" \in DOMAIN c <=> c.op \in HasPin
           /\ "frame" \in DOMAIN c <=> c.op \in FrameOps
<1>1. CASE c \in [op : PlainOps]
  BY <1>1 DEF PlainOps, HasPin, PinOps, FrameOps
<1>2. CASE c \in [op : PinOps, pin : 1 .. M]
  BY <1>2 DEF HasPin, PinOps, FrameOps
<1>3. CASE c \in [op : FrameOps, pin : 1 .. M, frame : F]
  BY <1>3 DEF HasPin, FrameOps
<1>4. CASE c \in [op : PicOps, pic : 1 .. M]
  BY <1>4 DEF PicOps, HasPin, PinOps, FrameOps
<1> QED
  BY <1>1, <1>2, <1>3, <1>4 DEF Items

\* The places of a stack, counted from its other end.
LEMMA Indices ==
    ASSUME NEW T, NEW F, NEW M, PinTypes(T, F, M), NEW t \in T
    PROVE  /\ \A i \in DOMAIN todo[t] : /\ Height(todo, t) + 1 - i \in 1 .. Height(todo, t)
                                        /\ Item(todo, t, Height(todo, t) + 1 - i) = todo[t][i]
           /\ \A h \in 1 .. Height(todo, t) : /\ Height(todo, t) + 1 - h \in DOMAIN todo[t]
                                              /\ todo[t][Height(todo, t) + 1 - h] = Item(todo, t, h)
<1>1. todo[t] \in Seq(Items(M, F))
  BY DEF PinTypes
<1>2. PICK n \in Nat : n = Len(todo[t]) /\ DOMAIN todo[t] = 1 .. n
  BY <1>1
<1> QED
  BY <1>1, <1>2 DEF Height, Item

\* A thread has the frames that its calls hold.
LEMMA HandIs ==
    ASSUME NEW T, NEW Q, NEW F, NEW M \in Nat, NEW B, PinInv(T, Q, F, M, B), NEW t \in T, NEW p, NEW f
    PROVE  f \in InHand(t, p) <=>
             \E h \in 1 .. Height(todo, t) : /\ Item(todo, t, h).op \in HoldOps
                                             /\ Item(todo, t, h).pin = p /\ Item(todo, t, h).frame = f
<1>1. PinTypes(T, F, M) /\ Filled(todo, T, Q)
  BY Parts
<1>2. \A h \in 1 .. Height(todo, t) : Item(todo, t, h) \in Items(M, F)
  BY <1>1, HeightIsNat DEF PinTypes
<1>3. Height(todo, t) \in Nat
  BY <1>1, HeightIsNat DEF PinTypes
<1>4. ASSUME f \in InHand(t, p)
      PROVE  \E h \in 1 .. Height(todo, t) : /\ Item(todo, t, h).op \in HoldOps
                                             /\ Item(todo, t, h).pin = p /\ Item(todo, t, h).frame = f
  <2>1. PICK i \in DOMAIN todo[t] : /\ "pin" \in DOMAIN todo[t][i] /\ todo[t][i].pin = p
                                    /\ "frame" \in DOMAIN todo[t][i] /\ todo[t][i].frame = f
    BY <1>4 DEF InHand, Pending
  <2>2. PICK h \in 1 .. Height(todo, t) : Item(todo, t, h) = todo[t][i]
    BY <1>1, Indices
  <2>3. Item(todo, t, h).op \in FrameOps /\ Item(todo, t, h).pin = p /\ Item(todo, t, h).frame = f
    BY <1>2, <2>1, <2>2, Fields
  <2>4. CASE Item(todo, t, h).op = "process"
    <3>1. h = 3 /\ Item(todo, t, 2).op = "push" /\ Item(todo, t, 2).pin = p /\ Item(todo, t, 2).frame = f
      BY <1>1, <2>3, <2>4 DEF Filled
    <3>2. 2 \in 1 .. Height(todo, t) /\ "push" \in HoldOps
      BY <1>3, <3>1 DEF HoldOps
    <3> QED
      BY <3>1, <3>2
  <2>5. CASE Item(todo, t, h).op # "process"
    BY <2>3, <2>5 DEF FrameOps, HoldOps
  <2> QED
    BY <2>4, <2>5
<1>5. ASSUME NEW h \in 1 .. Height(todo, t), Item(todo, t, h).op \in HoldOps,
             Item(todo, t, h).pin = p, Item(todo, t, h).frame = f
      PROVE  f \in InHand(t, p)
  <2>1. PICK i \in DOMAIN todo[t] : todo[t][i] = Item(todo, t, h)
    BY <1>1, Indices
  <2>2. "pin" \in DOMAIN todo[t][i] /\ "frame" \in DOMAIN todo[t][i]
    BY <1>2, <1>5, <2>1, Fields DEF HoldOps, HasPin, FrameOps
  <2>3. i \in Pending(t, p)
    BY <1>5, <2>1, <2>2 DEF Pending
  <2> QED
    BY <1>5, <2>1, <2>2, <2>3 DEF InHand
<1> QED
  BY <1>4, <1>5

\* No frame is in two places, and none is nowhere.
Apart(T, F, p, hand, held) ==
    /\ free[p] \cap posted[p] = {} /\ held \cap (free[p] \cup posted[p]) = {}
    /\ \A t, u \in T : t # u => hand[t] \cap hand[u] = {}
    /\ free[p] \cup posted[p] \cup held = F
HandsOf(T, p) == [t \in T |-> InHand(t, p)]
OnePlace(T, F) == \A p \in 1 .. made : handle[p] # "none" =>
    Apart(T, F, p, HandsOf(T, p), UNION {HandsOf(T, p)[t] : t \in T})

\* The accounts of the frames say so.
LEMMA FramesInPlace ==
    ASSUME NEW T, IsFiniteSet(T), NEW Q, NEW F, NEW M \in Nat, NEW B, PinInv(T, Q, F, M, B)
    PROVE  OnePlace(T, F)
<1>1. PinTypes(T, F, M)
  BY Parts
<1>2. SUFFICES ASSUME NEW p \in 1 .. made, handle[p] # "none"
               PROVE  Apart(T, F, p, HandsOf(T, p), UNION {HandsOf(T, p)[t] : t \in T})
  BY DEF OnePlace
<1>15. PICK hand : hand = HandsOf(T, p)
  OBVIOUS
<1>16. PICK held : held = UNION {hand[t] : t \in T}
  OBVIOUS
<1>3. p \in 1 .. M
  <2>1. made \in 0 .. M
    BY <1>1 DEF PinTypes
  <2> QED
    BY <2>1
<1>4. free[p] \in SUBSET F /\ posted[p] \in SUBSET F /\ todo \in [T -> Seq(Items(M, F))]
  BY <1>1, <1>3 DEF PinTypes
<1>5. \A f \in F : FrameBook(T, F, M, p, f)
  BY <1>3, Parts DEF Books
<1>6. \A f \in F : Number(todo, T, HoldsOf(Items(M, F), p, f)) \in Nat
  BY <1>4, PlacesFinite
<1>7. \A f \in F : Number(todo, T, HoldsOf(Items(M, F), p, f)) + One(f \in free[p]) + One(f \in posted[p]) = 1
  BY <1>2, <1>5, OneIs DEF FrameBook
<1>8. \A t \in T : \A h \in 1 .. Height(todo, t) : Item(todo, t, h) \in Items(M, F)
  BY <1>4, HeightIsNat
<1>9. \A t \in T : \A f : f \in hand[t] <=>
             \E h \in 1 .. Height(todo, t) : /\ Item(todo, t, h).op \in HoldOps
                                             /\ Item(todo, t, h).pin = p /\ Item(todo, t, h).frame = f
  BY <1>15, HandIs DEF HandsOf
<1>10. free[p] \cap posted[p] = {}
  <2>1. SUFFICES ASSUME NEW f \in F, f \in free[p], f \in posted[p] PROVE FALSE
    BY <1>4
  <2>2. One(f \in free[p]) = 1 /\ One(f \in posted[p]) = 1
    BY <2>1, OneIs
  <2> QED
    BY <1>6, <1>7, <2>1, <2>2
<1>11. ASSUME NEW t \in T, NEW f \in hand[t]
       PROVE  f \in F /\ f \notin free[p] /\ f \notin posted[p]
              /\ \E h \in 1 .. Height(todo, t) : Item(todo, t, h) \in HoldsOf(Items(M, F), p, f)
  <2>1. PICK h \in 1 .. Height(todo, t) : /\ Item(todo, t, h).op \in HoldOps
                                          /\ Item(todo, t, h).pin = p /\ Item(todo, t, h).frame = f
    BY <1>9, <1>11
  <2>2. f \in F
    BY <1>8, <2>1, Kinds_ DEF HoldOps, FrameOps
  <2>3. f \notin free[p] /\ f \notin posted[p]
    BY <1>1, <1>5, <2>1, <2>2, Held
  <2> QED
    BY <1>8, <2>1, <2>2, <2>3 DEF HoldsOf
<1>12. held \cap (free[p] \cup posted[p]) = {} /\ held \subseteq F
  BY <1>11, <1>16
<1>13. ASSUME NEW t \in T, NEW u \in T, t # u PROVE hand[t] \cap hand[u] = {}
  <2>1. SUFFICES ASSUME NEW f, f \in hand[t], f \in hand[u] PROVE FALSE
    OBVIOUS
  <2>2. PICK K : K = HoldsOf(Items(M, F), p, f)
    OBVIOUS
  <2>3. f \in F /\ \E h \in 1 .. Height(todo, t) : Item(todo, t, h) \in K
    BY <1>11, <2>1, <2>2
  <2>4. \E h \in 1 .. Height(todo, u) : Item(todo, u, h) \in K
    BY <1>11, <2>1, <2>2
  <2>5. Number(todo, T, K) > 1
    BY <1>4, <1>13, <2>3, <2>4, TwoPlaces
  <2>6. PICK a, b, c : /\ a = Number(todo, T, K) /\ b = One(f \in free[p]) /\ c = One(f \in posted[p])
    OBVIOUS
  <2>7. a \in Nat /\ a > 1 /\ b \in {0, 1} /\ c \in {0, 1} /\ a + b + c = 1
    <3>1. Number(todo, T, HoldsOf(Items(M, F), p, f)) + One(f \in free[p]) + One(f \in posted[p]) = 1
      BY <1>7, <2>3
    <3>2. a + b + c = 1
      BY <2>2, <2>6, <3>1
    <3>3. b \in {0, 1} /\ c \in {0, 1}
      BY <2>6 DEF One
    <3>4. a \in Nat /\ a > 1
      BY <1>6, <2>2, <2>3, <2>5, <2>6
    <3> QED
      BY <3>2, <3>3, <3>4
  <2> QED
    BY <2>7
<1>14. F \subseteq free[p] \cup posted[p] \cup held
  <2>1. SUFFICES ASSUME NEW f \in F, f \notin free[p], f \notin posted[p] PROVE f \in held
    OBVIOUS
  <2>2. PICK K : K = HoldsOf(Items(M, F), p, f)
    OBVIOUS
  <2>3. One(f \in free[p]) = 0 /\ One(f \in posted[p]) = 0
    BY <2>1 DEF One
  <2>4. Number(todo, T, K) > 0
    BY <1>6, <1>7, <2>2, <2>3
  <2>5. PICK t \in T : \E h \in 1 .. Height(todo, t) : Item(todo, t, h) \in K
    BY <1>4, <2>4, SomePlace
  <2>6. f \in hand[t]
    BY <1>9, <2>2, <2>5 DEF HoldsOf
  <2> QED
    BY <1>16, <2>6
<1>17. Apart(T, F, p, hand, held)
  BY <1>4, <1>10, <1>12, <1>13, <1>14 DEF Apart
<1> QED
  BY <1>15, <1>16, <1>17

\* A dead pin has no read pending, no owner, and no call but those that finish its closing.
Outlives(T) == \A p \in dead :
    /\ posted[p] = {}
    /\ pin = p => \E t \in T : \E i \in DOMAIN todo[t] : todo[t][i].op = "clear"
    /\ \A t \in T : \A i \in Pending(t, p) : todo[t][i].op \in {"close", "unlock"}

\* The accounts of the references say so.
LEMMA PinsOutlive ==
    ASSUME NEW T, IsFiniteSet(T), NEW Q, NEW F, IsFiniteSet(F), NEW M \in Nat, NEW B, PinInv(T, Q, F, M, B)
    PROVE  Outlives(T)
<1>1. PinTypes(T, F, M)
  BY Parts
<1>2. SUFFICES ASSUME NEW p \in dead
               PROVE  /\ posted[p] = {}
                      /\ pin = p => \E t \in T : \E i \in DOMAIN todo[t] : todo[t][i].op = "clear"
                      /\ \A t \in T : \A i \in Pending(t, p) : todo[t][i].op \in {"close", "unlock"}
  BY DEF Outlives
<1>3. p \in 1 .. M
  <2>1. made \in 0 .. M /\ p \in 1 .. made
    BY <1>1, <1>2 DEF PinTypes
  <2> QED
    BY <2>1
<1>4. PinBook(T, F, M, p)
  BY <1>3, Parts DEF Books
<1>5. posted[p] \in SUBSET F /\ todo \in [T -> Seq(Items(M, F))]
  BY <1>1, <1>3 DEF PinTypes
<1>6. PICK a, b, c : /\ a = Cardinality(posted[p]) /\ b = Number(todo, T, RefsOf(Items(M, F), p))
                     /\ c = One(p \in lost \/ Owned(T, p))
  OBVIOUS
<1>7. a + b + c = 0 /\ a \in Nat /\ b \in Nat /\ c \in {0, 1}
  <2>1. refs[p] = 0 /\ refs[p] = a + b + c
    BY <1>2, <1>4, <1>6 DEF PinBook
  <2>2. a \in Nat /\ b \in Nat
    BY <1>5, <1>6, CardNat, PlacesFinite
  <2>3. c \in {0, 1}
    BY <1>6 DEF One
  <2> QED
    BY <2>1, <2>2, <2>3
<1>8. a = 0 /\ c = 0
  BY <1>7
<1>9. posted[p] = {}
  <2>1. IsFiniteSet(posted[p])
    BY <1>5, FS_Subset
  <2> QED
    BY <1>6, <1>8, <2>1, FS_EmptySet
<1>10. ASSUME pin = p PROVE \E t \in T : \E i \in DOMAIN todo[t] : todo[t][i].op = "clear"
  <2>1. ~Owned(T, p)
    BY <1>6, <1>8 DEF One
  <2>2. PICK t \in T : \E h \in 1 .. Height(todo, t) : Item(todo, t, h).op = "clear"
    BY <1>10, <2>1 DEF Owned, Somewhere
  <2> QED
    BY <1>1, <2>2, Indices
<1>11. ASSUME NEW t \in T, NEW i \in Pending(t, p) PROVE todo[t][i].op \in {"close", "unlock"}
  <2>1. i \in DOMAIN todo[t] /\ "pin" \in DOMAIN todo[t][i] /\ todo[t][i].pin = p
    BY <1>11 DEF Pending
  <2>2. PICK h \in 1 .. Height(todo, t) : Item(todo, t, h) = todo[t][i]
    BY <1>1, <2>1, Indices
  <2>3. Item(todo, t, h) \in Items(M, F)
    BY <1>5, HeightIsNat
  <2>4. Item(todo, t, h).op \in HasPin /\ Item(todo, t, h).pin = p
    BY <2>1, <2>2, <2>3, Fields
  <2>5. Item(todo, t, h).op \notin NeedOps \cup RefOps
    BY <1>2, <1>3, <2>4, Lives
  <2> QED
    BY <2>2, <2>4, <2>5 DEF HasPin, PinOps, FrameOps, NeedOps, RefOps
<1> QED
  BY <1>9, <1>10, <1>11

\* When nobody has anything to do.
LEMMA OffWhenIdle ==
    ASSUME NEW T, NEW Q, NEW F, NEW M \in Nat, NEW B, PinInv(T, Q, F, M, B),
           \A t \in T : todo[t] = <<>>, pin = 0
    PROVE  \A p \in 1 .. made : ~running[p] /\ handle[p] \in {"none", "closed"}
<1>1. PinTypes(T, F, M) /\ Locked(todo, T, M)
  BY Parts
<1>2. SUFFICES ASSUME NEW p \in 1 .. made PROVE ~running[p] /\ handle[p] \in {"none", "closed"}
  OBVIOUS
<1>3. p \in 1 .. M /\ p # 0
  <2>1. made \in 0 .. M
    BY <1>1 DEF PinTypes
  <2> QED
    BY <2>1
<1>4. \A t \in T : Height(todo, t) = 0
  BY DEF Height
<1>5. \A t \in T : \A h \in 1 .. Height(todo, t) : FALSE
  BY <1>4
<1>6. users[p] = {} /\ ~OnPin(todo, T, {"run", "close", "pinstop"}, p) /\ ~Releasing(T, p)
  <2>1. \A t \in T : ~OnPin(todo, {t}, {"unlock"}, p)
    BY <1>5 DEF OnPin
  <2>2. users[p] = {}
    BY <1>1, <1>3, <2>1 DEF Locked
  <2>3. ~OnPin(todo, T, {"run", "close", "pinstop"}, p)
    BY <1>5 DEF OnPin
  <2>4. ~Releasing(T, p)
    BY <1>4 DEF Releasing
  <2> QED
    BY <2>2, <2>3, <2>4
<1>7. ~WillClose(T, p)
  BY <1>3, <1>6 DEF WillClose, Owned
<1>8. HandleIs(T, p)
  BY <1>3, Parts
<1>9. handle[p] \in {"none", "open", "closing", "closed"}
  BY <1>1, <1>3 DEF PinTypes
<1> QED
  BY <1>6, <1>7, <1>8, <1>9 DEF HandleIs

\* After the session, and with nothing left to do, no pin runs and every handle is closed.
Off(T) == phase = "off" /\ (\A t \in T : todo[t] = <<>>) =>
    /\ pin = 0
    /\ \A p \in 1 .. made : ~running[p] /\ handle[p] \in {"none", "closed"}

\* The four properties of Capture, of threads T and frames F.
Safe(T, Q, F) == OnePlace(T, F) /\ Outlives(T) /\ Spare(Q, F) /\ Off(T)

\* The invariant implies them.
LEMMA CapSafe ==
    ASSUME NEW T, IsFiniteSet(T), NEW Q, NEW F, IsFiniteSet(F), NEW M \in Nat, Cap(T, Q, F, M)
    PROVE  Safe(T, Q, F)
<1>1. PICK B : B = inside
  OBVIOUS
<1>2. PinInv(T, Q, F, M, B) /\ SessionInv(T, M, T \ Q)
  BY <1>1 DEF Cap
<1>3. OnePlace(T, F) /\ Outlives(T) /\ Spare(Q, F)
  BY <1>2, FramesInPlace, PinsOutlive, Parts
<1>4. ASSUME phase = "off", \A t \in T : todo[t] = <<>>
      PROVE  pin = 0 /\ \A p \in 1 .. made : ~running[p] /\ handle[p] \in {"none", "closed"}
  <2>1. ~Somewhere(todo, T, {"cstop", "clear"})
    <3>1. \A t \in T : \A h \in 1 .. Height(todo, t) : FALSE
      BY <1>4 DEF Height
    <3> QED
      BY <3>1 DEF Somewhere
  <2>2. pin = 0
    BY <1>2, <1>4, <2>1 DEF SessionInv
  <2> QED
    BY <1>2, <1>4, <2>2, OffWhenIdle
<1> QED
  BY <1>3, <1>4 DEF Safe, Off

\* Two receives at once: nothing of a pin is changed, and the behaviour ends.
LEMMA MessageSafe ==
    ASSUME NEW T, NEW Q, NEW F, Safe(T, Q, F), NEW E, todo \in [T -> Seq(E)], NEW t \in T, Messaged(t)
    PROVE  Safe(T, Q, F)'
<1>1. PICK e \in {"strt", "stop"} : todo' = [todo EXCEPT ![t] = <<Call(e), Call("leave")>>]
  BY DEF Messaged
<1>2. todo[t] = <<>> /\ Idle /\ phase' = phase /\ phase = "live"
  BY DEF Messaged
<1>3. PICK x : x = <<Call(e), Call("leave")>>
  OBVIOUS
<1>4. \A i \in DOMAIN x : "pin" \notin DOMAIN x[i]
  <2>1. "pin" \notin DOMAIN Call(e) /\ "pin" \notin DOMAIN Call("leave")
    BY DEF Call
  <2> QED
    BY <1>3, <2>1
<1>5. todo'[t] = x /\ \A u \in T : u # t => todo'[u] = todo[u]
  BY <1>1, <1>3
<1>6. \A p : Pending(t, p) = {} /\ Pending(t, p)' = {}
  <2>1. \A p : Pending(t, p) = {}
    BY <1>2 DEF Pending
  <2>2. \A p : Pending(t, p)' = {}
    BY <1>4, <1>5 DEF Pending
  <2> QED
    BY <2>1, <2>2
<1>7. \A u \in T : \A p : Pending(u, p)' = Pending(u, p) /\ InHand(u, p)' = InHand(u, p)
  <2>1. ASSUME NEW u \in T, NEW p PROVE Pending(u, p)' = Pending(u, p) /\ InHand(u, p)' = InHand(u, p)
    <3>1. CASE u = t
      <4>1. Pending(t, p) = {} /\ Pending(t, p)' = {}
        BY <1>6
      <4>2. InHand(t, p) = {}
        BY <4>1 DEF InHand
      <4>3. InHand(t, p)' = {}
        BY <4>1 DEF InHand
      <4> QED
        BY <3>1, <4>1, <4>2, <4>3
    <3>2. CASE u # t
      <4>1. todo'[u] = todo[u]
        BY <1>5, <3>2
      <4> QED
        BY <4>1 DEF InHand, Pending
    <3> QED
      BY <3>1, <3>2
  <2> QED
    BY <2>1
<1>8. OnePlace(T, F)'
  <2>1. \A p : HandsOf(T, p)' = HandsOf(T, p)
    BY <1>7 DEF HandsOf
  <2> QED
    BY <1>2, <2>1 DEF Safe, OnePlace, Apart, Idle
<1>9. Outlives(T)'
  <2>1. SUFFICES ASSUME NEW p \in dead
                 PROVE  /\ posted[p] = {}
                        /\ pin = p => \E u \in T : \E i \in DOMAIN todo'[u] : todo'[u][i].op = "clear"
                        /\ \A u \in T : \A i \in Pending(u, p)' : todo'[u][i].op \in {"close", "unlock"}
    BY <1>2 DEF Outlives, Idle
  <2>2. /\ posted[p] = {}
        /\ pin = p => \E u \in T : \E i \in DOMAIN todo[u] : todo[u][i].op = "clear"
        /\ \A u \in T : \A i \in Pending(u, p) : todo[u][i].op \in {"close", "unlock"}
    BY DEF Safe, Outlives
  <2>3. \A u \in T : DOMAIN todo[u] # {} => u # t
    BY <1>2
  <2>4. pin = p => \E u \in T : \E i \in DOMAIN todo'[u] : todo'[u][i].op = "clear"
    BY <1>5, <2>2, <2>3
  <2>5. ASSUME NEW u \in T, NEW i \in Pending(u, p)' PROVE todo'[u][i].op \in {"close", "unlock"}
    <3>1. i \in Pending(u, p) /\ u # t
      BY <1>6, <1>7, <2>5
    <3> QED
      BY <1>5, <2>2, <3>1
  <2> QED
    BY <2>2, <2>4, <2>5
<1>10. Spare(Q, F)' /\ Off(T)'
  BY <1>2 DEF Safe, Spare, Off, Idle
<1> QED
  BY <1>8, <1>9, <1>10 DEF Safe

-----------------------------------------------------------------------------
\* Capture, for threads T of which Q are the pool's, with the frames F and M pins.
CapStep(F, M, t) ==
    \/ ReadStep(t) \/ Process(t) \/ PinStop(t) \/ H264Stop(t) \/ Disconnect(t) \/ CStop(t)
    \/ Starts(M, t) \/ Opens_(F, t) \/ Refusing(t) \/ UserStop(t) \/ Leave(t)
CapNext(T, Q, F, M) ==
    /\ ~overlap
    /\ \/ \E t \in T \ Q : Messaged(t) \/ Parted(t)
       \/ \E t \in Q : Delivered(t)
       \/ \E t \in T : CapStep(F, M, t)
Camera == <<todo, pin, made, handle, users, refs, running, free, posted, dead, lost, dry,
            phase, inside, overlap, stoping>>
CapInv(T, Q, F, M) ==
    /\ overlap = FALSE => Cap(T, Q, F, M)
    /\ overlap # FALSE => Safe(T, Q, F)

\* Each step keeps the invariant,
LEMMA CapStepKeeps ==
    ASSUME NEW T, IsFiniteSet(T), NEW Q \in SUBSET T, NEW F, IsFiniteSet(F), NEW M \in Nat, Reads \in Nat,
           Cap(T, Q, F, M), NEW t \in T, CapStep(F, M, t)
    PROVE  Cap(T, Q, F, M)'
BY ReadStepCap, ProcessCap, PinStopCap, H264StopCap, DisconnectCap, CStopCap, StrtCap, OpeningCap, RefusingCap,
   UserStopCap, LeaveStep DEF CapStep

\* and so does Next.
LEMMA CapKeeps ==
    ASSUME NEW T, IsFiniteSet(T), NEW Q \in SUBSET T, NEW F, IsFiniteSet(F), NEW M \in Nat, Reads \in Nat,
           CapInv(T, Q, F, M), CapNext(T, Q, F, M)
    PROVE  CapInv(T, Q, F, M)'
<1>1. overlap = FALSE /\ Cap(T, Q, F, M)
  BY DEF CapNext, CapInv
<1>2. ASSUME Cap(T, Q, F, M)' PROVE CapInv(T, Q, F, M)'
  <2>1. overlap' = FALSE
    BY <1>2 DEF Cap, SessionInv
  <2> QED
    BY <1>2, <2>1 DEF CapInv
<1>3. ASSUME NEW t \in T \ Q, Messaged(t) PROVE CapInv(T, Q, F, M)'
  <2>1. CASE Cap(T, Q, F, M)'
    BY <1>2, <2>1
  <2>2. CASE ~Cap(T, Q, F, M)'
    <3>1. overlap' # FALSE
      BY <1>1, <1>3, <2>2, MessageStep
    <3>2. Safe(T, Q, F)
      BY <1>1, CapSafe
    <3>3. todo \in [T -> Seq(Items(M, F))]
      BY <1>1, Parts DEF Cap, PinTypes
    <3>4. Safe(T, Q, F)'
      BY <1>3, <3>2, <3>3, MessageSafe
    <3> QED
      BY <3>1, <3>4 DEF CapInv
  <2> QED
    BY <2>1, <2>2
<1>4. ASSUME NEW t \in T \ Q, Parted(t) PROVE CapInv(T, Q, F, M)'
  BY <1>1, <1>2, <1>4, GoodbyeCap
<1>5. ASSUME NEW t \in Q, Delivered(t) PROVE CapInv(T, Q, F, M)'
  BY <1>1, <1>2, <1>5, DeliveredCap
<1>6. ASSUME NEW t \in T, CapStep(F, M, t) PROVE CapInv(T, Q, F, M)'
  BY <1>1, <1>2, <1>6, CapStepKeeps
<1> QED
  BY <1>3, <1>4, <1>5, <1>6 DEF CapNext

\* A step that changes nothing of this.
PinCamera == <<todo, pin, made, handle, users, refs, running, free, posted, dead, lost, dry>>

LEMMA PinStays ==
    ASSUME NEW T, NEW Q, NEW F, NEW M, NEW B, PinInv(T, Q, F, M, B), UNCHANGED PinCamera
    PROVE  PinInv(T, Q, F, M, B)'
<1>1. /\ todo' = todo /\ pin' = pin /\ made' = made /\ handle' = handle /\ users' = users /\ refs' = refs
      /\ running' = running /\ free' = free /\ posted' = posted /\ dead' = dead /\ lost' = lost /\ dry' = dry
  BY DEF PinCamera
<1>2. \A p : Owned(T, p)' <=> Owned(T, p)
  BY <1>1 DEF Owned
<1>3. PinTypes(T, F, M)'
  BY <1>1, Parts DEF PinTypes
<1>4. PinBooks(T, F, M)'
  BY <1>1, <1>2 DEF PinInv, PinBooks, PinBook
<1>5. FrameBooks(T, F, M)' /\ ReadBooks(T, F, M)'
  BY <1>1 DEF PinInv, FrameBooks, FrameBook, ReadBooks, ReadBook
<1>6. Known(todo, T)' /\ Filled(todo, T, Q)'
  BY <1>1, Parts DEF Known, Filled
<1>7. Backed(todo, T, B)'
  <2>1. \A t, p : Starting(todo, T, B, t, p)' <=> Starting(todo, T, B, t, p)
    BY <1>1 DEF Starting
  <2> QED
    BY <1>1, <2>1, Parts DEF Backed
<1>8. LockPlaces(todo, T)' /\ Locked(todo, T, M)'
  BY <1>1, Parts DEF LockPlaces, Locked
<1>9. Handles(T, M)'
  <2>1. \A p : Releasing(T, p)' <=> Releasing(T, p)
    BY <1>1 DEF Releasing
  <2>2. \A p : WillClose(T, p)' <=> WillClose(T, p)
    BY <1>1, <1>2, <2>1 DEF WillClose
  <2> QED
    BY <1>1, <1>2, <2>2 DEF PinInv, Handles, HandleIs
<1>10. Fresh(T, M)' /\ Solo(todo, T)' /\ Spare(Q, F)'
  BY <1>1, Parts DEF Fresh, Solo, Spare
<1> QED
  BY <1>3, <1>4, <1>5, <1>6, <1>7, <1>8, <1>9, <1>10 DEF PinInv

LEMMA SafeStays ==
    ASSUME NEW T, NEW Q, NEW F, Safe(T, Q, F), UNCHANGED PinCamera, phase' = phase
    PROVE  Safe(T, Q, F)'
<1>1. /\ todo' = todo /\ pin' = pin /\ made' = made /\ handle' = handle /\ users' = users /\ refs' = refs
      /\ running' = running /\ free' = free /\ posted' = posted /\ dead' = dead /\ lost' = lost /\ dry' = dry
  BY DEF PinCamera
<1>2. \A t, p : Pending(t, p)' = Pending(t, p)
  BY <1>1 DEF Pending
<1>3. \A t, p : InHand(t, p)' = InHand(t, p)
  BY <1>1, <1>2 DEF InHand
<1>4. \A p : HandsOf(T, p)' = HandsOf(T, p)
  BY <1>3 DEF HandsOf
<1>5. OnePlace(T, F)'
  BY <1>1, <1>4 DEF Safe, OnePlace, Apart
<1>6. Outlives(T)'
  BY <1>1, <1>2 DEF Safe, Outlives
<1>7. Spare(Q, F)' /\ Off(T)'
  BY <1>1 DEF Safe, Spare, Off
<1> QED
  BY <1>5, <1>6, <1>7 DEF Safe

LEMMA CapStays ==
    ASSUME NEW T, NEW Q, NEW F, NEW M, CapInv(T, Q, F, M), UNCHANGED Camera
    PROVE  CapInv(T, Q, F, M)'
<1>1. UNCHANGED PinCamera /\ phase' = phase /\ inside' = inside /\ overlap' = overlap /\ stoping' = stoping
  BY DEF Camera, PinCamera
<1>2. Cap(T, Q, F, M) => Cap(T, Q, F, M)'
  <2>1. PICK B : B = inside
    OBVIOUS
  <2>2. PinInv(T, Q, F, M, B) => PinInv(T, Q, F, M, B)'
    BY <1>1, PinStays
  <2>3. SessionInv(T, M, T \ Q) => SessionInv(T, M, T \ Q)'
    BY <1>1 DEF SessionInv, SessionPlaces, PinCamera
  <2> QED
    BY <1>1, <2>1, <2>2, <2>3 DEF Cap
<1>3. Safe(T, Q, F) => Safe(T, Q, F)'
  BY <1>1, SafeStays
<1> QED
  BY <1>1, <1>2, <1>3 DEF CapInv

\* The beginning.
NoPins(T, M) ==
    /\ todo = [t \in T |-> <<>>] /\ pin = 0 /\ made = 0
    /\ handle = [p \in 1 .. M |-> "none"] /\ users = [p \in 1 .. M |-> {}]
    /\ refs = [p \in 1 .. M |-> 0] /\ running = [p \in 1 .. M |-> FALSE]
    /\ free = [p \in 1 .. M |-> {}] /\ posted = [p \in 1 .. M |-> {}]
    /\ dead = {} /\ lost = {} /\ dry = FALSE

\* There is no call to count.
LEMMA NoneCounted ==
    ASSUME NEW T, IsFiniteSet(T), NEW M, NoPins(T, M)
    PROVE  /\ \A t \in T : \A h \in 1 .. Height(todo, t) : FALSE
           /\ \A t \in T : Height(todo, t) = 0
           /\ \A K : Number(todo, T, K) = 0
<1>1. \A t \in T : Height(todo, t) = 0
  BY DEF NoPins, Height
<1>2. \A t \in T : \A h \in 1 .. Height(todo, t) : FALSE
  BY <1>1
<1>3. ASSUME NEW K PROVE Number(todo, T, K) = 0
  <2>1. PlacesOf(todo, T, K) = {}
    BY <1>2 DEF PlacesOf
  <2> QED
    BY <2>1, FS_EmptySet DEF Number
<1> QED
  BY <1>1, <1>2, <1>3

LEMMA PinBegins ==
    ASSUME NEW T, IsFiniteSet(T), NEW Q, NEW F, NEW M \in Nat, NEW B, NoPins(T, M), Reads \in Nat
    PROVE  PinInv(T, Q, F, M, B)
<1>1. \A t \in T : \A h \in 1 .. Height(todo, t) : FALSE
  BY NoneCounted
<1>2. \A K : Number(todo, T, K) = 0
  BY NoneCounted
<1>3. PinTypes(T, F, M)
  <2>1. todo \in [T -> Seq(Items(M, F))]
    BY DEF NoPins
  <2>2. made \in 0 .. M /\ pin \in 0 .. made /\ refs \in [1 .. M -> Nat]
    BY DEF NoPins
  <2> QED
    BY <2>1, <2>2 DEF NoPins, PinTypes
<1>4. ~Somewhere(todo, T, SoloOps)
  BY <1>1 DEF Somewhere
<1>5. Cardinality({}) = 0 /\ One(FALSE) = 0
  BY FS_EmptySet DEF One
<1>6. ASSUME NEW p \in 1 .. M PROVE Books(T, F, M, p)
  <2>1. /\ refs[p] = 0 /\ posted[p] = {} /\ free[p] = {} /\ handle[p] = "none"
        /\ p \notin lost /\ p \notin dead /\ p > made /\ ~Owned(T, p)
    BY DEF NoPins, Owned
  <2>2. ~(p \in lost \/ Owned(T, p))
    BY <2>1
  <2>3. PinBook(T, F, M, p)
    <3>1. One(p \in lost \/ Owned(T, p)) = 0
      BY <2>2 DEF One
    <3>2. made = 0 /\ p \in Nat /\ ~(p <= made)
      BY DEF NoPins
    <3> QED
      BY <1>2, <1>5, <2>1, <3>1, <3>2 DEF PinBook
  <2>4. \A f \in F : FrameBook(T, F, M, p, f)
    BY <1>2, <2>1 DEF FrameBook, One
  <2>5. ReadBook(T, F, M, p)
    BY <1>2, <1>5, <2>1 DEF ReadBook
  <2> QED
    BY <2>3, <2>4, <2>5 DEF Books
<1>7. /\ Known(todo, T) /\ Filled(todo, T, Q) /\ Backed(todo, T, B) /\ LockPlaces(todo, T)
      /\ Fresh(T, M) /\ Solo(todo, T)
  BY <1>1 DEF Known, Filled, Backed, LockPlaces, Fresh, Solo
<1>8. Locked(todo, T, M)
  BY <1>1 DEF Locked, OnPin, NoPins
<1>9. ASSUME NEW p \in 1 .. M PROVE HandleIs(T, p)
  BY DEF HandleIs, NoPins, Owned
<1>10. Spare(Q, F)
  BY DEF Spare, NoPins
<1>11. PinBooks(T, F, M) /\ FrameBooks(T, F, M) /\ ReadBooks(T, F, M)
  BY <1>6 DEF Books, PinBooks, FrameBooks, ReadBooks
<1> QED
  BY <1>3, <1>7, <1>8, <1>9, <1>10, <1>11 DEF PinInv, Handles

LEMMA CapBegins ==
    ASSUME NEW T, IsFiniteSet(T), NEW Q, NEW F, NEW M \in Nat, NoPins(T, M), Reads \in Nat,
           phase = "live", inside = {}, overlap = FALSE, stoping \in [1 .. M -> BOOLEAN]
    PROVE  CapInv(T, Q, F, M)
<1>1. \A t \in T : \A h \in 1 .. Height(todo, t) : FALSE
  BY NoneCounted
<1>2. SessionPlaces(T)
  BY <1>1 DEF SessionPlaces
<1>3. SessionInv(T, M, T \ Q)
  BY <1>2 DEF SessionInv
<1>4. PICK B : B = inside
  OBVIOUS
<1>5. PinInv(T, Q, F, M, B)
  BY PinBegins
<1> QED
  BY <1>3, <1>4, <1>5 DEF CapInv, Cap
=============================================================================
