---------------------------- MODULE ViewerProof ----------------------------
(***************************************************************************)
(* Proofs about LocalViewer, and the theorems about Capture on its own and *)
(* about MCCapture, which is one of three: Capture with two pins, Capture  *)
(* with one pin and more frames, or the local viewer.                      *)
(*                                                                         *)
(* The viewer's invariant (ViewerInv) joins that of KsRead with the window.*)
(* The references of a picture are counted as those of a pin (Pictures).   *)
(* That the window shows the picture of the newest pin needs the order of  *)
(* events: the destructor of a pin lets its picture go, posts e_set and    *)
(* closes the handle (Placed), so e_set is the last message about it (Calm)*)
(* and a message about a frame comes while the window shows the picture    *)
(* (Showing).  This holds until the user starts a pin before the last one  *)
(* is gone (hasty), and PictureIsShown is about such users.                *)
(***************************************************************************)
EXTENDS MCCapture, CaptureProof

\* The calls that let picture p go, and where one of some kind is.
VidsOf(E, p) == {c \in E : c.op = "vidrel" /\ c.pic = p}
PicPlace(f, T, op, p) ==
    \E t \in T : \E h \in 1 .. Height(f, t) : Item(f, t, h).op = op /\ Item(f, t, h).pic = p

\* The messages to the dialog's window.
Kinds(M) == [kind : {"e_set", "e_update"}, pic : 1 .. M]

\* The types of the viewer's variables.
WindowTypes(M) ==
    /\ wnd \in 0 .. made /\ count \in [1 .. M -> Int]
    /\ msgs \in Seq(Kinds(M)) /\ hasty \in BOOLEAN
    /\ dialog \in {"up", "closed", "ended", "exited"}

\* Where a call of the viewer can be: pins are opened and stopped, pictures set and windows
\* destroyed by the dialog's thread; a destructor lets its picture go, then posts e_set.
Placed(f, T, t, h) ==
    LET c == Item(f, t, h)
        n == Height(f, t)
    IN
    /\ c.op \in PicOps => c.pic <= made
    /\ c.op = "set" => /\ t = Viewer!UI /\ h = 3 /\ n = 3 /\ c.pic = made
                       /\ Item(f, t, 1).op = "create" /\ Item(f, t, 1).pin = made
    /\ c.op = "vidrel" => h = n \/ (h = n - 1 /\ Item(f, t, n).op = "set")
    /\ c.op = "post" => /\ c.pic \in dead /\ handle[c.pic] # "none"
                        /\ (h = n \/ (h = n - 1 /\ Item(f, t, n).op = "vidrel"))
    /\ c.op \in {"create", "run", "box"} => t = Viewer!UI /\ h = 1
    /\ c.op \in SoloOps => t = Viewer!UI
    /\ c.op = "destroy" => /\ t = Viewer!UI /\ h = 2 /\ Item(f, t, 1).op = "rundown"
                           /\ (pin = 0 \/ Somewhere(f, {t}, {"clear"}))
    /\ c.op = "rundown" => /\ t = Viewer!UI /\ h = 1
                           /\ (dialog = "up" => n > 1 /\ Item(f, t, 2).op = "destroy")
WindowPlaces(f, T) == \A t \in T : \A h \in 1 .. Height(f, t) : Placed(f, T, t, h)

\* One thread at most will post e_set of a picture.
OnePost(f, T) == \A t, u \in T : \A h \in 1 .. Height(f, t) : \A k \in 1 .. Height(f, u) :
    Item(f, t, h).op = "post" /\ Item(f, u, k).op = "post" /\ Item(f, t, h).pic = Item(f, u, k).pic
        => t = u /\ h = k

\* The references of a picture: calls that let it go, the window, and the pin.
Pictures(T, F, M) == \A p \in 1 .. M : p <= made =>
    count[p] = Number(todo, T, VidsOf(Items(M, F), p)) + One(wnd = p) + One(p \notin dead)

\* A closed dialog shows nothing and stops no pin.
Closed(T) == dialog # "up" =>
    /\ msgs = <<>> /\ wnd = 0 /\ pin = 0 /\ ~Somewhere(todo, T, SoloOps)

\* When the process ends no pin lives.
Ended(T) == dialog = "exited" => dead = 1 .. made /\ \A t \in T : todo[t] = <<>>

\* The window is about to show the newest picture; or shows it, and will be told when the
\* pin is gone; or has been told.
Showing(T) ==
    \/ Somewhere(todo, T, {"set"}) /\ msgs = <<>> /\ made \notin dead
    \/ /\ wnd = made
       /\ made \in dead => PicPlace(todo, T, "post", made) \/ \E i \in DOMAIN msgs : msgs[i].kind = "e_set"
    \/ made \in dead /\ msgs = <<>> /\ ~PicPlace(todo, T, "post", made)

\* Unless the user was too quick, older pins are dead and all messages about the newest.
Calm(T) ==
    /\ \A p \in 1 .. made - 1 : p \in lost \cup dead /\ ~PicPlace(todo, T, "post", p)
    /\ \A i \in DOMAIN msgs :
          /\ msgs[i].pic = made
          /\ msgs[i].kind = "e_set" => i = Len(msgs) /\ made \in dead /\ ~PicPlace(todo, T, "post", made)
    /\ msgs # <<>> => handle[made] # "none"
    /\ Showing(T)

\* The invariant of the local viewer.
ViewerInv(T, F, M) ==
    /\ WindowTypes(M) /\ WindowPlaces(todo, T) /\ OnePost(todo, T) /\ Pictures(T, F, M)
    /\ Closed(T) /\ Ended(T)
    /\ ~hasty => undefined = {} /\ (dialog = "up" => Calm(T))

-----------------------------------------------------------------------------
\* The two sizes of Capture.
LEMMA Sizes ==
    /\ IsFiniteSet(Threads) /\ Pool \in SUBSET Threads /\ Threads \ Pool = Owners /\ IsFiniteSet(Frames)
    /\ MaxPins \in Nat /\ Reads \in Nat /\ Pins = 1 .. MaxPins
<1>1. IsFiniteSet(Threads)
  BY ThreadsAssumption, FS_Union DEF Threads
<1>2. Pool \in SUBSET Threads /\ Threads \ Pool = Owners
  BY ThreadsAssumption DEF Threads
<1>3. Reads \in Nat
  <2>1. Cardinality(Frames) \in Nat
    BY FramesAssumption, FS_CardinalityType
  <2> QED
    BY <2>1, FramesAssumption
<1> QED
  BY <1>1, <1>2, <1>3, FramesAssumption, PinsAssumption DEF Pins

LEMMA OnePinSizes ==
    /\ IsFiniteSet(OnePin!Threads) /\ TwoPool \in SUBSET OnePin!Threads /\ OnePin!Threads \ TwoPool = OneOwner
    /\ IsFiniteSet(MoreFrames) /\ OnePin!Pins = 1 .. 1
<1>1. IsFiniteSet(OnePin!Threads)
  BY InstancesAssumption, FS_Union DEF OnePin!Threads
<1> QED
  BY <1>1, InstancesAssumption DEF OnePin!Threads, OnePin!Pins

\* They begin with the invariant,
LEMMA CaptureBegins ==
    ASSUME Init
    PROVE  CapInv(Threads, Pool, Frames, MaxPins)
<1>1. NoPins(Threads, MaxPins)
  BY DEF Init, PinInit, NoPins, NoPin, Pins
<1>2. stoping \in [1 .. MaxPins -> BOOLEAN]
  BY DEF Init, Pins
<1> QED
  BY <1>1, <1>2, Sizes, CapBegins DEF Init

LEMMA OnePinBegins ==
    ASSUME OnePin!Init
    PROVE  CapInv(OnePin!Threads, TwoPool, MoreFrames, 1)
<1>1. NoPins(OnePin!Threads, 1)
  BY DEF OnePin!Init, OnePin!PinInit, NoPins, OnePin!NoPin, OnePin!Pins
<1>2. stoping \in [1 .. 1 -> BOOLEAN]
  BY DEF OnePin!Init, OnePin!Pins
<1> QED
  BY <1>1, <1>2, Sizes, OnePinSizes, CapBegins DEF OnePin!Init

\* and their steps are those of CapNext.
LEMMA CaptureStep ==
    ASSUME NEW t, Step(t)
    PROVE  CapStep(Frames, MaxPins, t)
<1>1. Strt(t) => Starts(MaxPins, t)
  BY DEF Strt, Starts, NotStarted, NoPin, NewPin
<1>2. Opening(t) => Opens_(Frames, t)
  BY DEF Opening, Opens_, Create, Creates
<1> QED
  BY <1>1, <1>2 DEF Step, PinStep, SessionStep, CapStep

LEMMA CaptureNext ==
    ASSUME Next
    PROVE  CapNext(Threads, Pool, Frames, MaxPins)
<1>1. \A t : Message(t) => Messaged(t)
  BY DEF Message, Messaged
<1>2. \A t : Goodbye(t) => Parted(t)
  BY DEF Goodbye, Parted
<1> QED
  BY <1>1, <1>2, Sizes, CaptureStep DEF Next, Recv, CapNext

\* The same with the constants of the other size.
LEMMA OnePinRead ==
    ASSUME NEW t, OnePin!ReadStep(t)
    PROVE  ReadStep(t)
<1>1. OnePin!OwnStep(t) => OwnStep(t)
  <2>1. OnePin!Read(t) => Read(t)
    BY DEF OnePin!Read, Read, OnePin!ReadRef, ReadRef, OnePin!At, At, OnePin!Arg, Arg, OnePin!Do, Do, OnePin!With, With
  <2>2. OnePin!IssueRead(t) => IssueRead(t)
    BY DEF OnePin!IssueRead, IssueRead, OnePin!CanLock, CanLock, OnePin!Frame, Frame, OnePin!At, At, OnePin!Arg, Arg,
           OnePin!Do, Do, OnePin!With, With, OnePin!On, On
  <2>3. OnePin!Ioctl(t) => Ioctl(t)
    BY DEF OnePin!Ioctl, Ioctl, OnePin!Frame, Frame, OnePin!At, At, OnePin!Arg, Arg, OnePin!Do, Do, OnePin!With, With
  <2>4. OnePin!Unlock(t) => Unlock(t)
    BY DEF OnePin!Unlock, Unlock, OnePin!At, At, OnePin!Arg, Arg, OnePin!Do, Do
  <2>5. OnePin!PushFrame(t) => PushFrame(t)
    BY DEF OnePin!PushFrame, PushFrame, OnePin!Frame, Frame, OnePin!At, At, OnePin!Arg, Arg, OnePin!Do, Do
  <2>6. OnePin!SetState(t) => SetState(t)
    BY DEF OnePin!SetState, SetState, OnePin!CanLock, CanLock, OnePin!At, At, OnePin!Arg, Arg, OnePin!Do, Do, OnePin!On, On
  <2>7. OnePin!SetStop(t) => SetStop(t)
    BY DEF OnePin!SetStop, SetStop, OnePin!At, At, OnePin!Arg, Arg, OnePin!Do, Do
  <2>8. OnePin!Close(t) => Close(t)
    BY DEF OnePin!Close, Close, OnePin!CanLock, CanLock, OnePin!At, At, OnePin!Arg, Arg, OnePin!Do, Do, OnePin!On, On
  <2>9. OnePin!Clear(t) => Clear(t)
    BY DEF OnePin!Clear, Clear, OnePin!NoPin, NoPin, OnePin!At, At, OnePin!Do, Do
  <2> QED
    BY <2>1, <2>2, <2>3, <2>4, <2>5, <2>6, <2>7, <2>8, <2>9 DEF OnePin!OwnStep, OwnStep
<1>2. \A x : OnePin!NoRequest(t, x) => NoRequest(t, x)
  BY DEF OnePin!NoRequest, NoRequest, OnePin!At, At, OnePin!Arg, Arg, OnePin!Do, Do
<1>3. \A x : OnePin!ReadFailed(t, x) => ReadFailed(t, x)
  BY DEF OnePin!ReadFailed, ReadFailed, OnePin!At, At, OnePin!Arg, Arg, OnePin!Do, Do, OnePin!Frame, Frame, OnePin!On, On
<1>4. \A x : OnePin!Release(t, x) => Release(t, x)
  BY DEF OnePin!Release, Release, OnePin!At, At, OnePin!Arg, Arg, OnePin!Do, Do, OnePin!On, On
<1>5. \A p : OnePin!Fail(p) = Fail(p) /\ OnePin!Destructor(p) = Destructor(p) /\ OnePin!Arg(t) = Arg(t)
  BY DEF OnePin!Fail, Fail, OnePin!Destructor, Destructor, OnePin!Call, Call, OnePin!On, On, OnePin!Arg, Arg
<1> QED
  BY <1>1, <1>2, <1>3, <1>4, <1>5 DEF OnePin!ReadStep, ReadStep, OnePin!session, session

LEMMA OnePinStep ==
    ASSUME NEW t, OnePin!Step(t)
    PROVE  CapStep(MoreFrames, 1, t)
<1> USE DEF OnePin!At, At, OnePin!Arg, Arg, OnePin!Do, Do, OnePin!On, On, OnePin!Call, Call,
            OnePin!Idle, Idle, OnePin!session, session, OnePin!NoPin, NoPin
<1>1. OnePin!Process(t) => Process(t)
  BY DEF OnePin!Process, Process
<1>2. OnePin!PinStop(t) => PinStop(t)
  BY DEF OnePin!PinStop, PinStop, OnePin!StopCalls, StopCalls
<1>3. OnePin!H264Stop(t) => H264Stop(t)
  BY DEF OnePin!H264Stop, H264Stop
<1>4. OnePin!Disconnect(t) => Disconnect(t)
  BY DEF OnePin!Disconnect, Disconnect, OnePin!LastOut, LastOut
<1>5. OnePin!CStop(t) => CStop(t)
  BY DEF OnePin!CStop, CStop, OnePin!StopPin, StopPin
<1>6. OnePin!Refuse(t) => Refuse(t)
  BY DEF OnePin!Refuse, Refuse, OnePin!Refused, Refused
<1>7. OnePin!Strt(t) => Starts(1, t)
  BY <1>6 DEF OnePin!Strt, Starts, OnePin!NotStarted, NotStarted, OnePin!NewPin
<1>8. OnePin!Opening(t) => Opens_(MoreFrames, t)
  <2>1. OnePin!Create(t, <<Call("refuse")>>) => Creates(MoreFrames, t, Call("refuse"))
    BY DEF OnePin!Create, Creates
  <2>2. \A x : OnePin!Run(t, x) => Run(t, x)
    BY DEF OnePin!Run, Run, OnePin!Posts, Posts
  <2> QED
    BY <2>1, <2>2 DEF OnePin!Opening, Opens_
<1>9. OnePin!Refusing(t) => Refusing(t)
  BY <1>6 DEF OnePin!Refusing, Refusing
<1>10. OnePin!UserStop(t) => UserStop(t)
  BY <1>6 DEF OnePin!UserStop, UserStop
<1>11. OnePin!Leave(t) => Leave(t)
  BY DEF OnePin!Leave, Leave
<1>12. OnePin!ReadStep(t) => ReadStep(t)
  BY OnePinRead
<1> QED
  BY <1>1, <1>2, <1>3, <1>4, <1>5, <1>7, <1>8, <1>9, <1>10, <1>11, <1>12
  DEF OnePin!Step, OnePin!PinStep, OnePin!SessionStep, CapStep

LEMMA OnePinNext ==
    ASSUME OnePin!Next
    PROVE  CapNext(OnePin!Threads, TwoPool, MoreFrames, 1)
<1>1. \A t : OnePin!Message(t) => Messaged(t)
  BY DEF OnePin!Message, Messaged, OnePin!Idle, Idle, OnePin!Call, Call
<1>2. \A t : OnePin!Goodbye(t) => Parted(t)
  BY DEF OnePin!Goodbye, Parted, OnePin!Idle, Idle, OnePin!Call, Call
<1>3. \A t : OnePin!Delivered(t) => Delivered(t)
  BY DEF OnePin!Delivered, Delivered, OnePin!ReadDone, ReadDone, OnePin!Completion, Completion, OnePin!On, On,
         OnePin!With, With, OnePin!session, session
<1> QED
  BY <1>1, <1>2, <1>3, OnePinSizes, OnePinStep DEF OnePin!Next, OnePin!Recv, CapNext

-----------------------------------------------------------------------------
\* The local viewer.  Its calls with a picture.
LEMMA PicIs ==
    ASSUME NEW op, NEW p
    PROVE  Viewer!OfPic(op, p).op = op /\ Viewer!OfPic(op, p).pic = p
BY DEF Viewer!OfPic

LEMMA PicItem ==
    ASSUME NEW M, NEW F, NEW op \in PicOps, NEW p \in 1 .. M
    PROVE  Viewer!OfPic(op, p) \in Items(M, F)
BY DEF Viewer!OfPic, Items

\* What a step leaves of the calls of the window.
WindowOps == PicOps \cup SoloOps \cup {"box", "destroy", "rundown"}
KeptRight(T, t, b, x) ==
    /\ b < Height(todo, t) \/ Height(todo, t) = 0
    /\ Height(todo, t) > 0 /\ Item(todo, t, Height(todo, t)).op \in {"set", "vidrel"}
          => b = Height(todo, t) - 1 /\ Len(x) = 0
    /\ \A h \in b + 1 .. Height(todo, t) : Item(todo, t, h).op = "destroy" => dialog' # "up"
    /\ dialog' = "up" => dialog = "up"
    /\ \/ pin' = pin /\ \A h \in b + 1 .. Height(todo, t) : Item(todo, t, h).op # "clear"
       \/ pin' = 0
       \/ ~Somewhere(todo, T, {"destroy"})
    /\ dead \subseteq dead' /\ made \in Nat /\ made' \in Nat /\ made <= made'
    /\ made' = made \/ ~Somewhere(todo, T, {"set"})
    /\ \A p \in 1 .. made : handle[p] # "none" => handle'[p] # "none"

LEMMA WindowKept ==
    ASSUME NEW T, NEW F, NEW M \in Nat, NEW t, NEW b, NEW x, Moved(T, F, M, t, b, x),
           WindowPlaces(todo, T), KeptRight(T, t, b, x),
           \A i \in 1 .. Len(x) : Placed(todo, T, t, b + Len(x) + 1 - i)'
    PROVE  WindowPlaces(todo, T)'
<1>1. /\ Comes(todo, todo', T, t, b, x)
      /\ t \in T /\ b \in Nat /\ b <= Height(todo, t) /\ Len(x) \in Nat
      /\ Height(todo', t) = b + Len(x)
      /\ \A u \in T : Height(todo, u) \in Nat /\ Height(todo', u) \in Nat
      /\ \A u \in T \ {t} : todo'[u] = todo[u]
  BY MovedIs
<1>2. \A h \in 1 .. b : Item(todo', t, h) = Item(todo, t, h)
  BY DEF Moved, Pushed
<1>3. \A u \in T : \A h \in 1 .. Height(todo, u) : Item(todo, u, h).op \in PicOps => Item(todo, u, h).pic \in 1 .. M
  <2>1. \A u \in T : \A h \in 1 .. Height(todo, u) : Item(todo, u, h) \in Items(M, F)
    BY ItemsOf
  <2> QED
    BY <2>1, Kinds_
<1>4. ASSUME NEW u \in T, u # t, NEW h \in 1 .. Height(todo', u)
      PROVE  Placed(todo, T, u, h)'
  <2>1. Height(todo', u) = Height(todo, u) /\ \A k : Item(todo', u, k) = Item(todo, u, k)
    BY <1>1, <1>4 DEF Height, Item
  <2>2. h \in 1 .. Height(todo, u) /\ Placed(todo, T, u, h)
    BY <1>4, <2>1 DEF WindowPlaces
  <2>3. Item(todo, u, h).op = "set" => made' = made
    BY <2>2 DEF KeptRight, Somewhere
  <2>4. Somewhere(todo', {u}, {"clear"}) <=> Somewhere(todo, {u}, {"clear"})
    BY <2>1 DEF Somewhere
  <2>5. Item(todo, u, h).op = "destroy" => pin' = pin \/ pin' = 0
    BY <2>2 DEF KeptRight, Somewhere
  <2>6. Item(todo, u, h).op \in PicOps => Item(todo, u, h).pic <= made'
    BY <1>3, <2>2 DEF Placed, KeptRight
  <2>7. Item(todo, u, h).op = "post" => handle'[Item(todo, u, h).pic] # "none"
    <3>1. SUFFICES ASSUME Item(todo, u, h).op = "post" PROVE handle'[Item(todo, u, h).pic] # "none"
      OBVIOUS
    <3>2. handle[Item(todo, u, h).pic] # "none" /\ Item(todo, u, h).pic <= made
      BY <2>2, <3>1 DEF Placed, PicOps
    <3>3. Item(todo, u, h).pic \in 1 .. made
      BY <1>3, <2>2, <3>1, <3>2 DEF PicOps, KeptRight
    <3> QED
      BY <3>2, <3>3 DEF KeptRight
  <2> QED
    BY <2>1, <2>2, <2>3, <2>4, <2>5, <2>6, <2>7 DEF Placed, KeptRight
<1>5. ASSUME NEW h \in 1 .. b
      PROVE  Placed(todo, T, t, h)'
  <2>1. h \in 1 .. Height(todo, t) /\ b < Height(todo, t) /\ h \in Nat /\ h # Height(todo, t)
    BY <1>1, <1>5 DEF KeptRight
  <2>2. PICK n : n = Height(todo, t)
    OBVIOUS
  <2>3. PICK c : c = Item(todo, t, h)
    OBVIOUS
  <2>4. Item(todo', t, h) = c /\ n \in Nat
    BY <1>1, <1>2, <1>5, <2>2, <2>3
  <2>5. Placed(todo, T, t, h)
    BY <1>1, <2>1 DEF WindowPlaces
  <2>6. c.op \in PicOps => c.pic <= made'
    BY <1>1, <1>3, <2>1, <2>3, <2>5 DEF Placed, KeptRight
  <2>7. c.op # "set"
    BY <2>1, <2>3, <2>5 DEF Placed
  <2>8. c.op = "vidrel" => h = Height(todo', t)
    <3>1. c.op = "vidrel" => h = n - 1 /\ Item(todo, t, n).op = "set"
      BY <2>1, <2>2, <2>3, <2>5 DEF Placed
    <3>2. c.op = "vidrel" => b = n - 1 /\ Len(x) = 0
      BY <2>1, <2>2, <2>4, <3>1 DEF KeptRight
    <3> QED
      BY <1>1, <2>4, <3>1, <3>2
  <2>9. c.op = "post" => h = Height(todo', t) /\ c.pic \in dead' /\ handle'[c.pic] # "none"
    <3>1. c.op = "post" => h = n - 1 /\ Item(todo, t, n).op = "vidrel" /\ c.pic \in dead /\ handle[c.pic] # "none"
      BY <2>1, <2>2, <2>3, <2>5 DEF Placed
    <3>2. c.op = "post" => b = n - 1 /\ Len(x) = 0
      BY <2>1, <2>2, <2>4, <3>1 DEF KeptRight
    <3>4. c.op = "post" => c.pic \in 1 .. M /\ c.pic <= made
      BY <1>1, <1>3, <2>1, <2>3, <2>5 DEF Placed, PicOps
    <3>5. c.op = "post" => c.pic \in 1 .. made
      BY <3>4 DEF KeptRight
    <3>3. c.op = "post" => c.pic \in dead' /\ handle'[c.pic] # "none"
      BY <3>1, <3>5 DEF KeptRight
    <3> QED
      BY <1>1, <2>4, <3>1, <3>2, <3>3
  <2>10. (c.op \in {"create", "run", "box"} => t = Viewer!UI /\ h = 1) /\ (c.op \in SoloOps => t = Viewer!UI)
    BY <2>3, <2>5 DEF Placed
  <2>11. c.op = "destroy" => /\ t = Viewer!UI /\ h = 2 /\ Item(todo', t, 1).op = "rundown"
                             /\ (pin' = 0 \/ Somewhere(todo', {t}, {"clear"}))
    <3>1. SUFFICES ASSUME c.op = "destroy"
                   PROVE  /\ t = Viewer!UI /\ h = 2 /\ Item(todo', t, 1).op = "rundown"
                          /\ (pin' = 0 \/ Somewhere(todo', {t}, {"clear"}))
      OBVIOUS
    <3>2. t = Viewer!UI /\ h = 2 /\ Item(todo, t, 1).op = "rundown" /\ (pin = 0 \/ Somewhere(todo, {t}, {"clear"}))
      BY <2>3, <2>5, <3>1 DEF Placed
    <3>3. 1 \in 1 .. b /\ Item(todo', t, 1) = Item(todo, t, 1)
      BY <1>1, <1>2, <1>5, <3>2
    <3>4. Somewhere(todo, T, {"destroy"})
      BY <1>1, <2>1, <2>3, <3>1 DEF Somewhere
    <3>5. CASE pin' = 0
      BY <3>2, <3>3, <3>5
    <3>6. CASE pin' = pin /\ \A k \in b + 1 .. Height(todo, t) : Item(todo, t, k).op # "clear"
      <4>1. Somewhere(todo, {t}, {"clear"}) => Somewhere(todo', {t}, {"clear"})
        <5>1. SUFFICES ASSUME NEW k \in 1 .. Height(todo, t), Item(todo, t, k).op = "clear"
                       PROVE  Somewhere(todo', {t}, {"clear"})
          BY DEF Somewhere
        <5>2. k \in 1 .. b
          BY <1>1, <3>6, <5>1
        <5>3. k \in 1 .. Height(todo', t) /\ Item(todo', t, k).op = "clear"
          BY <1>1, <1>2, <5>1, <5>2
        <5> QED
          BY <5>3 DEF Somewhere
      <4> QED
        BY <3>2, <3>3, <3>6, <4>1
    <3> QED
      BY <3>4, <3>5, <3>6 DEF KeptRight
  <2>12. c.op = "rundown" => /\ t = Viewer!UI /\ h = 1
                             /\ (dialog' = "up" => Height(todo', t) > 1 /\ Item(todo', t, 2).op = "destroy")
    <3>1. SUFFICES ASSUME c.op = "rundown"
                   PROVE  /\ t = Viewer!UI /\ h = 1
                          /\ (dialog' = "up" => Height(todo', t) > 1 /\ Item(todo', t, 2).op = "destroy")
      OBVIOUS
    <3>2. t = Viewer!UI /\ h = 1 /\ (dialog = "up" => n > 1 /\ Item(todo, t, 2).op = "destroy")
      BY <2>2, <2>3, <2>5, <3>1 DEF Placed
    <3>3. SUFFICES ASSUME dialog' = "up" PROVE Height(todo', t) > 1 /\ Item(todo', t, 2).op = "destroy"
      BY <3>2
    <3>4. n > 1 /\ Item(todo, t, 2).op = "destroy"
      BY <3>2, <3>3 DEF KeptRight
    <3>5. ~(2 \in b + 1 .. Height(todo, t))
      BY <3>3, <3>4 DEF KeptRight
    <3>6. 2 \in 1 .. b
      BY <1>1, <2>2, <2>4, <3>4, <3>5
    <3> QED
      BY <1>1, <1>2, <3>4, <3>6
  <2> QED
    BY <2>4, <2>6, <2>7, <2>8, <2>9, <2>10, <2>11, <2>12 DEF Placed
<1>6. ASSUME NEW u \in T, NEW h \in 1 .. Height(todo', u) PROVE Placed(todo, T, u, h)'
  <2>1. CASE u # t
    BY <1>4, <1>6, <2>1
  <2>2. CASE u = t /\ h <= b
    BY <1>1, <1>5, <1>6, <2>2
  <2>3. CASE u = t /\ ~(h <= b)
    <3>1. \E i \in 1 .. Len(x) : h = b + Len(x) + 1 - i
      <4>1. b + Len(x) + 1 - h \in 1 .. Len(x) /\ h = b + Len(x) + 1 - (b + Len(x) + 1 - h)
        BY <1>1, <1>6, <2>3
      <4> QED
        BY <4>1
    <3> QED
      BY <2>3, <3>1
  <2> QED
    BY <2>1, <2>2, <2>3
<1> QED
  BY <1>6 DEF WindowPlaces

\* A step that calls nothing of a picture, and finishes no such call.
PicsKept(T, F, M) ==
    /\ OnePost(todo, T)'
    /\ \A p : Number(todo', T, VidsOf(Items(M, F), p)) = Number(todo, T, VidsOf(Items(M, F), p))
    /\ \A p : PicPlace(todo', T, "post", p) <=> PicPlace(todo, T, "post", p)
    /\ Somewhere(todo', T, {"set"}) <=> Somewhere(todo, T, {"set"})

\* At most one e_set of each picture is still to be posted.
LEMMA PostsKept ==
    ASSUME NEW T, NEW F, NEW M, NEW t, NEW b, NEW x, Moved(T, F, M, t, b, x), OnePost(todo, T),
           \A i \in 1 .. Len(x) : x[i].op # "post"
    PROVE  OnePost(todo, T)'
<1>1. Comes(todo, todo', T, t, b, x)
  BY MovedIs
<1>2. \A u \in T : \A h \in 1 .. Height(todo', u) : Item(todo', u, h).op = "post" =>
          h \in 1 .. Height(todo, u) /\ Item(todo', u, h) = Item(todo, u, h)
  BY <1>1 DEF Comes
<1> QED
  BY <1>2 DEF OnePost

\* The places of a call of a picture that are new, and those that are gone.
LEMMA SamePlace ==
    ASSUME NEW T, NEW F, NEW M, NEW t, NEW b, NEW x, Moved(T, F, M, t, b, x), NEW op, NEW p
    PROVE  /\ /\ \A i \in 1 .. Len(x) : ~(x[i].op = op /\ x[i].pic = p)
              /\ PicPlace(todo', T, op, p)
              => PicPlace(todo, T, op, p)
           /\ /\ \A h \in b + 1 .. Height(todo, t) : ~(Item(todo, t, h).op = op /\ Item(todo, t, h).pic = p)
              /\ PicPlace(todo, T, op, p)
              => PicPlace(todo', T, op, p)
<1>1. Comes(todo, todo', T, t, b, x) /\ Stays(todo, todo', T, t, b) /\ b \in Nat /\ b <= Height(todo, t)
      /\ \A u \in T : Height(todo, u) \in Nat
  BY MovedIs
<1>2. ASSUME \A i \in 1 .. Len(x) : ~(x[i].op = op /\ x[i].pic = p), PicPlace(todo', T, op, p)
      PROVE  PicPlace(todo, T, op, p)
  <2>1. PICK u \in T : \E h \in 1 .. Height(todo', u) : Item(todo', u, h).op = op /\ Item(todo', u, h).pic = p
    BY <1>2 DEF PicPlace
  <2>2. PICK h \in 1 .. Height(todo', u) : Item(todo', u, h).op = op /\ Item(todo', u, h).pic = p
    BY <2>1
  <2>3. h \in 1 .. Height(todo, u) /\ Item(todo', u, h) = Item(todo, u, h)
    BY <1>1, <1>2, <2>2 DEF Comes
  <2> QED
    BY <2>2, <2>3 DEF PicPlace
<1>3. ASSUME \A h \in b + 1 .. Height(todo, t) : ~(Item(todo, t, h).op = op /\ Item(todo, t, h).pic = p),
             PicPlace(todo, T, op, p)
      PROVE  PicPlace(todo', T, op, p)
  <2>1. PICK u \in T : \E h \in 1 .. Height(todo, u) : Item(todo, u, h).op = op /\ Item(todo, u, h).pic = p
    BY <1>3 DEF PicPlace
  <2>2. PICK h \in 1 .. Height(todo, u) : Item(todo, u, h).op = op /\ Item(todo, u, h).pic = p
    BY <2>1
  <2>3. u = t => h <= b
    <3>1. SUFFICES ASSUME u = t, ~(h <= b) PROVE FALSE
      OBVIOUS
    <3>2. h \in b + 1 .. Height(todo, t)
      BY <1>1, <2>2, <3>1
    <3> QED
      BY <1>3, <2>2, <3>1, <3>2
  <2>4. h \in 1 .. Height(todo', u) /\ Item(todo', u, h) = Item(todo, u, h)
    BY <1>1, <2>2, <2>3 DEF Stays
  <2> QED
    BY <2>2, <2>4 DEF PicPlace
<1> QED
  BY <1>2, <1>3

LEMMA PicsUntouched ==
    ASSUME NEW T, NEW F, NEW M, NEW t, NEW b, NEW x, Moved(T, F, M, t, b, x), OnePost(todo, T),
           Untouched(todo, t, b, x, PicOps)
    PROVE  PicsKept(T, F, M)
<1>1. /\ \A h \in b + 1 .. Height(todo, t) : Item(todo, t, h).op \notin PicOps
      /\ \A i \in 1 .. Len(x) : x[i].op \notin PicOps
  BY DEF Untouched
<1>2. OnePost(todo, T)'
  BY <1>1, PostsKept DEF PicOps
<1>3. ASSUME NEW p PROVE Number(todo', T, VidsOf(Items(M, F), p)) = Number(todo, T, VidsOf(Items(M, F), p))
  <2>1. \A c \in VidsOf(Items(M, F), p) : c.op \in PicOps
    BY DEF VidsOf, PicOps
  <2>2. PICK K : K = VidsOf(Items(M, F), p)
    OBVIOUS
  <2>3. /\ \A h \in b + 1 .. Height(todo, t) : Item(todo, t, h) \notin K
        /\ \A i \in 1 .. Len(x) : x[i] \notin K
    BY <1>1, <2>1, <2>2
  <2> QED
    BY <2>2, <2>3, SameNumber
<1>4. ASSUME NEW p PROVE PicPlace(todo', T, "post", p) <=> PicPlace(todo, T, "post", p)
  BY <1>1, SamePlace DEF PicOps
<1>5. Somewhere(todo', T, {"set"}) <=> Somewhere(todo, T, {"set"})
  <2>1. PICK ops : ops = {"set"}
    OBVIOUS
  <2>2. /\ \A h \in b + 1 .. Height(todo, t) : Item(todo, t, h).op \notin ops
        /\ \A i \in 1 .. Len(x) : x[i].op \notin ops
    BY <1>1, <2>1 DEF PicOps
  <2> QED
    BY <2>1, <2>2, SameSomewhere
<1> QED
  BY <1>2, <1>3, <1>4, <1>5 DEF PicsKept

\* What the window shows is right as before.
SameShow == wnd' = wnd /\ msgs' = msgs /\ made' = made /\ dead' = dead

LEMMA CalmKept ==
    ASSUME NEW T, NEW F, NEW M, Calm(T), PicsKept(T, F, M), SameShow, lost \subseteq lost', WindowTypes(M), made \in Nat,
           \A p \in 1 .. made : handle[p] # "none" => handle'[p] # "none"
    PROVE  Calm(T)'
<1>1. Showing(T)'
  BY DEF Calm, Showing, PicsKept, SameShow
<1>2. msgs # <<>> => handle[made] # "none" /\ made \in 1 .. made
  <2>1. SUFFICES ASSUME msgs # <<>> PROVE handle[made] # "none" /\ made \in 1 .. made
    OBVIOUS
  <2>2. msgs \in Seq(Kinds(M))
    BY DEF WindowTypes
  <2>3. 1 \in DOMAIN msgs /\ msgs[1] \in Kinds(M)
    BY <2>1, <2>2
  <2>4. made \in 1 .. M
    BY <2>3 DEF Calm, Kinds
  <2> QED
    BY <2>1, <2>4 DEF Calm
<1>3. msgs # <<>> => handle'[made] # "none"
  BY <1>2
<1> QED
  BY <1>1, <1>3 DEF Calm, PicsKept, SameShow

\* Nobody comes to open or stop a pin.
LEMMA SoloNone ==
    ASSUME NEW T, NEW F, NEW M, NEW t, NEW b, NEW x, Moved(T, F, M, t, b, x), ~Somewhere(todo, T, SoloOps),
           \A i \in 1 .. Len(x) : x[i].op \notin SoloOps
    PROVE  ~Somewhere(todo', T, SoloOps)
BY SameSomewhere

\* What a step that is not of the window leaves of the invariant.
LEMMA ViewerQuiet ==
    ASSUME NEW T, NEW F, NEW M \in Nat, NEW t, NEW b, NEW x, Moved(T, F, M, t, b, x), ViewerInv(T, F, M),
           Untouched(todo, t, b, x, PicOps), UNCHANGED <<count, undefined, dialog, hasty>>, SameShow,
           lost \subseteq lost', KeptRight(T, t, b, x), dialog # "exited",
           dialog # "up" => pin' = 0 /\ \A i \in 1 .. Len(x) : x[i].op \notin SoloOps,
           \A i \in 1 .. Len(x) : Placed(todo, T, t, b + Len(x) + 1 - i)'
    PROVE  ViewerInv(T, F, M)'
<1>1. PicsKept(T, F, M)
  BY PicsUntouched DEF ViewerInv
<1>2. WindowPlaces(todo, T)'
  BY WindowKept DEF ViewerInv
<1>3. WindowTypes(M)'
  BY DEF ViewerInv, WindowTypes, SameShow
<1>4. Pictures(T, F, M)'
  BY <1>1 DEF ViewerInv, Pictures, PicsKept, SameShow
<1>5. Closed(T)'
  <2>1. dialog # "up" => ~Somewhere(todo, T, SoloOps) /\ msgs = <<>> /\ wnd = 0
    BY DEF ViewerInv, Closed
  <2>2. dialog # "up" => ~Somewhere(todo', T, SoloOps)
    BY <2>1, SoloNone
  <2> QED
    BY <2>1, <2>2 DEF Closed, SameShow
<1>6. Ended(T)'
  BY DEF Ended
<1>7. ~hasty /\ dialog = "up" => Calm(T)'
  BY <1>1, CalmKept DEF ViewerInv, KeptRight
<1> QED
  BY <1>1, <1>2, <1>3, <1>4, <1>5, <1>6, <1>7 DEF ViewerInv, PicsKept

-----------------------------------------------------------------------------
\* The viewer's threads are the dialog's one and those of the pool; only the dialog's
\* opens pins.
ViewPins == PinInv(Viewer!Threads, Pool, ViewerFrames, MaxPins, {Viewer!UI})
ViewInv == ViewPins /\ ViewerInv(Viewer!Threads, ViewerFrames, MaxPins)

LEMMA ViewerSizes ==
    /\ IsFiniteSet(Viewer!Threads) /\ Pool \in SUBSET Viewer!Threads /\ IsFiniteSet(Pool)
    /\ IsFiniteSet(ViewerFrames) /\ MaxPins \in Nat /\ MaxPins > 0 /\ Reads \in Nat /\ Reads \in Int
    /\ Viewer!Pins = 1 .. MaxPins /\ Viewer!UI \in Viewer!Threads /\ Viewer!NoPicture = 0 /\ Viewer!NoPin = 0
<1>1. IsFiniteSet(OneOwner \cup Pool)
  BY InstancesAssumption, ThreadsAssumption, FS_Union
<1>2. Viewer!UI \in OneOwner
  BY InstancesAssumption DEF Viewer!UI
<1>3. Reads \in Nat /\ MaxPins \in Nat /\ MaxPins > 0
  BY Sizes, PinsAssumption
<1> QED
  BY <1>1, <1>2, <1>3, InstancesAssumption, ThreadsAssumption
  DEF Viewer!Threads, Viewer!Pins, Viewer!NoPicture, Viewer!NoPin

\* The viewer's words of KsRead are Capture's.
LEMMA ViewerWords ==
    /\ \A t, op : Viewer!At(t, op) <=> At(t, op)
    /\ \A t, x : Viewer!Do(t, x) <=> Do(t, x)
    /\ Viewer!Others <=> Idle
    /\ \A t : Viewer!Arg(t) = Arg(t)
    /\ \A op : Viewer!Call(op) = Call(op)
    /\ \A op, p : Viewer!On(op, p) = On(op, p)
BY DEF Viewer!At, At, Viewer!Do, Do, Viewer!Others, Idle, Viewer!Arg, Arg, Viewer!Call, Call, Viewer!On, On

LEMMA ViewerCard == \A S : Viewer!Cardinality(S) = Cardinality(S)
BY DEF Viewer!Cardinality, Cardinality

\* The window shows picture p.
WindowShows(p) ==
    /\ wnd' = p
    /\ count' = [q \in 1 .. MaxPins |-> count[q] - Cardinality({q} \cap {wnd}) + Cardinality({q} \cap {p})]

\* The reference counts follow the window.
LEMMA ViewerShown ==
    ASSUME NEW p, Viewer!Shown(p)
    PROVE  WindowShows(p)
BY ViewerSizes, ViewerCard DEF Viewer!Shown, WindowShows

\* A call of no pin that makes no other.
LEMMA DonePin ==
    ASSUME NEW T, IsFiniteSet(T), NEW Q, NEW F, NEW M \in Nat, NEW B, PinInv(T, Q, F, M, B), NEW t \in T,
           NEW op, At(t, op), op \notin HasPin, op # "clear", NEW x, x = <<>>, Do(t, x), Idle,
           NEW b, b = Height(todo, t) - 1
    PROVE  PinInv(T, Q, F, M, B)' /\ Moved(T, F, M, t, b, x) /\ b < Height(todo, t)
<1>1. PinTypes(T, F, M)
  BY Parts
<1>2. todo[t] # <<>> /\ Item(todo, t, Height(todo, t)).op = op
      /\ \A h \in Height(todo, t) - 1 + 1 .. Height(todo, t) : h = Height(todo, t)
  BY <1>1, AtSomewhere
<1>3. x \in Seq(Items(M, F)) /\ \A i \in 1 .. Len(x) : FALSE
  BY NoCalls
<1>4. Moved(T, F, M, t, b, x) /\ b < Height(todo, t)
  BY <1>1, <1>2, <1>3, Doing
<1>5. \A h \in b + 1 .. Height(todo, t) : Item(todo, t, h).op = op
  BY <1>2
<1>6. PlainOnly(todo, t, b, x) /\ NoClear(todo, t, b, x) /\ SoloFits(todo, T, t, b, x)
  BY <1>3, <1>5 DEF PlainOnly, NoClear, SoloFits
<1>7. pin' = pin /\ B \subseteq B
  BY DEF Idle
<1>8. \A u, p : Starting(todo, T, B, u, p) => Starting(todo, T, B, u, p)'
  BY <1>3, <1>4, <1>7, StartingStays
<1>9. BackFits(T, t, b, B, B)
  BY <1>8 DEF BackFits
<1> QED
  BY <1>4, <1>6, <1>9, PlainStep

\* Nobody who has something to do is in a process that is gone.
LEMMA NotExited ==
    ASSUME NEW T, NEW F, NEW M, ViewerInv(T, F, M), NEW t \in T, todo[t] # <<>>
    PROVE  dialog # "exited"
BY DEF ViewerInv, Ended

\* The dialog's thread at one of its calls.
LEMMA ViewParts ==
    ASSUME ViewInv
    PROVE  /\ PinTypes(Viewer!Threads, ViewerFrames, MaxPins)
           /\ WindowTypes(MaxPins) /\ WindowPlaces(todo, Viewer!Threads) /\ OnePost(todo, Viewer!Threads)
           /\ Pictures(Viewer!Threads, ViewerFrames, MaxPins) /\ Closed(Viewer!Threads) /\ Ended(Viewer!Threads)
           /\ made \in Nat /\ made <= MaxPins /\ pin \in Nat
<1>1. PinTypes(Viewer!Threads, ViewerFrames, MaxPins)
  BY Parts DEF ViewInv, ViewPins
<1>2. made \in 0 .. MaxPins
  BY <1>1 DEF PinTypes
<1>3. pin \in 0 .. made
  BY <1>1 DEF PinTypes
<1> QED
  BY <1>1, <1>2, <1>3, ViewerSizes DEF ViewInv, ViewerInv

\* The dialog's thread is the only one that opens or stops a pin.
LEMMA UIAlone ==
    ASSUME NEW T, WindowPlaces(todo, T), NEW ops \in {SoloOps, {"set"}, {"destroy"}, {"clear"}, {"box"}},
           Somewhere(todo, T, ops)
    PROVE  \E h \in 1 .. Height(todo, Viewer!UI) : Item(todo, Viewer!UI, h).op \in ops
<1>1. PICK t \in T : \E h \in 1 .. Height(todo, t) : Item(todo, t, h).op \in ops
  BY DEF Somewhere
<1>2. PICK h \in 1 .. Height(todo, t) : Item(todo, t, h).op \in ops
  BY <1>1
<1>3. Placed(todo, T, t, h)
  BY DEF WindowPlaces
<1>4. t = Viewer!UI
  BY <1>2, <1>3 DEF Placed, SoloOps
<1> QED
  BY <1>2, <1>4

\* While it has nothing to do, no pin is opened or stopped and no picture set.
LEMMA UIIdles ==
    ASSUME NEW T, NEW F, NEW M, PinTypes(T, F, M), WindowPlaces(todo, T), Viewer!UI \in T, todo[Viewer!UI] = <<>>
    PROVE  /\ Height(todo, Viewer!UI) = 0 /\ ~Somewhere(todo, T, SoloOps) /\ ~Somewhere(todo, T, {"set"})
           /\ ~Somewhere(todo, T, {"destroy"}) /\ ~Somewhere(todo, T, {"clear"})
<1>1. Height(todo, Viewer!UI) = 0
  BY DEF Height
<1>2. \A h \in 1 .. Height(todo, Viewer!UI) : FALSE
  BY <1>1
<1> QED
  BY <1>1, <1>2, UIAlone

\* The window.  What is at the top of a thread is in its place.
LEMMA TopPlaced ==
    ASSUME NEW T, NEW F, NEW M \in Nat, PinTypes(T, F, M), WindowPlaces(todo, T), NEW t \in T, NEW op, At(t, op)
    PROVE  /\ todo[t] # <<>> /\ Height(todo, t) \in Nat /\ Height(todo, t) > 0
           /\ Item(todo, t, Height(todo, t)).op = op /\ Item(todo, t, Height(todo, t)) = Head(todo[t])
           /\ Item(todo, t, Height(todo, t)) \in Items(M, F)
           /\ Placed(todo, T, t, Height(todo, t))
           /\ Height(todo, t) - 1 + 1 = Height(todo, t)
           /\ \A h \in Height(todo, t) - 1 + 1 .. Height(todo, t) : h = Height(todo, t)
<1>1. /\ todo[t] # <<>> /\ Height(todo, t) \in 1 .. Height(todo, t) /\ Item(todo, t, Height(todo, t)) = Head(todo[t])
      /\ Head(todo[t]).op = op /\ Height(todo, t) \in Nat
  BY AtSomewhere
<1>2. \A h \in Height(todo, t) - 1 + 1 .. Height(todo, t) : h = Height(todo, t)
  BY <1>1
<1>3. Placed(todo, T, t, Height(todo, t))
  BY <1>1 DEF WindowPlaces
<1>4. Head(todo[t]) \in Items(M, F)
  BY <1>1, Top
<1> QED
  BY <1>1, <1>2, <1>3, <1>4

\* A call of the window is over and made no other; no call was cleared or destroyed.
LEMMA WindowDone ==
    ASSUME NEW T, NEW F, NEW M \in Nat, NEW t, NEW b, NEW x, Moved(T, F, M, t, b, x),
           b = Height(todo, t) - 1, b < Height(todo, t), x = <<>>, WindowPlaces(todo, T),
           NEW op, Item(todo, t, Height(todo, t)).op = op, op # "clear", op = "destroy" => dialog' # "up",
           dialog' = "up" => dialog = "up", pin' = pin, made' = made, made \in Nat, dead \subseteq dead', handle' = handle
    PROVE  WindowPlaces(todo, T)'
<1>1. b \in Nat /\ \A u \in T : Height(todo, u) \in Nat
  BY MovedIs
<1>2. t \in T
  BY DEF Moved
<1>3. \A h \in b + 1 .. Height(todo, t) : h = Height(todo, t)
  BY <1>1, <1>2
<1>4. Len(x) = 0
  OBVIOUS
<1>5. KeptRight(T, t, b, x)
  BY <1>3, <1>4 DEF KeptRight
<1>6. \A i \in 1 .. Len(x) : Placed(todo, T, t, b + Len(x) + 1 - i)'
  BY <1>4
<1> QED
  BY <1>5, <1>6, WindowKept

\* The pictures' counts, when the window shows another picture.
LEMMA ShownCounts ==
    ASSUME NEW T, NEW F, NEW M, count \in [1 .. M -> Int], wnd \in Nat, NEW p \in Nat,
           WindowShows(p), M = MaxPins,
           \A q : Number(todo', T, VidsOf(Items(M, F), q)) = Number(todo, T, VidsOf(Items(M, F), q)),
           IsFiniteSet(T), todo \in [T -> Seq(Items(M, F))],
           made' = made, dead' = dead, Pictures(T, F, M)
    PROVE  count' \in [1 .. M -> Int] /\ Pictures(T, F, M)'
<1>1. ASSUME NEW q, NEW r PROVE Cardinality({q} \cap {r}) = One(r = q) /\ One(r = q) \in Int
  <2>1. CASE r = q
    <3>1. {q} \cap {r} = {q}
      BY <2>1
    <3>2. Cardinality({q}) = 1
      BY FS_Singleton
    <3>3. One(r = q) = 1
      BY <2>1 DEF One
    <3> QED
      BY <3>1, <3>2, <3>3
  <2>2. CASE r # q
    <3>1. {q} \cap {r} = {}
      BY <2>2
    <3>2. Cardinality({}) = 0
      BY FS_EmptySet
    <3>3. One(r = q) = 0
      BY <2>2 DEF One
    <3> QED
      BY <3>1, <3>2, <3>3
  <2> QED
    BY <2>1, <2>2
<1>2. ASSUME NEW q \in 1 .. M PROVE count'[q] = count[q] - One(wnd = q) + One(p = q) /\ count'[q] \in Int
  <2>1. count'[q] = count[q] - Cardinality({q} \cap {wnd}) + Cardinality({q} \cap {p})
    BY DEF WindowShows
  <2>2. count[q] \in Int
    OBVIOUS
  <2>6. Cardinality({q} \cap {wnd}) = One(wnd = q)
    BY <1>1, ZenonT(40)
  <2>7. Cardinality({q} \cap {p}) = One(p = q)
    BY <1>1, ZenonT(40)
  <2>3. count'[q] = count[q] - One(wnd = q) + One(p = q)
    BY <2>1, <2>6, <2>7
  <2>4. One(wnd = q) \in Int /\ One(p = q) \in Int
    BY <1>1
  <2>5. count'[q] \in Int
    BY <2>2, <2>3, <2>4
  <2> QED
    BY <2>3, <2>5
<1>3. ASSUME NEW q \in 1 .. M, q <= made'
      PROVE  count'[q] = Number(todo', T, VidsOf(Items(M, F), q)) + One(wnd' = q) + One(q \notin dead')
  <2>1. count[q] = Number(todo, T, VidsOf(Items(M, F), q)) + One(wnd = q) + One(q \notin dead)
    BY <1>3 DEF Pictures
  <2>2. PICK n : n = Number(todo, T, VidsOf(Items(M, F), q))
    OBVIOUS
  <2>3. n \in Int
    BY <2>2, PlacesFinite
  <2>4. PICK v : v = One(wnd = q)
    OBVIOUS
  <2>5. PICK w : w = One(p = q)
    OBVIOUS
  <2>6. PICK d : d = One(q \notin dead)
    OBVIOUS
  <2>7. v \in Int /\ w \in Int
    BY <1>1, <2>4, <2>5
  <2>8. d \in Int
    BY <2>6 DEF One
  <2>9. count'[q] = (n + v + d) - v + w
    BY <1>2, <2>1, <2>2, <2>4, <2>5, <2>6
  <2>10. count'[q] = n + w + d
    BY <2>3, <2>7, <2>8, <2>9
  <2> QED
    BY <2>2, <2>5, <2>6, <2>10 DEF WindowShows
<1>4. count' \in [1 .. M -> Int]
  <2>1. PICK c : c = count'
    OBVIOUS
  <2>2. c = [q \in 1 .. M |-> c[q]]
    BY <2>1 DEF WindowShows
  <2>3. \A q \in 1 .. M : c[q] \in Int
    BY <1>2, <2>1
  <2> QED
    BY <2>1, <2>2, <2>3
<1> QED
  BY <1>3, <1>4 DEF Pictures

\* OnOk's SetPicture.
LEMMA SetView ==
    ASSUME ViewInv, Viewer!Set
    PROVE  ViewInv'
<1>1. PICK t : t = Viewer!UI
  OBVIOUS
<1>2. PICK T : T = Viewer!Threads
  OBVIOUS
<1>3. /\ At(t, "set") /\ Do(t, <<>>) /\ Idle /\ WindowShows(Head(todo[t]).pic)
      /\ UNCHANGED <<msgs, undefined, dialog, hasty>>
  <2>1. Viewer!At(t, "set") /\ Viewer!Shown(Head(todo[t]).pic) /\ Viewer!Do(t, <<>>) /\ Viewer!Others
        /\ UNCHANGED <<msgs, undefined, Viewer!phases>>
    BY <1>1 DEF Viewer!Set, Viewer!Pic
  <2>2. UNCHANGED <<msgs, undefined, dialog, hasty>>
    BY <2>1 DEF Viewer!phases
  <2> QED
    BY <2>1, <2>2, ViewerShown, ViewerWords
<1>4. /\ PinTypes(T, ViewerFrames, MaxPins) /\ WindowTypes(MaxPins) /\ WindowPlaces(todo, T) /\ OnePost(todo, T)
      /\ Pictures(T, ViewerFrames, MaxPins) /\ Closed(T) /\ Ended(T) /\ made \in Nat
      /\ t \in T /\ IsFiniteSet(T)
  BY <1>1, <1>2, ViewParts, ViewerSizes
<1>5. PICK n : n = Height(todo, t)
  OBVIOUS
<1>6. PICK x : x = <<>>
  OBVIOUS
<1>7. PICK b : b = n - 1
  OBVIOUS
<1>8. /\ todo[t] # <<>> /\ n \in Nat /\ n > 0 /\ Item(todo, t, n).op = "set" /\ Item(todo, t, n) = Head(todo[t])
      /\ Placed(todo, T, t, n)
  BY <1>3, <1>4, <1>5, TopPlaced, ViewerSizes
<1>9. n = 3 /\ Item(todo, t, n).pic = made /\ Item(todo, t, 1).op = "create" /\ Item(todo, t, 1).pin = made
  BY <1>8, <1>5 DEF Placed
<1>10. wnd' = made /\ WindowShows(made)
  BY <1>3, <1>8, <1>9 DEF WindowShows
<1>11. ViewPins' /\ Moved(T, ViewerFrames, MaxPins, t, b, x) /\ b < n
  <2>1. "set" \notin HasPin
    BY DEF HasPin, PinOps, FrameOps
  <2> QED
    BY <1>2, <1>3, <1>4, <1>5, <1>6, <1>7, <2>1, DonePin, ViewerSizes DEF ViewInv, ViewPins
<1>12. UNCHANGED <<pin, made, dead, lost, handle>>
  BY <1>3 DEF Idle
<1>13. WindowPlaces(todo, T)'
  BY <1>3, <1>4, <1>5, <1>6, <1>7, <1>8, <1>11, <1>12, WindowDone, ViewerSizes
<1>14. \A i \in 1 .. Len(x) : FALSE
  BY <1>6
<1>15. \A h \in b + 1 .. Height(todo, t) : Item(todo, t, h).op = "set"
  BY <1>5, <1>7, <1>8
<1>16. OnePost(todo, T)'
  BY <1>4, <1>11, <1>14, PostsKept
<1>17. ASSUME NEW p PROVE Number(todo', T, VidsOf(Items(MaxPins, ViewerFrames), p)) = Number(todo, T, VidsOf(Items(MaxPins, ViewerFrames), p))
  <2>1. PICK K : K = VidsOf(Items(MaxPins, ViewerFrames), p)
    OBVIOUS
  <2>2. \A h \in b + 1 .. Height(todo, t) : Item(todo, t, h) \notin K
    BY <1>15, <2>1 DEF VidsOf
  <2> QED
    BY <1>11, <1>14, <2>1, <2>2, SameNumber
<1>18. wnd \in Nat /\ count \in [1 .. MaxPins -> Int] /\ wnd' \in 0 .. made'
  BY <1>4, <1>10, <1>12 DEF WindowTypes
<1>19. count' \in [1 .. MaxPins -> Int] /\ Pictures(T, ViewerFrames, MaxPins)'
  <2>1. todo \in [T -> Seq(Items(MaxPins, ViewerFrames))]
    BY <1>4 DEF PinTypes
  <2> QED
    BY <1>10, <1>4, <1>12, <1>17, <1>18, <2>1, ShownCounts
<1>20. WindowTypes(MaxPins)'
  BY <1>3, <1>4, <1>18, <1>19, <1>12 DEF WindowTypes
<1>21. dialog = "up"
  <2>1. 3 \in 1 .. Height(todo, t) /\ 1 \in 1 .. Height(todo, t)
    BY <1>5, <1>9
  <2>2. Somewhere(todo, T, SoloOps)
    BY <1>4, <1>9, <2>1 DEF Somewhere, SoloOps
  <2> QED
    BY <1>4, <2>2 DEF Closed
<1>22. made \notin dead
  <2>1. 1 \in 1 .. Height(todo, t) /\ Item(todo, t, 1).op \in NeedOps \cup RefOps /\ Item(todo, t, 1).op \in HasPin
    BY <1>5, <1>9 DEF RefOps, HasPin, PinOps
  <2>2. Item(todo, t, 1) \in Items(MaxPins, ViewerFrames)
    BY <1>11, <1>4, <2>1, ItemsOf
  <2>3. made \in 1 .. MaxPins
    BY <1>9, <2>1, <2>2, Kinds_
  <2> QED
    BY <1>2, <1>4, <1>9, <2>1, <2>3, Lives, ViewerSizes DEF ViewInv, ViewPins
<1>23. ~hasty => Calm(T)'
  <2>1. SUFFICES ASSUME ~hasty PROVE Calm(T)'
    OBVIOUS
  <2>2. Calm(T)
    BY <1>2, <1>21, <2>1 DEF ViewInv, ViewerInv
  <2>3. \A p : PicPlace(todo', T, "post", p) <=> PicPlace(todo, T, "post", p)
    BY <1>11, <1>14, <1>15, SamePlace
  <2>4. Showing(T)'
    BY <1>10, <1>12, <1>22 DEF Showing
  <2> QED
    BY <1>3, <1>12, <2>2, <2>3, <2>4 DEF Calm
<1> QED
  BY <1>2, <1>3, <1>11, <1>13, <1>16, <1>19, <1>20, <1>21, <1>23 DEF ViewInv, ViewerInv, Closed, Ended

\* What is the same for all calls of the window that make no other.
ViewDone(t, op) ==
    /\ ViewPins' /\ WindowPlaces(todo, Viewer!Threads)' /\ OnePost(todo, Viewer!Threads)'
    /\ UNCHANGED <<pin, made, handle, dead, lost>>
    /\ op # "vidrel" => \A p : Number(todo', Viewer!Threads, VidsOf(Items(MaxPins, ViewerFrames), p))
                                 = Number(todo, Viewer!Threads, VidsOf(Items(MaxPins, ViewerFrames), p))
    /\ op # "post" => \A p : PicPlace(todo', Viewer!Threads, "post", p) <=> PicPlace(todo, Viewer!Threads, "post", p)
    /\ op # "set" => (Somewhere(todo', Viewer!Threads, {"set"}) <=> Somewhere(todo, Viewer!Threads, {"set"}))
    /\ ~Somewhere(todo, Viewer!Threads, SoloOps) => ~Somewhere(todo', Viewer!Threads, SoloOps)
    /\ todo[t] # <<>> /\ Height(todo, t) \in Nat /\ Height(todo, t) > 0
    /\ Item(todo, t, Height(todo, t)).op = op /\ Item(todo, t, Height(todo, t)) = Head(todo[t])
    /\ Item(todo, t, Height(todo, t)) \in Items(MaxPins, ViewerFrames)
    /\ Placed(todo, Viewer!Threads, t, Height(todo, t))
    /\ Moved(Viewer!Threads, ViewerFrames, MaxPins, t, Height(todo, t) - 1, <<>>)

LEMMA IsViewDone ==
    ASSUME ViewInv, NEW t \in Viewer!Threads, NEW op \in PicOps \cup {"box", "destroy", "rundown"},
           At(t, op), Do(t, <<>>), Idle, op = "destroy" => dialog' # "up", dialog' = "up" => dialog = "up"
    PROVE  ViewDone(t, op)
<1>1. PICK T : T = Viewer!Threads
  OBVIOUS
<1>2. /\ PinTypes(T, ViewerFrames, MaxPins) /\ WindowPlaces(todo, T) /\ OnePost(todo, T)
      /\ t \in T /\ IsFiniteSet(T) /\ made \in Nat /\ MaxPins \in Nat
  BY <1>1, ViewParts, ViewerSizes
<1>3. PICK x : x = <<>>
  OBVIOUS
<1>4. PICK b : b = Height(todo, t) - 1
  OBVIOUS
<1>5. /\ todo[t] # <<>> /\ Height(todo, t) \in Nat /\ Height(todo, t) > 0
      /\ Item(todo, t, Height(todo, t)).op = op /\ Item(todo, t, Height(todo, t)) = Head(todo[t])
      /\ Item(todo, t, Height(todo, t)) \in Items(MaxPins, ViewerFrames)
      /\ Placed(todo, T, t, Height(todo, t))
      /\ \A h \in Height(todo, t) - 1 + 1 .. Height(todo, t) : h = Height(todo, t)
  BY <1>2, TopPlaced
<1>6. op \notin HasPin /\ op # "clear" /\ op \notin SoloOps
  BY DEF HasPin, PinOps, FrameOps, PicOps, SoloOps
<1>7. ViewPins' /\ Moved(T, ViewerFrames, MaxPins, t, b, x) /\ b < Height(todo, t)
  BY <1>1, <1>2, <1>3, <1>4, <1>6, DonePin DEF ViewInv, ViewPins
<1>8. UNCHANGED <<pin, made, dead, lost, handle>>
  BY DEF Idle
<1>9. WindowPlaces(todo, T)'
  BY <1>2, <1>3, <1>4, <1>5, <1>6, <1>7, <1>8, WindowDone
<1>10. \A i \in 1 .. Len(x) : FALSE
  BY <1>3
<1>11. \A h \in b + 1 .. Height(todo, t) : Item(todo, t, h).op = op
  BY <1>4, <1>5
<1>12. OnePost(todo, T)'
  BY <1>2, <1>7, <1>10, PostsKept
<1>13. ASSUME NEW p, op # "vidrel"
       PROVE  Number(todo', T, VidsOf(Items(MaxPins, ViewerFrames), p)) = Number(todo, T, VidsOf(Items(MaxPins, ViewerFrames), p))
  <2>1. PICK K : K = VidsOf(Items(MaxPins, ViewerFrames), p)
    OBVIOUS
  <2>2. \A h \in b + 1 .. Height(todo, t) : Item(todo, t, h) \notin K
    BY <1>11, <1>13, <2>1 DEF VidsOf
  <2> QED
    BY <1>7, <1>10, <2>1, <2>2, SameNumber
<1>14. op # "post" => \A p : PicPlace(todo', T, "post", p) <=> PicPlace(todo, T, "post", p)
  BY <1>7, <1>10, <1>11, SamePlace
<1>15. op # "set" => (Somewhere(todo', T, {"set"}) <=> Somewhere(todo, T, {"set"}))
  <2>1. PICK ops : ops = {"set"}
    OBVIOUS
  <2>2. op # "set" => \A h \in b + 1 .. Height(todo, t) : Item(todo, t, h).op \notin ops
    BY <1>11, <2>1
  <2> QED
    BY <1>7, <1>10, <2>1, <2>2, SameSomewhere
<1>16. ~Somewhere(todo, T, SoloOps) => ~Somewhere(todo', T, SoloOps)
  BY <1>7, <1>10, SoloNone
<1>17. Moved(T, ViewerFrames, MaxPins, t, Height(todo, t) - 1, <<>>)
  BY <1>3, <1>4, <1>7
<1> QED
  BY <1>1, <1>5, <1>7, <1>8, <1>9, <1>12, <1>13, <1>14, <1>15, <1>16, <1>17 DEF ViewDone

\* The reference of OnOk, or of the pin, is dropped.
LEMMA VidReleaseView ==
    ASSUME ViewInv, NEW t \in Viewer!Threads, Viewer!VidRelease(t)
    PROVE  ViewInv'
<1>1. PICK T : T = Viewer!Threads
  OBVIOUS
<1>2. PICK q : q = Head(todo[t]).pic
  OBVIOUS
<1>3. /\ At(t, "vidrel") /\ Do(t, <<>>) /\ Idle /\ count' = [count EXCEPT ![q] = @ - 1]
      /\ UNCHANGED <<wnd, msgs, undefined, dialog, hasty>>
  <2>1. Viewer!At(t, "vidrel") /\ Viewer!Do(t, <<>>) /\ Viewer!Others /\ count' = [count EXCEPT ![q] = @ - 1]
        /\ UNCHANGED <<wnd, msgs, undefined, Viewer!phases>>
    BY <1>2 DEF Viewer!VidRelease, Viewer!Pic
  <2>2. UNCHANGED <<dialog, hasty>>
    BY <2>1 DEF Viewer!phases
  <2> QED
    BY <2>1, <2>2, ViewerWords
<1>4. ViewDone(t, "vidrel")
  BY <1>3, IsViewDone DEF PicOps
<1>5. dialog # "exited" /\ WindowTypes(MaxPins) /\ Closed(T) /\ Pictures(T, ViewerFrames, MaxPins) /\ IsFiniteSet(T) /\ made \in Nat
  BY <1>1, <1>4, NotExited, ViewParts, ViewerSizes DEF ViewInv, ViewDone
<1>6. q \in 1 .. MaxPins
  BY <1>2, <1>4, Kinds_ DEF ViewDone, PicOps
<1>7. WindowTypes(MaxPins)'
  <2>1. count \in [1 .. MaxPins -> Int]
    BY <1>5 DEF WindowTypes
  <2>2. count[q] - 1 \in Int
    BY <1>6, <2>1
  <2>3. count' \in [1 .. MaxPins -> Int]
    BY <1>3, <2>1, <2>2
  <2> QED
    BY <1>3, <1>4, <1>5, <2>3 DEF WindowTypes, ViewDone
<1>8. Pictures(T, ViewerFrames, MaxPins)'
  <2>1. SUFFICES ASSUME NEW p \in 1 .. MaxPins, p <= made
                 PROVE  count'[p] = Number(todo', T, VidsOf(Items(MaxPins, ViewerFrames), p)) + One(wnd = p) + One(p \notin dead)
    BY <1>3, <1>4 DEF Pictures, ViewDone
  <2>2. PICK K : K = VidsOf(Items(MaxPins, ViewerFrames), p)
    OBVIOUS
  <2>3. count[p] = Number(todo, T, K) + One(wnd = p) + One(p \notin dead)
    BY <1>5, <2>1, <2>2 DEF Pictures
  <2>4. PICK b : b = Height(todo, t) - 1
    OBVIOUS
  <2>5. PICK x : x = <<>>
    OBVIOUS
  <2>6. /\ Moved(T, ViewerFrames, MaxPins, t, b, x) /\ b < Height(todo, t) /\ Height(todo, t) \in Nat
        /\ Item(todo, t, Height(todo, t)) = Head(todo[t]) /\ Head(todo[t]).op = "vidrel"
        /\ Head(todo[t]) \in Items(MaxPins, ViewerFrames)
    BY <1>1, <1>4, <2>4, <2>5 DEF ViewDone
  <2>7. \A h \in b + 1 .. Height(todo, t) - 1 : Item(todo, t, h) \notin K
    BY <2>4, <2>6
  <2>8. \A i \in 1 .. Len(x) : x[i] \notin K
    BY <2>5
  <2>9. /\ Number(todo', T, K) + One(Item(todo, t, Height(todo, t)) \in K) = Number(todo, T, K)
        /\ Number(todo', T, K) \in Nat /\ Number(todo, T, K) \in Nat
    BY <2>6, <2>7, <2>8, CountNone
  <2>10. Head(todo[t]) \in K <=> p = q
    BY <1>2, <2>2, <2>6 DEF VidsOf
  <2>11. PICK n : n = Number(todo, T, K)
    OBVIOUS
  <2>12. PICK m : m = Number(todo', T, K)
    OBVIOUS
  <2>13. n \in Nat /\ m \in Nat /\ m + One(p = q) = n
    BY <2>6, <2>9, <2>10, <2>11, <2>12
  <2>14. PICK v : v = One(wnd = p)
    OBVIOUS
  <2>15. PICK d : d = One(p \notin dead)
    OBVIOUS
  <2>16. v \in Int /\ d \in Int
    BY <2>14, <2>15 DEF One
  <2>17. count[p] = n + v + d
    BY <2>3, <2>11, <2>14, <2>15
  <2>18. CASE p = q
    <3>1. m + 1 = n
      BY <2>13, <2>18 DEF One
    <3>2. count'[p] = count[p] - 1
      BY <1>3, <1>5, <1>6, <2>18 DEF WindowTypes
    <3>3. count'[p] = m + v + d
      BY <2>13, <2>16, <2>17, <3>1, <3>2
    <3> QED
      BY <2>2, <2>12, <2>14, <2>15, <3>3
  <2>19. CASE p # q
    <3>1. m + 0 = n
      BY <2>13, <2>19 DEF One
    <3>2. count'[p] = count[p]
      BY <1>3, <1>5, <2>1, <2>19 DEF WindowTypes
    <3>3. count'[p] = m + v + d
      BY <2>13, <2>16, <2>17, <3>1, <3>2
    <3> QED
      BY <2>2, <2>12, <2>14, <2>15, <3>3
  <2> QED
    BY <2>18, <2>19
<1>9. Closed(T)'
  BY <1>1, <1>3, <1>4, <1>5 DEF Closed, ViewDone
<1>10. ~hasty => undefined = {} /\ (dialog = "up" => Calm(T))
  BY <1>1 DEF ViewInv, ViewerInv
<1>11. Calm(T) => Calm(T)'
  BY <1>1, <1>3, <1>4 DEF Calm, Showing, ViewDone
<1> QED
  BY <1>1, <1>3, <1>4, <1>5, <1>7, <1>8, <1>9, <1>10, <1>11 DEF ViewInv, ViewerInv, ViewDone, Ended

\* The messages of the window.
Follows(r, s) ==
    /\ Len(s) \in Nat /\ Len(s) > 0 /\ Len(r) = Len(s) - 1 /\ Head(s) = s[1]
    /\ DOMAIN r = 1 .. Len(r) /\ DOMAIN s = 1 .. Len(s)
    /\ \A i \in DOMAIN r : r[i] = s[i + 1] /\ i + 1 \in DOMAIN s
    /\ \A i \in DOMAIN s : i # 1 => i - 1 \in DOMAIN r /\ r[i - 1] = s[i]

LEMMA TailIs ==
    ASSUME NEW S, NEW s \in Seq(S), s # <<>>, NEW r, r = Tail(s)
    PROVE  r \in Seq(S) /\ Follows(r, s)
<1>1. r \in Seq(S) /\ Len(r) = Len(s) - 1 /\ Len(s) \in Nat /\ Len(s) > 0 /\ Head(s) = s[1]
  OBVIOUS
<1>2. DOMAIN r = 1 .. Len(r) /\ DOMAIN s = 1 .. Len(s)
  BY <1>1
<1>3. \A i \in 1 .. Len(r) : r[i] = s[i + 1]
  BY <1>1
<1>4. \A i \in 1 .. Len(s) : i # 1 => i - 1 \in 1 .. Len(r) /\ i = (i - 1) + 1
  BY <1>1
<1>5. \A i \in 1 .. Len(s) : i # 1 => r[i - 1] = s[i]
  <2>1. SUFFICES ASSUME NEW i \in 1 .. Len(s), i # 1 PROVE r[i - 1] = s[i]
    OBVIOUS
  <2>2. r[i - 1] = s[(i - 1) + 1]
    BY <1>3, <1>4, <2>1
  <2>3. (i - 1) + 1 = i
    BY <1>1, <2>1
  <2> QED
    BY <2>2, <2>3
<1>6. \A i \in 1 .. Len(r) : i + 1 \in 1 .. Len(s)
  BY <1>1
<1> QED
  BY <1>1, <1>2, <1>3, <1>4, <1>5, <1>6 DEF Follows

\* Only messages are taken.
SameCamera == /\ UNCHANGED PinCamera /\ dialog' = dialog /\ hasty' = hasty

LEMMA PlacesStay ==
    ASSUME NEW T, NEW F, NEW M, SameCamera
    PROVE  /\ WindowPlaces(todo, T) => WindowPlaces(todo, T)'
           /\ OnePost(todo, T) => OnePost(todo, T)'
           /\ \A p : Number(todo', T, VidsOf(Items(M, F), p)) = Number(todo, T, VidsOf(Items(M, F), p))
           /\ \A p : PicPlace(todo', T, "post", p) <=> PicPlace(todo, T, "post", p)
           /\ Ended(T) => Ended(T)'
<1>1. UNCHANGED <<todo, pin, made, dead, handle>> /\ dialog' = dialog
  BY DEF SameCamera, PinCamera
<1>2. WindowPlaces(todo, T) => WindowPlaces(todo, T)'
  BY <1>1 DEF WindowPlaces, Placed
<1>3. OnePost(todo, T) => OnePost(todo, T)'
  BY <1>1 DEF OnePost
<1>4. Ended(T) => Ended(T)'
  BY <1>1 DEF Ended
<1> QED
  BY <1>1, <1>2, <1>3, <1>4

\* e_set: the pin of the picture is dead, and this was the last message about it.
LEMMA CalmAfterSet ==
    ASSUME NEW T, SameCamera, Calm(T), NEW S, msgs \in Seq(S), Follows(msgs', msgs), msgs' \in Seq(S), Head(msgs).kind = "e_set"
    PROVE  Calm(T)'
<1>1. 1 \in DOMAIN msgs /\ msgs[1].kind = "e_set"
  BY DEF Follows
<1>2. 1 = Len(msgs) /\ made \in dead /\ ~PicPlace(todo, T, "post", made)
  BY <1>1 DEF Calm
<1>3. Len(msgs') = 0
  BY <1>2 DEF Follows
<1>4. msgs' = <<>> /\ DOMAIN msgs' = {}
  BY <1>3
<1>5. UNCHANGED <<todo, made, dead, lost>>
  BY DEF SameCamera, PinCamera
<1>6. Showing(T)'
  BY <1>2, <1>4, <1>5 DEF Showing
<1> QED
  BY <1>4, <1>5, <1>6 DEF Calm

\* e_update: the window shows the picture.
LEMMA CalmAfterUpdate ==
    ASSUME NEW T, SameCamera, Calm(T), NEW S, msgs \in Seq(S), Follows(msgs', msgs), Head(msgs).kind = "e_update", wnd' = wnd
    PROVE  Calm(T)' /\ wnd = Head(msgs).pic
<1>1. 1 \in DOMAIN msgs /\ msgs[1] = Head(msgs) /\ msgs # <<>>
  BY DEF Follows
<1>2. msgs[1].pic = made
  BY <1>1 DEF Calm
<1>3. Somewhere(todo, T, {"set"}) => msgs # <<>>
  BY <1>1
<1>4. /\ wnd = made
      /\ made \in dead => PicPlace(todo, T, "post", made) \/ \E i \in DOMAIN msgs : msgs[i].kind = "e_set"
  BY <1>1 DEF Calm, Showing
<1>5. UNCHANGED <<todo, made, dead, lost, handle>>
  BY DEF SameCamera, PinCamera
<1>6. ASSUME NEW i \in DOMAIN msgs, msgs[i].kind = "e_set" PROVE \E j \in DOMAIN msgs' : msgs'[j].kind = "e_set"
  <2>1. i # 1
    BY <1>1, <1>6
  <2>2. i - 1 \in DOMAIN msgs' /\ msgs'[i - 1] = msgs[i]
    BY <2>1, <1>6 DEF Follows
  <2> QED
    BY <1>6, <2>2
<1>7. Showing(T)'
  BY <1>4, <1>5, <1>6 DEF Showing
<1>8. ASSUME NEW i \in DOMAIN msgs'
      PROVE  /\ msgs'[i].pic = made
             /\ msgs'[i].kind = "e_set" => i = Len(msgs') /\ made \in dead /\ ~PicPlace(todo, T, "post", made)
  <2>1. i + 1 \in DOMAIN msgs /\ msgs'[i] = msgs[i + 1] /\ i \in Nat
    BY <1>8 DEF Follows
  <2>2. msgs[i + 1].pic = made
        /\ (msgs[i + 1].kind = "e_set" => i + 1 = Len(msgs) /\ made \in dead /\ ~PicPlace(todo, T, "post", made))
    BY <2>1 DEF Calm
  <2>3. i + 1 = Len(msgs) => i = Len(msgs')
    BY <2>1 DEF Follows
  <2> QED
    BY <2>1, <2>2, <2>3
<1>9. msgs' # <<>> => handle[made] # "none"
  BY <1>1 DEF Calm
<1>10. \A p \in 1 .. made - 1 : p \in lost \cup dead /\ ~PicPlace(todo, T, "post", p)
  BY DEF Calm
<1>11. Calm(T)'
  BY <1>5, <1>7, <1>8, <1>9, <1>10 DEF Calm
<1> QED
  BY <1>1, <1>2, <1>4, <1>11

\* The dialog handles e_set or e_update.
LEMMA WindowMessageView ==
    ASSUME ViewInv, Viewer!WindowMessage
    PROVE  ViewInv'
<1>1. PICK T : T = Viewer!Threads
  OBVIOUS
<1>2. /\ dialog = "up" /\ msgs # <<>> /\ msgs' = Tail(msgs) /\ SameCamera /\ UNCHANGED PinCamera
  <2>1. dialog = "up" /\ msgs # <<>> /\ msgs' = Tail(msgs) /\ UNCHANGED <<Viewer!pinVars, Viewer!phases>>
    BY DEF Viewer!WindowMessage
  <2>2. UNCHANGED PinCamera
    BY <2>1 DEF Viewer!pinVars, PinCamera
  <2> QED
    BY <2>1, <2>2 DEF SameCamera, Viewer!phases
<1>3. ViewPins'
  BY <1>2, PinStays DEF ViewInv, ViewPins
<1>4. /\ WindowPlaces(todo, T)' /\ OnePost(todo, T)' /\ Ended(T)'
      /\ \A p : Number(todo', T, VidsOf(Items(MaxPins, ViewerFrames), p)) = Number(todo, T, VidsOf(Items(MaxPins, ViewerFrames), p))
  BY <1>1, <1>2, PlacesStay, ViewParts
<1>5. /\ WindowTypes(MaxPins) /\ Pictures(T, ViewerFrames, MaxPins) /\ IsFiniteSet(T)
      /\ todo \in [T -> Seq(Items(MaxPins, ViewerFrames))] /\ made \in Nat
  BY <1>1, ViewParts, ViewerSizes DEF PinTypes
<1>6. msgs' \in Seq(Kinds(MaxPins)) /\ msgs \in Seq(Kinds(MaxPins)) /\ Follows(msgs', msgs) /\ Head(msgs) \in Kinds(MaxPins)
  <2>1. msgs \in Seq(Kinds(MaxPins))
    BY <1>5 DEF WindowTypes
  <2>2. Head(msgs) \in Kinds(MaxPins)
    BY <1>2, <2>1
  <2> QED
    BY <1>2, <2>1, <2>2, TailIs
<1>7. UNCHANGED <<made, dead, dialog, hasty>>
  BY <1>2 DEF SameCamera, PinCamera
<1>8. ~hasty => undefined = {} /\ Calm(T)
  BY <1>1, <1>2 DEF ViewInv, ViewerInv
<1>9. CASE Head(msgs).kind = "e_set"
  <2>1. WindowShows(0) /\ undefined' = undefined
    <3>1. Viewer!Shown(Viewer!NoPicture) /\ undefined' = undefined
      BY <1>9 DEF Viewer!WindowMessage
    <3> QED
      BY <3>1, ViewerShown, ViewerSizes
  <2>2. count \in [1 .. MaxPins -> Int] /\ wnd \in Nat /\ 0 \in Nat
    BY <1>5 DEF WindowTypes
  <2>3. count' \in [1 .. MaxPins -> Int] /\ Pictures(T, ViewerFrames, MaxPins)'
    BY <1>4, <1>5, <1>7, <2>1, <2>2, ShownCounts
  <2>4. wnd' \in 0 .. made'
    BY <1>5, <1>7, <2>1 DEF WindowShows
  <2>5. WindowTypes(MaxPins)'
    BY <1>5, <1>6, <1>7, <2>3, <2>4 DEF WindowTypes
  <2>6. ~hasty => Calm(T)'
    BY <1>2, <1>6, <1>8, <1>9, CalmAfterSet
  <2> QED
    BY <1>1, <1>2, <1>3, <1>4, <1>7, <1>8, <2>1, <2>3, <2>5, <2>6 DEF ViewInv, ViewerInv, Closed
<1>10. CASE Head(msgs).kind # "e_set"
  <2>1. Viewer!Update(Head(msgs).pic) /\ UNCHANGED <<wnd, count>> /\ Head(msgs).kind = "e_update"
    BY <1>10 DEF Viewer!WindowMessage
  <2>2. Pictures(T, ViewerFrames, MaxPins)' /\ WindowTypes(MaxPins)'
    BY <1>4, <1>5, <1>6, <1>7, <2>1 DEF Pictures, WindowTypes
  <2>3. ~hasty => Calm(T)' /\ wnd = Head(msgs).pic
    BY <1>2, <1>6, <1>8, <2>1, CalmAfterUpdate
  <2>4. ~hasty => undefined' = {}
    BY <1>8, <2>1, <2>3 DEF Viewer!Update
  <2> QED
    BY <1>1, <1>2, <1>3, <1>4, <1>7, <2>2, <2>3, <2>4 DEF ViewInv, ViewerInv, Closed
<1> QED
  BY <1>9, <1>10

\* A call that is over and changes nothing of the pictures.
LEMMA CalmDone ==
    ASSUME NEW t, NEW op \in {"vidrel", "box", "destroy", "rundown"}, ViewDone(t, op), Calm(Viewer!Threads), wnd' = wnd, msgs' = msgs
    PROVE  Calm(Viewer!Threads)'
BY DEF Calm, Showing, ViewDone

\* The message box of the error is closed.
LEMMA BoxView ==
    ASSUME ViewInv, Viewer!Box
    PROVE  ViewInv'
<1>1. PICK t : t = Viewer!UI
  OBVIOUS
<1>2. PICK T : T = Viewer!Threads
  OBVIOUS
<1>3. At(t, "box") /\ Do(t, <<>>) /\ Idle /\ UNCHANGED <<wnd, count, msgs, undefined, dialog, hasty>> /\ t \in Viewer!Threads
  <2>1. Viewer!At(t, "box") /\ Viewer!Do(t, <<>>) /\ Viewer!Others /\ UNCHANGED <<Viewer!screen, Viewer!phases>>
    BY <1>1 DEF Viewer!Box
  <2>2. UNCHANGED <<wnd, count, msgs, undefined, dialog, hasty>>
    BY <2>1 DEF Viewer!phases, Viewer!screen
  <2> QED
    BY <1>1, <2>1, <2>2, ViewerWords, ViewerSizes
<1>4. ViewDone(t, "box")
  BY <1>3, IsViewDone
<1>5. dialog # "exited" /\ WindowTypes(MaxPins) /\ Closed(T) /\ Pictures(T, ViewerFrames, MaxPins)
  BY <1>2, <1>3, <1>4, NotExited, ViewParts DEF ViewInv, ViewDone
<1>6. WindowTypes(MaxPins)' /\ Pictures(T, ViewerFrames, MaxPins)' /\ Closed(T)'
  BY <1>2, <1>3, <1>4, <1>5 DEF WindowTypes, Pictures, Closed, ViewDone
<1>7. ~hasty => undefined = {} /\ (dialog = "up" => Calm(T))
  BY <1>2 DEF ViewInv, ViewerInv
<1>8. Calm(T) => Calm(T)'
  BY <1>2, <1>3, <1>4, CalmDone
<1> QED
  BY <1>2, <1>3, <1>4, <1>5, <1>6, <1>7, <1>8 DEF ViewInv, ViewerInv, ViewDone, Ended

\* The windows are gone.
LEMMA DestroyView ==
    ASSUME ViewInv, Viewer!Destroy
    PROVE  ViewInv'
<1>1. PICK t : t = Viewer!UI
  OBVIOUS
<1>2. PICK T : T = Viewer!Threads
  OBVIOUS
<1>3. /\ At(t, "destroy") /\ Do(t, <<>>) /\ Idle /\ UNCHANGED <<undefined, hasty>> /\ dialog' = "closed" /\ msgs' = <<>>
      /\ WindowShows(0) /\ t \in Viewer!Threads
  <2>1. Viewer!At(t, "destroy") /\ Viewer!Do(t, <<>>) /\ Viewer!Others /\ Viewer!Shown(Viewer!NoPicture)
    BY <1>1 DEF Viewer!Destroy
  <2> QED
    BY <1>1, <2>1, ViewerWords, ViewerSizes, ViewerShown DEF Viewer!Destroy
<1>4. ViewDone(t, "destroy")
  BY <1>3, IsViewDone
<1>5. /\ WindowTypes(MaxPins) /\ Closed(T) /\ Pictures(T, ViewerFrames, MaxPins) /\ WindowPlaces(todo, T)
      /\ PinTypes(T, ViewerFrames, MaxPins) /\ IsFiniteSet(T) /\ made \in Nat
  BY <1>2, ViewParts, ViewerSizes
<1>6. todo \in [T -> Seq(Items(MaxPins, ViewerFrames))]
  BY <1>5 DEF PinTypes
<1>7. PICK n : n = Height(todo, t)
  OBVIOUS
<1>8. n = 2 /\ Item(todo, t, 1).op = "rundown" /\ Item(todo, t, 2).op = "destroy" /\ (pin = 0 \/ Somewhere(todo, {t}, {"clear"}))
  <2>1. Item(todo, t, n).op = "destroy" /\ Placed(todo, T, t, n)
    BY <1>2, <1>4, <1>7 DEF ViewDone
  <2> QED
    BY <2>1, <1>7 DEF Placed
<1>9. \A h \in 1 .. Height(todo, t) : Item(todo, t, h).op \notin SoloOps /\ Item(todo, t, h).op # "clear"
  <2>1. \A h \in 1 .. 2 : h = 1 \/ h = 2
    OBVIOUS
  <2> QED
    BY <1>7, <1>8, <2>1 DEF SoloOps
<1>10. pin = 0
  BY <1>8, <1>9 DEF Somewhere
<1>11. ~Somewhere(todo, T, SoloOps)
  BY <1>1, <1>5, <1>9, UIAlone
<1>12. count \in [1 .. MaxPins -> Int] /\ wnd \in Nat /\ 0 \in Nat
  BY <1>5 DEF WindowTypes
<1>13. /\ made' = made /\ dead' = dead /\ pin' = pin
       /\ \A p : Number(todo', T, VidsOf(Items(MaxPins, ViewerFrames), p)) = Number(todo, T, VidsOf(Items(MaxPins, ViewerFrames), p))
  BY <1>2, <1>4 DEF ViewDone
<1>14. count' \in [1 .. MaxPins -> Int] /\ Pictures(T, ViewerFrames, MaxPins)'
  BY <1>3, <1>5, <1>6, <1>12, <1>13, ShownCounts
<1>15. wnd' = 0 /\ wnd' \in 0 .. made'
  BY <1>3, <1>5, <1>13 DEF WindowShows
<1>16. msgs' \in Seq(Kinds(MaxPins))
  BY <1>3
<1>17. WindowTypes(MaxPins)'
  BY <1>3, <1>5, <1>14, <1>15, <1>16 DEF WindowTypes
<1>18. Closed(T)'
  BY <1>2, <1>3, <1>4, <1>10, <1>11, <1>13, <1>15 DEF Closed, ViewDone
<1>19. ~hasty => undefined = {}
  BY DEF ViewInv, ViewerInv
<1> QED
  BY <1>2, <1>3, <1>4, <1>14, <1>17, <1>18, <1>19 DEF ViewInv, ViewerInv, ViewDone, Ended

\* g_IoRundown.
LEMMA BeginRundownView ==
    ASSUME ViewInv, Viewer!BeginRundown
    PROVE  ViewInv'
<1>1. PICK t : t = Viewer!UI
  OBVIOUS
<1>2. PICK T : T = Viewer!Threads
  OBVIOUS
<1>3. /\ At(t, "rundown") /\ Do(t, <<>>) /\ Idle /\ UNCHANGED <<wnd, count, msgs, undefined, hasty>> /\ dialog' = "ended"
      /\ t \in Viewer!Threads
  <2>1. Viewer!At(t, "rundown") /\ Viewer!Do(t, <<>>) /\ Viewer!Others /\ dialog' = "ended"
        /\ UNCHANGED <<Viewer!screen, hasty>>
    BY <1>1 DEF Viewer!BeginRundown
  <2>2. UNCHANGED <<wnd, count, msgs, undefined>>
    BY <2>1 DEF Viewer!screen
  <2> QED
    BY <1>1, <2>1, <2>2, ViewerWords, ViewerSizes
<1>4. ViewDone(t, "rundown")
  BY <1>3, IsViewDone
<1>5. WindowTypes(MaxPins) /\ Closed(T) /\ Pictures(T, ViewerFrames, MaxPins)
  BY <1>2, ViewParts
<1>6. dialog # "up"
  <2>1. PICK n : n = Height(todo, t)
    OBVIOUS
  <2>2. Item(todo, t, n).op = "rundown" /\ Placed(todo, T, t, n) /\ n \in Nat
    BY <1>2, <1>4, <2>1 DEF ViewDone
  <2>3. n = 1 /\ (dialog = "up" => n > 1)
    BY <2>1, <2>2 DEF Placed
  <2> QED
    BY <2>3
<1>7. WindowTypes(MaxPins)' /\ Pictures(T, ViewerFrames, MaxPins)' /\ Closed(T)'
  BY <1>2, <1>3, <1>4, <1>5, <1>6 DEF WindowTypes, Pictures, Closed, ViewDone
<1>8. ~hasty => undefined = {}
  BY DEF ViewInv, ViewerInv
<1> QED
  BY <1>2, <1>3, <1>4, <1>7, <1>8 DEF ViewInv, ViewerInv, ViewDone, Ended

\* The last object is gone.
LEMMA RundownCompletedView ==
    ASSUME ViewInv, Viewer!RundownCompleted
    PROVE  ViewInv'
<1>1. PICK T : T = Viewer!Threads
  OBVIOUS
<1>2. /\ dialog = "ended" /\ dead = 1 .. made /\ (\A t \in T : todo[t] = <<>>) /\ dialog' = "exited" /\ UNCHANGED PinCamera
      /\ UNCHANGED <<wnd, count, msgs, undefined, hasty>>
  <2>1. UNCHANGED <<Viewer!pinVars, Viewer!screen, hasty>>
    BY DEF Viewer!RundownCompleted
  <2>2. UNCHANGED PinCamera /\ UNCHANGED <<wnd, count, msgs, undefined>>
    BY <2>1 DEF Viewer!pinVars, PinCamera, Viewer!screen
  <2> QED
    BY <1>1, <2>1, <2>2 DEF Viewer!RundownCompleted
<1>3. ViewPins'
  BY <1>2, PinStays DEF ViewInv, ViewPins
<1>4. UNCHANGED <<todo, pin, made, dead, handle>>
  BY <1>2 DEF PinCamera
<1>5. /\ WindowTypes(MaxPins) /\ Closed(T) /\ Pictures(T, ViewerFrames, MaxPins) /\ OnePost(todo, T)
      /\ PinTypes(T, ViewerFrames, MaxPins)
  BY <1>1, ViewParts
<1>6. WindowTypes(MaxPins)' /\ Pictures(T, ViewerFrames, MaxPins)' /\ Closed(T)' /\ OnePost(todo, T)' /\ Ended(T)'
  BY <1>2, <1>4, <1>5 DEF WindowTypes, Pictures, Closed, OnePost, Ended
<1>7. WindowPlaces(todo, T)'
  <2>1. \A t \in T : Height(todo, t) = 0
    BY <1>2 DEF Height
  <2>2. \A t \in T : Height(todo', t) = 0
    BY <1>4, <2>1
  <2>3. \A t \in T : \A h \in 1 .. Height(todo', t) : FALSE
    BY <2>2
  <2> QED
    BY <2>3 DEF WindowPlaces
<1>8. ~hasty => undefined = {}
  BY DEF ViewInv, ViewerInv
<1> QED
  BY <1>1, <1>2, <1>3, <1>6, <1>7, <1>8 DEF ViewInv, ViewerInv

-----------------------------------------------------------------------------
\* The pins of the viewer post to the window.
Grows(r, s, e) ==
    /\ r # <<>> /\ Len(s) \in Nat /\ Len(r) = Len(s) + 1 /\ r[Len(r)] = e
    /\ DOMAIN r = 1 .. Len(r) /\ DOMAIN s = 1 .. Len(s)
    /\ \A i \in DOMAIN s : i \in DOMAIN r /\ r[i] = s[i]
    /\ \A i \in DOMAIN r : i \in DOMAIN s \/ i = Len(r)

LEMMA AppendIs ==
    ASSUME NEW S, NEW s \in Seq(S), NEW e \in S, NEW r, r = Append(s, e)
    PROVE  r \in Seq(S) /\ Grows(r, s, e)
<1>1. r \in Seq(S) /\ Len(r) = Len(s) + 1 /\ Len(s) \in Nat
  OBVIOUS
<1>2. DOMAIN r = 1 .. Len(r) /\ DOMAIN s = 1 .. Len(s)
  BY <1>1
<1>3. \A i \in 1 .. Len(s) : i \in 1 .. Len(r) /\ r[i] = s[i]
  BY <1>1
<1>4. r[Len(r)] = e
  BY <1>1
<1>5. r # <<>>
  BY <1>1
<1>6. \A i \in 1 .. Len(r) : i \in 1 .. Len(s) \/ i = Len(r)
  BY <1>1
<1> QED
  BY <1>1, <1>2, <1>3, <1>4, <1>5, <1>6 DEF Grows

\* What is posted to the window.
Posts_(kind, p) ==
    \/ dialog = "up" /\ Grows(msgs', msgs, [kind |-> kind, pic |-> p]) /\ msgs' \in Seq(Kinds(MaxPins))
    \/ dialog # "up" /\ msgs' = msgs

LEMMA IsPosted ==
    ASSUME ViewInv, NEW kind \in {"e_set", "e_update"}, NEW p \in 1 .. MaxPins, Viewer!Posted(kind, p)
    PROVE  Posts_(kind, p)
<1>1. msgs \in Seq(Kinds(MaxPins))
  BY ViewParts DEF WindowTypes
<1>2. PICK e : e = [kind |-> kind, pic |-> p]
  OBVIOUS
<1>3. e \in Kinds(MaxPins)
  BY <1>2 DEF Kinds
<1>4. dialog = "up" => msgs' = Append(msgs, e)
  BY <1>2 DEF Viewer!Posted
<1>5. dialog # "up" => msgs' = msgs
  BY DEF Viewer!Posted
<1>6. dialog = "up" => Grows(msgs', msgs, e) /\ msgs' \in Seq(Kinds(MaxPins))
  BY <1>1, <1>3, <1>4, AppendIs
<1> QED
  BY <1>2, <1>5, <1>6 DEF Posts_

\* After the destructor's e_set there is no other message of the picture.
LEMMA CalmAfterPost ==
    ASSUME NEW t \in Viewer!Threads, ViewDone(t, "post"), WindowTypes(MaxPins), Calm(Viewer!Threads),
           OnePost(todo, Viewer!Threads), made \in Nat,
           NEW p \in 1 .. MaxPins, p = Head(todo[t]).pic, wnd' = wnd, Grows(msgs', msgs, [kind |-> "e_set", pic |-> p])
    PROVE  Calm(Viewer!Threads)'
<1>1. PICK T : T = Viewer!Threads
  OBVIOUS
<1>2. PICK n : n = Height(todo, t)
  OBVIOUS
<1>3. PICK b : b = n - 1
  OBVIOUS
<1>4. PICK x : x = <<>>
  OBVIOUS
<1>5. PICK e : e = [kind |-> "e_set", pic |-> p]
  OBVIOUS
<1>6. /\ Moved(T, ViewerFrames, MaxPins, t, b, x) /\ n \in Nat /\ n > 0 /\ n \in 1 .. Height(todo, t) /\ t \in T
      /\ Item(todo, t, n).op = "post" /\ Item(todo, t, n).pic = p /\ Placed(todo, T, t, n)
      /\ UNCHANGED <<made, handle, dead, lost>>
  BY <1>1, <1>2, <1>3, <1>4 DEF ViewDone
<1>7. p <= made /\ p \in dead /\ handle[p] # "none"
  BY <1>6 DEF Placed, PicOps
<1>8. PicPlace(todo, T, "post", p)
  BY <1>6 DEF PicPlace
<1>9. p = made
  BY <1>1, <1>7, <1>8 DEF Calm
<1>10. \A i \in DOMAIN msgs : msgs[i].kind # "e_set" /\ msgs[i].pic = made
  BY <1>1, <1>8, <1>9 DEF Calm
<1>11. \A i \in 1 .. Len(x) : FALSE
  BY <1>4
<1>12. ~PicPlace(todo', T, "post", made)
  <2>1. SUFFICES ASSUME NEW u \in T, NEW h \in 1 .. Height(todo', u),
                        Item(todo', u, h).op = "post", Item(todo', u, h).pic = made
                 PROVE  FALSE
    BY DEF PicPlace
  <2>2. Comes(todo, todo', T, t, b, x)
    BY <1>6, MovedIs
  <2>3. h \in 1 .. Height(todo, u) /\ (u = t => h <= b) /\ Item(todo', u, h) = Item(todo, u, h)
    BY <1>11, <2>1, <2>2 DEF Comes
  <2>4. u = t /\ h = n
    BY <1>1, <1>6, <1>9, <2>1, <2>3 DEF OnePost
  <2> QED
    BY <1>3, <1>6, <2>3, <2>4
<1>13. \A q : PicPlace(todo', T, "post", q) => PicPlace(todo, T, "post", q)
  BY <1>6, <1>11, SamePlace
<1>14. wnd = made
  BY <1>1, <1>7, <1>8, <1>9 DEF Calm, Showing
<1>15. Grows(msgs', msgs, e) /\ e.kind = "e_set" /\ e.pic = made
  BY <1>5, <1>9
<1>16. Showing(T)'
  <2>1. Len(msgs') \in DOMAIN msgs' /\ msgs'[Len(msgs')].kind = "e_set"
    BY <1>15 DEF Grows
  <2> QED
    BY <1>6, <1>14, <2>1 DEF Showing
<1>17. ASSUME NEW i \in DOMAIN msgs'
       PROVE  msgs'[i].pic = made /\ (msgs'[i].kind = "e_set" => i = Len(msgs'))
  BY <1>10, <1>15, <1>17 DEF Grows
<1>18. handle[made] # "none" /\ made \in dead
  BY <1>7, <1>9
<1>19. \A q \in 1 .. made - 1 : q \in lost \cup dead /\ ~PicPlace(todo', T, "post", q)
  BY <1>1, <1>13 DEF Calm
<1> QED
  BY <1>1, <1>6, <1>12, <1>16, <1>17, <1>18, <1>19 DEF Calm

\* The destructor posts e_set.
LEMMA PostView ==
    ASSUME ViewInv, NEW t \in Viewer!Threads, Viewer!Post(t)
    PROVE  ViewInv'
<1>1. PICK T : T = Viewer!Threads
  OBVIOUS
<1>2. PICK p : p = Head(todo[t]).pic
  OBVIOUS
<1>3. At(t, "post") /\ Do(t, <<>>) /\ Idle /\ UNCHANGED <<wnd, count, undefined, dialog, hasty>> /\ Viewer!Posted("e_set", p)
  <2>1. Viewer!At(t, "post") /\ Viewer!Do(t, <<>>) /\ Viewer!Others /\ Viewer!Posted("e_set", p)
        /\ UNCHANGED <<wnd, count, undefined, Viewer!phases>>
    BY <1>2 DEF Viewer!Post, Viewer!Pic
  <2>2. UNCHANGED <<dialog, hasty>>
    BY <2>1 DEF Viewer!phases
  <2> QED
    BY <2>1, <2>2, ViewerWords
<1>4. ViewDone(t, "post")
  BY <1>3, IsViewDone DEF PicOps
<1>5. /\ dialog # "exited" /\ WindowTypes(MaxPins) /\ Closed(T) /\ Pictures(T, ViewerFrames, MaxPins)
      /\ OnePost(todo, Viewer!Threads) /\ made \in Nat
  BY <1>1, <1>4, NotExited, ViewParts DEF ViewInv, ViewDone
<1>6. p \in 1 .. MaxPins
  BY <1>2, <1>4, Kinds_ DEF ViewDone, PicOps
<1>7. Posts_("e_set", p)
  BY <1>3, <1>6, IsPosted
<1>8. msgs' \in Seq(Kinds(MaxPins))
  BY <1>5, <1>7 DEF Posts_, WindowTypes
<1>9. WindowTypes(MaxPins)' /\ Pictures(T, ViewerFrames, MaxPins)'
  BY <1>1, <1>3, <1>4, <1>5, <1>8 DEF WindowTypes, Pictures, ViewDone
<1>10. Closed(T)'
  BY <1>1, <1>3, <1>4, <1>5, <1>7 DEF Closed, ViewDone, Posts_
<1>11. ~hasty => undefined = {} /\ (dialog = "up" => Calm(Viewer!Threads))
  BY DEF ViewInv, ViewerInv
<1>12. dialog = "up" /\ Calm(Viewer!Threads) => Calm(Viewer!Threads)'
  BY <1>2, <1>3, <1>4, <1>5, <1>6, <1>7, CalmAfterPost DEF Posts_
<1> QED
  BY <1>1, <1>3, <1>4, <1>5, <1>9, <1>10, <1>11, <1>12 DEF ViewInv, ViewerInv, ViewDone, Ended

\* A step that is not of the window leaves its calls in their places.
LEMMA PinPlaced ==
    ASSUME NEW T, NEW F, NEW M \in Nat, NEW t, NEW b, NEW x, Moved(T, F, M, t, b, x), WindowPlaces(todo, T),
           b < Height(todo, t) \/ Height(todo, t) = 0, Untouched(todo, t, b, x, WindowOps),
           dialog' = dialog, pin' = pin, made' = made, made \in Nat, dead \subseteq dead',
           \A p \in 1 .. made : handle[p] # "none" => handle'[p] # "none"
    PROVE  /\ WindowPlaces(todo, T)' /\ KeptRight(T, t, b, x)
           /\ \A i \in 1 .. Len(x) : Placed(todo, T, t, b + Len(x) + 1 - i)'
<1>1. /\ \A h \in b + 1 .. Height(todo, t) : Item(todo, t, h).op \notin WindowOps
      /\ \A i \in 1 .. Len(x) : x[i].op \notin WindowOps
  BY DEF Untouched
<1>2. b \in Nat /\ t \in T /\ \A u \in T : Height(todo, u) \in Nat
  BY MovedIs
<1>3. Height(todo, t) > 0 => Height(todo, t) \in b + 1 .. Height(todo, t)
  BY <1>2
<1>4. {"set", "vidrel", "destroy", "clear"} \subseteq WindowOps
  BY DEF WindowOps, PicOps, SoloOps
<1>5. KeptRight(T, t, b, x)
  BY <1>1, <1>3, <1>4 DEF KeptRight
<1>6. ASSUME NEW i \in 1 .. Len(x) PROVE Placed(todo, T, t, b + Len(x) + 1 - i)'
  <2>1. Item(todo', t, b + Len(x) + 1 - i) = x[i]
    BY <1>6, MovedIs
  <2>2. x[i].op \notin PicOps \cup SoloOps \cup {"box", "destroy", "rundown"}
    BY <1>1, <1>6 DEF WindowOps
  <2>3. {"create", "run"} \subseteq SoloOps /\ {"set", "vidrel", "post"} \subseteq PicOps
    BY DEF SoloOps, PicOps
  <2> QED
    BY <2>1, <2>2, <2>3 DEF Placed
<1> QED
  BY <1>5, <1>6, WindowKept

\* Whoever has a frame of a pin, or a reference: it is the newest, and the window shows it.
Newest(p) ==
    /\ p = made /\ p \notin dead /\ handle[p] # "none" /\ wnd = made /\ ~Somewhere(todo, Viewer!Threads, {"set"})
    /\ \A i \in DOMAIN msgs : msgs[i].kind # "e_set" /\ msgs[i].pic = made

LEMMA IsNewest ==
    ASSUME ViewInv, Calm(Viewer!Threads), NEW t \in Viewer!Threads, NEW h \in 1 .. Height(todo, t),
           Item(todo, t, h).op \in {"process", "release"}, NEW p, p = Item(todo, t, h).pin
    PROVE  Newest(p)
<1>1. PICK T : T = Viewer!Threads
  OBVIOUS
<1>2. /\ PinTypes(T, ViewerFrames, MaxPins) /\ WindowPlaces(todo, T) /\ made \in Nat /\ made <= MaxPins /\ t \in T
      /\ IsFiniteSet(T) /\ MaxPins \in Nat /\ IsFiniteSet(ViewerFrames)
  BY <1>1, ViewParts, ViewerSizes
<1>3. /\ Known(todo, T) /\ Fresh(T, MaxPins) /\ \A q \in 1 .. MaxPins : HandleIs(T, q)
  BY <1>1, Parts DEF ViewInv, ViewPins
<1>4. Item(todo, t, h).op \in HasPin /\ Item(todo, t, h).op \in NeedOps \cup RefOps /\ Item(todo, t, h).op \notin {"create", "run"}
  BY DEF HasPin, PinOps, FrameOps, NeedOps, RefOps
<1>5. Item(todo, t, h) \in Items(MaxPins, ViewerFrames)
  <2>1. todo \in [T -> Seq(Items(MaxPins, ViewerFrames))]
    BY <1>2 DEF PinTypes
  <2> QED
    BY <1>2, <2>1, HeightIsNat
<1>6. p \in 1 .. MaxPins
  BY <1>4, <1>5, Kinds_
<1>7. p <= made /\ handle[p] # "none"
  BY <1>2, <1>3, <1>4 DEF Known, HasPin
<1>8. p \notin dead
  BY <1>1, <1>2, <1>4, <1>6, Lives DEF ViewInv, ViewPins
<1>9. p \notin lost
  BY <1>3, <1>6, <1>7 DEF HandleIs
<1>10. p = made
  <2>1. ~(p \in 1 .. made - 1)
    BY <1>8, <1>9 DEF Calm
  <2> QED
    BY <1>2, <1>6, <1>7, <2>1
<1>11. ~Somewhere(todo, T, {"set"})
  <2>1. SUFFICES ASSUME NEW u \in T, NEW k \in 1 .. Height(todo, u), Item(todo, u, k).op = "set" PROVE FALSE
    BY DEF Somewhere
  <2>2. Placed(todo, T, u, k)
    BY <1>2 DEF WindowPlaces
  <2>3. k = 3 /\ Item(todo, u, 1).op = "create" /\ Item(todo, u, 1).pin = made
    BY <2>1, <2>2 DEF Placed
  <2>6. todo \in [T -> Seq(Items(MaxPins, ViewerFrames))]
    BY <1>2 DEF PinTypes
  <2>7. Height(todo, u) \in Nat
    BY <2>6, HeightIsNat
  <2>4. 1 \in 1 .. Height(todo, u)
    BY <2>3, <2>7
  <2>8. Item(todo, t, h).pin = made /\ Item(todo, t, h).op \in PinOps \cup FrameOps
    BY <1>4, <1>10 DEF HasPin
  <2>5. t = u /\ h = 1
    BY <1>2, <1>3, <2>3, <2>4, <2>8 DEF Fresh
  <2> QED
    BY <1>4, <2>3, <2>5
<1>12. \A i \in DOMAIN msgs : msgs[i].kind # "e_set" /\ msgs[i].pic = made
  BY <1>8, <1>10 DEF Calm
<1>13. wnd = made
  BY <1>1, <1>8, <1>10, <1>11 DEF Calm, Showing
<1> QED
  BY <1>1, <1>7, <1>8, <1>10, <1>11, <1>12, <1>13 DEF Newest

\* A message about a frame of it.
LEMMA CalmAfterFrame ==
    ASSUME NEW F, NEW M, Calm(Viewer!Threads), PicsKept(Viewer!Threads, F, M), NEW p, Newest(p),
           wnd' = wnd, made' = made, dead' = dead, lost' = lost, handle' = handle,
           Grows(msgs', msgs, [kind |-> "e_update", pic |-> p])
    PROVE  Calm(Viewer!Threads)'
<1>1. PICK e : e = [kind |-> "e_update", pic |-> p]
  OBVIOUS
<1>2. e.kind = "e_update" /\ e.pic = made /\ Grows(msgs', msgs, e)
  BY <1>1 DEF Newest
<1>3. \A i \in DOMAIN msgs' : msgs'[i].kind # "e_set" /\ msgs'[i].pic = made
  BY <1>2 DEF Grows, Newest
<1>4. Showing(Viewer!Threads)'
  BY DEF Showing, Newest
<1>5. \A q \in 1 .. made - 1 : q \in lost \cup dead /\ ~PicPlace(todo', Viewer!Threads, "post", q)
  BY DEF Calm, PicsKept
<1>6. handle[made] # "none"
  BY DEF Newest
<1> QED
  BY <1>3, <1>4, <1>5, <1>6 DEF Calm

\* A frame is drawn, and e_update posted.
LEMMA ProcessView ==
    ASSUME ViewInv, NEW t \in Viewer!Threads, Viewer!Process(t)
    PROVE  ViewInv'
<1>1. PICK T : T = Viewer!Threads
  OBVIOUS
<1>2. PICK q : q = Arg(t)
  OBVIOUS
<1>3. PICK x : x = <<>>
  OBVIOUS
<1>4. PICK b : b = Height(todo, t) - 1
  OBVIOUS
<1>5. /\ At(t, "process") /\ Do(t, x) /\ Idle /\ UNCHANGED <<wnd, count, undefined, dialog, hasty>>
      /\ Viewer!Posted("e_update", q) \/ msgs' = msgs
  <2>1. Viewer!At(t, "process") /\ Viewer!Do(t, <<>>) /\ Viewer!Others /\ (Viewer!Posted("e_update", Viewer!Arg(t)) \/ UNCHANGED msgs)
        /\ UNCHANGED <<wnd, count, undefined, Viewer!phases>>
    BY DEF Viewer!Process
  <2>2. UNCHANGED <<dialog, hasty>>
    BY <2>1 DEF Viewer!phases
  <2>3. Viewer!Arg(t) = q
    BY <1>2, ViewerWords
  <2> QED
    BY <1>3, <2>1, <2>2, <2>3, ViewerWords
<1>6. /\ PinTypes(T, ViewerFrames, MaxPins) /\ WindowTypes(MaxPins) /\ WindowPlaces(todo, T) /\ OnePost(todo, T)
      /\ Pictures(T, ViewerFrames, MaxPins) /\ Closed(T) /\ made \in Nat /\ t \in T /\ IsFiniteSet(T) /\ MaxPins \in Nat
  BY <1>1, ViewParts, ViewerSizes
<1>7. "process" \in HasPin \ ({"create", "run", "release"} \cup LockOps) /\ "process" \notin {"close", "pinstop"}
      /\ "process" \in NeedOps /\ "process" \notin WindowOps /\ "process" \notin Counted_
  BY DEF HasPin, PinOps, FrameOps, LockOps, NeedOps, WindowOps, PicOps, SoloOps, Counted_, RefOps, HoldOps, ReadOps
<1>8. /\ todo[t] # <<>> /\ Head(todo[t]).op = "process" /\ Height(todo, t) \in 1 .. Height(todo, t)
      /\ Item(todo, t, Height(todo, t)) = Head(todo[t])
      /\ \A h \in Height(todo, t) - 1 + 1 .. Height(todo, t) : h = Height(todo, t)
  BY <1>5, <1>6, AtSomewhere
<1>9. /\ x \in Seq(Items(MaxPins, ViewerFrames)) /\ CallsOf(x, q) /\ (\A i \in 1 .. Len(x) : FALSE)
  BY <1>3, NoCalls
<1>10. Moved(T, ViewerFrames, MaxPins, t, b, x) /\ b < Height(todo, t)
  BY <1>4, <1>5, <1>6, <1>8, <1>9, Doing
<1>11. ViewPins'
  <2>1. \A p : SameCounts(T, ViewerFrames, MaxPins, p)
    BY <1>5, <1>6, <1>7, <1>8, <1>9, QuietDo
  <2>2. PinInv(T, Pool, ViewerFrames, MaxPins, {Viewer!UI})
    BY <1>1 DEF ViewInv, ViewPins
  <2>3. {Viewer!UI} \subseteq {Viewer!UI}
    OBVIOUS
  <2>4. PinInv(T, Pool, ViewerFrames, MaxPins, {Viewer!UI})'
    BY <1>2, <1>5, <1>6, <1>7, <1>8, <1>9, <2>1, <2>2, <2>3, QuietStep
  <2> QED
    BY <1>1, <2>4 DEF ViewPins
<1>12. Untouched(todo, t, b, x, WindowOps) /\ Untouched(todo, t, b, x, PicOps)
  BY <1>4, <1>7, <1>8, <1>9 DEF Untouched, WindowOps
<1>13. UNCHANGED <<pin, made, dead, lost, handle>>
  BY <1>5 DEF Idle
<1>14. WindowPlaces(todo, T)'
  BY <1>5, <1>6, <1>10, <1>12, <1>13, PinPlaced
<1>15. PicsKept(T, ViewerFrames, MaxPins)
  BY <1>6, <1>10, <1>12, PicsUntouched
<1>16. dialog # "exited"
  BY <1>6, <1>8, <1>1, NotExited DEF ViewInv
<1>17. q \in 1 .. MaxPins
  <2>1. Head(todo[t]).op \in HasPin
    BY <1>7, <1>8
  <2> QED
    BY <1>2, <1>6, <1>8, <2>1, Top
<1>18. msgs' = msgs \/ Posts_("e_update", q)
  BY <1>5, <1>17, IsPosted
<1>19. msgs' \in Seq(Kinds(MaxPins))
  BY <1>6, <1>18 DEF Posts_, WindowTypes
<1>20. WindowTypes(MaxPins)' /\ Pictures(T, ViewerFrames, MaxPins)'
  BY <1>5, <1>6, <1>13, <1>15, <1>19 DEF WindowTypes, Pictures, PicsKept
<1>21. Closed(T)'
  <2>1. ~Somewhere(todo, T, SoloOps) => ~Somewhere(todo', T, SoloOps)
    BY <1>9, <1>10, SoloNone
  <2> QED
    BY <1>5, <1>6, <1>13, <1>18, <2>1 DEF Closed, Posts_
<1>22. ~hasty => undefined = {} /\ (dialog = "up" => Calm(T))
  BY <1>1 DEF ViewInv, ViewerInv
<1>23. dialog = "up" /\ Calm(T) => Calm(T)'
  <2>1. SUFFICES ASSUME dialog = "up", Calm(T) PROVE Calm(T)'
    OBVIOUS
  <2>2. q = Item(todo, t, Height(todo, t)).pin
    BY <1>2, <1>8 DEF Arg
  <2>3. Newest(q)
    BY <1>1, <1>8, <2>1, <2>2, IsNewest
  <2>4. CASE msgs' = msgs
    BY <1>5, <1>6, <1>13, <1>15, <2>1, <2>4, CalmKept DEF SameShow
  <2>5. CASE Posts_("e_update", q)
    BY <1>1, <1>5, <1>13, <1>15, <2>1, <2>3, <2>5, CalmAfterFrame DEF Posts_
  <2> QED
    BY <1>18, <2>4, <2>5
<1> QED
  BY <1>1, <1>5, <1>11, <1>14, <1>15, <1>16, <1>20, <1>21, <1>22, <1>23 DEF ViewInv, ViewerInv, PicsKept, Ended

-----------------------------------------------------------------------------
\* The steps of a pin that the window does not hear of.
Steadily ==
    /\ UNCHANGED <<pin, made, dead, lost>>
    /\ \A p \in 1 .. made : handle[p] # "none" => handle'[p] # "none"
SameScreen == UNCHANGED <<wnd, count, msgs, undefined, dialog, hasty>>

LEMMA QuietView ==
    ASSUME ViewInv, ViewPins', NEW t, Untouching(Viewer!Threads, ViewerFrames, MaxPins, t, WindowOps),
           Steadily, SameScreen, dialog # "exited"
    PROVE  ViewInv'
<1>1. PICK T : T = Viewer!Threads
  OBVIOUS
<1>2. PICK b, x : /\ Moved(T, ViewerFrames, MaxPins, t, b, x) /\ (b < Height(todo, t) \/ Height(todo, t) = 0)
                  /\ Untouched(todo, t, b, x, WindowOps)
  BY <1>1 DEF Untouching
<1>3. Untouched(todo, t, b, x, PicOps) /\ \A i \in 1 .. Len(x) : x[i].op \notin SoloOps
  <2>1. PicOps \subseteq WindowOps /\ SoloOps \subseteq WindowOps
    BY DEF WindowOps
  <2> QED
    BY <1>2, <2>1 DEF Untouched
<1>4. /\ WindowPlaces(todo, T) /\ made \in Nat /\ MaxPins \in Nat /\ Closed(T)
  BY <1>1, ViewParts, ViewerSizes
<1>5. /\ dialog' = dialog /\ pin' = pin /\ made' = made /\ dead \subseteq dead' /\ lost \subseteq lost'
      /\ \A p \in 1 .. made : handle[p] # "none" => handle'[p] # "none"
  BY DEF Steadily, SameScreen
<1>6. /\ KeptRight(T, t, b, x)
      /\ \A i \in 1 .. Len(x) : Placed(todo, T, t, b + Len(x) + 1 - i)'
  BY <1>2, <1>4, <1>5, PinPlaced
<1>7. dialog # "up" => pin' = 0
  BY <1>4, <1>5 DEF Closed
<1>8. UNCHANGED <<count, undefined, dialog, hasty>> /\ SameShow
  BY DEF SameScreen, SameShow, Steadily
<1>9. ViewerInv(T, ViewerFrames, MaxPins)
  BY <1>1 DEF ViewInv
<1>10. ViewerInv(T, ViewerFrames, MaxPins)'
  BY <1>2, <1>3, <1>4, <1>5, <1>6, <1>7, <1>8, <1>9, ViewerQuiet
<1> QED
  BY <1>1, <1>10 DEF ViewInv

\* The pin's own calls.
LEMMA OwnSteady ==
    ASSUME NEW T, NEW F, NEW M \in Nat, PinTypes(T, F, M), NEW t, Own_(t)
    PROVE  Steadily
<1>1. handle \in [1 .. M -> {"none", "open", "closing", "closed"}] /\ made \in 0 .. M
  BY DEF PinTypes
<1>2. PICK q : q = Arg(t)
  OBVIOUS
<1>3. CASE Unlock(t)
  <2>1. UNCHANGED <<pin, made, dead, lost>> /\ (handle' = handle \/ handle' = [handle EXCEPT ![q] = "closed"])
    BY <1>2, <1>3 DEF Unlock
  <2>2. ASSUME NEW p \in 1 .. made, handle[p] # "none" PROVE handle'[p] # "none"
    <3>1. p \in 1 .. M
      BY <1>1
    <3>2. CASE handle' = handle
      BY <2>2, <3>2
    <3>3. CASE handle' = [handle EXCEPT ![q] = "closed"]
      BY <1>1, <2>2, <3>1, <3>3
    <3> QED
      BY <2>1, <3>2, <3>3
  <2> QED
    BY <2>1, <2>2 DEF Steadily
<1>4. CASE Close(t)
  <2>1. UNCHANGED <<pin, made, dead, lost>> /\ (handle' = handle \/ handle' = [handle EXCEPT ![q] = "closing"])
    BY <1>2, <1>4 DEF Close
  <2>2. ASSUME NEW p \in 1 .. made, handle[p] # "none" PROVE handle'[p] # "none"
    <3>1. p \in 1 .. M
      BY <1>1
    <3>2. CASE handle' = handle
      BY <2>2, <3>2
    <3>3. CASE handle' = [handle EXCEPT ![q] = "closing"]
      BY <1>1, <2>2, <3>1, <3>3
    <3> QED
      BY <2>1, <3>2, <3>3
  <2> QED
    BY <2>1, <2>2 DEF Steadily
<1>5. CASE ~Unlock(t) /\ ~Close(t)
  <2>1. Read(t) \/ IssueRead(t) \/ Ioctl(t) \/ PushFrame(t) \/ SetState(t) \/ SetStop(t)
    BY <1>5 DEF Own_
  <2>2. UNCHANGED <<pin, made, dead, lost, handle>>
    BY <2>1 DEF Read, IssueRead, Ioctl, PushFrame, SetState, SetStop
  <2> QED
    BY <2>2 DEF Steadily
<1> QED
  BY <1>3, <1>4, <1>5

LEMMA OwnView ==
    ASSUME ViewInv, NEW t \in Viewer!Threads, Own_(t), SameScreen
    PROVE  ViewInv'
<1>1. PICK T : T = Viewer!Threads
  OBVIOUS
<1>2. /\ PinTypes(T, ViewerFrames, MaxPins) /\ IsFiniteSet(T) /\ IsFiniteSet(Pool) /\ IsFiniteSet(ViewerFrames)
      /\ MaxPins \in Nat /\ Reads \in Int /\ t \in T
  BY <1>1, ViewParts, ViewerSizes
<1>3. PinInv(T, Pool, ViewerFrames, MaxPins, {Viewer!UI}) /\ ViewerInv(T, ViewerFrames, MaxPins)
  BY <1>1 DEF ViewInv, ViewPins
<1>4. PinInv(T, Pool, ViewerFrames, MaxPins, {Viewer!UI})'
  BY <1>2, <1>3, OwnPinStep
<1>5. Untouching(T, ViewerFrames, MaxPins, t, WindowOps)
  <2>1. WindowOps \cap OwnOps = {}
    BY DEF WindowOps, OwnOps, PicOps, SoloOps, HasPin, PinOps, FrameOps
  <2> QED
    BY <1>2, <1>3, <2>1, OwnMoved, OwnUntouching
<1>6. todo[t] # <<>>
  BY DEF Own_, Read, IssueRead, Ioctl, Unlock, PushFrame, SetState, SetStop, Close, At
<1>7. dialog # "exited"
  BY <1>2, <1>3, <1>6, NotExited
<1>8. Steadily
  BY <1>2, OwnSteady
<1> QED
  BY <1>1, <1>4, <1>5, <1>7, <1>8, QuietView DEF ViewPins

\* The request or the read failed: the pin is closed.  Or it was not the last reference.
Closes(q) == <<On("close", q)>>
Answers(t, x) ==
    /\ todo[t] # <<>>
    /\ \/ NoRequest(t, x) \/ ReadFailed(t, x)
       \/ refs[Arg(t)] # 1 /\ Release(t, x)
ClosesQuietly(x, M, F, q) == QuietCalls(x, M, F, q) /\ \A i \in 1 .. Len(x) : x[i].op \notin WindowOps

LEMMA ClosesIs ==
    ASSUME NEW M, NEW F, NEW q \in 1 .. M, NEW x, x = Closes(q) \/ x = <<>>
    PROVE  ClosesQuietly(x, M, F, q)
<1>1. PICK c : c = On("close", q)
  OBVIOUS
<1>2. c.op = "close" /\ c.pin = q /\ c \in Items(M, F)
  BY <1>1, OnIs, OnItem DEF PinOps
<1>3. "close" \notin SoloOps \cup {"push", "process"} \cup NeedOps \cup Counted_ \cup LockOps \cup WindowOps
  BY DEF SoloOps, NeedOps, Counted_, LockOps, WindowOps, PicOps, RefOps, HoldOps, ReadOps
<1>4. CASE x = <<>>
  <2>1. x \in Seq(Items(M, F)) /\ \A i \in 1 .. Len(x) : FALSE
    BY <1>4
  <2> QED
    BY <2>1 DEF ClosesQuietly, QuietCalls, CallsOf, Needless
<1>5. CASE x = <<c>>
  <2>1. x \in Seq(Items(M, F)) /\ \A i \in 1 .. Len(x) : x[i] = c
    BY <1>2, <1>5
  <2> QED
    BY <1>2, <1>3, <2>1 DEF ClosesQuietly, QuietCalls, CallsOf, Needless
<1> QED
  BY <1>1, <1>4, <1>5 DEF Closes

LEMMA AnswerView ==
    ASSUME ViewInv, NEW t \in Viewer!Threads, NEW x, x = Closes(Arg(t)) \/ x = <<>>, Answers(t, x), SameScreen
    PROVE  ViewInv'
<1>1. PICK T : T = Viewer!Threads
  OBVIOUS
<1>2. /\ PinTypes(T, ViewerFrames, MaxPins) /\ IsFiniteSet(T) /\ IsFiniteSet(Pool) /\ IsFiniteSet(ViewerFrames)
      /\ MaxPins \in Nat /\ Reads \in Int /\ t \in T /\ made \in Nat
  BY <1>1, ViewParts, ViewerSizes
<1>3. PinInv(T, Pool, ViewerFrames, MaxPins, {Viewer!UI}) /\ ViewerInv(T, ViewerFrames, MaxPins)
  BY <1>1 DEF ViewInv, ViewPins
<1>4. PICK op \in {"read", "fail", "release"} : At(t, op)
  BY DEF Answers, NoRequest, ReadFailed, Release
<1>5. PICK q : q = Arg(t)
  OBVIOUS
<1>6. q \in 1 .. MaxPins
  <2>1. op \in HasPin
    BY DEF HasPin, PinOps, FrameOps
  <2> QED
    BY <1>2, <1>3, <1>4, <1>5, <2>1, AtCall
<1>7. ClosesQuietly(x, MaxPins, ViewerFrames, q)
  BY <1>5, <1>6, ClosesIs
<1>8. QuietCalls(x, MaxPins, ViewerFrames, Arg(t)) /\ x \in Seq(Items(MaxPins, ViewerFrames))
      /\ \A i \in 1 .. Len(x) : x[i].op \notin WindowOps
  BY <1>5, <1>7 DEF ClosesQuietly, QuietCalls
<1>9. PinInv(T, Pool, ViewerFrames, MaxPins, {Viewer!UI})'
  <2>1. CASE NoRequest(t, x)
    BY <1>2, <1>3, <1>8, <2>1, NoRequestStep
  <2>2. CASE ReadFailed(t, x)
    BY <1>2, <1>3, <1>8, <2>2, ReadFailedStep
  <2>3. CASE Release(t, x)
    BY <1>2, <1>3, <1>8, <2>3, ReleaseStep
  <2> QED
    BY <2>1, <2>2, <2>3 DEF Answers
<1>10. WindowOps \cap OwnOps = {}
  BY DEF WindowOps, OwnOps, PicOps, SoloOps, HasPin, PinOps, FrameOps
<1>11. todo[t] # <<>> /\ (NoRequest(t, x) \/ ReadFailed(t, x) \/ Release(t, x))
  BY DEF Answers
<1>12. Untouching(T, ViewerFrames, MaxPins, t, WindowOps)
  BY <1>2, <1>3, <1>5, <1>8, <1>10, <1>11, AnswerUntouching
<1>13. Steadily
  BY DEF Answers, NoRequest, ReadFailed, Release, Steadily
<1>14. dialog # "exited"
  BY <1>2, <1>3, <1>11, NotExited
<1> QED
  BY <1>1, <1>9, <1>12, <1>13, <1>14, QuietView DEF ViewPins

\* A read completes.
LEMMA FrameUntouching ==
    ASSUME NEW T, IsFiniteSet(T), NEW F, NEW M \in Nat, PinTypes(T, F, M), NEW t \in T, todo[t] = <<>>,
           NEW p, NEW f, NEW y, FrameCalls(y, M, F, p, f), todo' = [todo EXCEPT ![t] = y]
    PROVE  Untouching(T, F, M, t, WindowOps)
<1>1. /\ y \in Seq(Items(M, F))
      /\ \A i \in 1 .. Len(y) : y[i].op \in HasPin \ (SoloOps \cup LockOps)
  BY DEF FrameCalls
<1>2. Moved(T, F, M, t, 0, y) /\ Height(todo, t) = 0
  BY <1>1, Idles
<1>3. \A i \in 1 .. Len(y) : y[i].op \notin WindowOps
  <2>1. WindowOps \cap HasPin \subseteq SoloOps
    BY DEF WindowOps, HasPin, PicOps, SoloOps, PinOps, FrameOps
  <2> QED
    BY <1>1, <2>1
<1>4. \A h \in 0 + 1 .. Height(todo, t) : FALSE
  BY <1>2
<1>5. Untouched(todo, t, 0, y, WindowOps)
  BY <1>3, <1>4 DEF Untouched
<1> QED
  BY <1>2, <1>5 DEF Untouching

LEMMA ReadDoneView ==
    ASSUME ViewInv, NEW t \in Pool, ReadDone(t), SameScreen
    PROVE  ViewInv'
<1>1. PICK T : T = Viewer!Threads
  OBVIOUS
<1>2. /\ PinTypes(T, ViewerFrames, MaxPins) /\ IsFiniteSet(T) /\ IsFiniteSet(Pool) /\ IsFiniteSet(ViewerFrames)
      /\ MaxPins \in Nat /\ Reads \in Int /\ t \in T /\ Pool \in SUBSET T /\ made \in Nat /\ made <= MaxPins
  BY <1>1, ViewParts, ViewerSizes
<1>3. PinInv(T, Pool, ViewerFrames, MaxPins, {Viewer!UI})
  BY <1>1 DEF ViewInv, ViewPins
<1>4. PinInv(T, Pool, ViewerFrames, MaxPins, {Viewer!UI})'
  BY <1>2, <1>3, ReadDoneStep
<1>5. PICK p, f, y : /\ p \in 1 .. made /\ f \in posted[p] /\ (y = Completion(p, f) \/ y = <<With("fail", p, f)>>)
                     /\ todo' = [todo EXCEPT ![t] = y]
  BY DEF ReadDone
<1>6. p \in 1 .. MaxPins /\ f \in ViewerFrames
  BY <1>2, <1>5 DEF PinTypes
<1>7. FrameCalls(y, MaxPins, ViewerFrames, p, f)
  BY <1>5, <1>6, FailedCalls, CompletionCalls
<1>8. todo[t] = <<>> /\ Steadily
  BY DEF ReadDone, Steadily
<1>9. Untouching(T, ViewerFrames, MaxPins, t, WindowOps)
  BY <1>2, <1>5, <1>7, <1>8, FrameUntouching
<1>10. dialog # "exited"
  <2>1. SUFFICES ASSUME dialog = "exited" PROVE FALSE
    OBVIOUS
  <2>2. Ended(T)
    BY <1>1, ViewParts
  <2>3. p \in dead
    BY <1>5, <2>1, <2>2 DEF Ended
  <2>4. Outlives(T)
    BY <1>2, <1>3, PinsOutlive
  <2>5. posted[p] = {}
    BY <2>3, <2>4 DEF Outlives
  <2> QED
    BY <1>5, <2>5
<1> QED
  BY <1>1, <1>4, <1>8, <1>9, <1>10, QuietView DEF ViewPins

\* The dialog's pin is forgotten, after it was stopped and released.
LEMMA ClearView ==
    ASSUME ViewInv, NEW t \in Viewer!Threads, Clear(t), SameScreen
    PROVE  ViewInv'
<1>1. PICK T : T = Viewer!Threads
  OBVIOUS
<1>2. /\ PinTypes(T, ViewerFrames, MaxPins) /\ IsFiniteSet(T) /\ MaxPins \in Nat /\ t \in T /\ made \in Nat
      /\ WindowPlaces(todo, T)
  BY <1>1, ViewParts, ViewerSizes
<1>3. PinInv(T, Pool, ViewerFrames, MaxPins, {Viewer!UI}) /\ ViewerInv(T, ViewerFrames, MaxPins)
  BY <1>1 DEF ViewInv, ViewPins
<1>4. PinInv(T, Pool, ViewerFrames, MaxPins, {Viewer!UI})'
  BY <1>2, <1>3, ClearStep
<1>5. PICK x : x = <<>>
  OBVIOUS
<1>6. PICK b : b = Height(todo, t) - 1
  OBVIOUS
<1>7. At(t, "clear") /\ Do(t, x) /\ pin' = 0 /\ UNCHANGED <<made, handle, dead, lost>>
  BY <1>5 DEF Clear, NoPin
<1>8. /\ todo[t] # <<>> /\ Height(todo, t) \in 1 .. Height(todo, t)
      /\ Item(todo, t, Height(todo, t)).op = "clear"
      /\ \A h \in b + 1 .. Height(todo, t) : h = Height(todo, t)
  BY <1>2, <1>6, <1>7, AtSomewhere
<1>9. x \in Seq(Items(MaxPins, ViewerFrames)) /\ Len(x) = 0 /\ \A i \in 1 .. Len(x) : FALSE
  BY <1>5
<1>10. Moved(T, ViewerFrames, MaxPins, t, b, x) /\ b < Height(todo, t)
  BY <1>2, <1>6, <1>7, <1>8, <1>9, Doing
<1>11. Untouched(todo, t, b, x, PicOps)
  BY <1>8, <1>9 DEF Untouched, PicOps
<1>12. UNCHANGED <<count, undefined, dialog, hasty>> /\ SameShow /\ dialog' = dialog
  BY <1>7 DEF SameScreen, SameShow
<1>13. KeptRight(T, t, b, x)
  BY <1>2, <1>7, <1>8, <1>9, <1>10, <1>12 DEF KeptRight
<1>14. dialog # "exited"
  BY <1>2, <1>3, <1>8, NotExited
<1>15. ViewerInv(T, ViewerFrames, MaxPins)'
  BY <1>2, <1>3, <1>7, <1>9, <1>10, <1>11, <1>12, <1>13, <1>14, ViewerQuiet
<1> QED
  BY <1>1, <1>4, <1>15 DEF ViewInv, ViewPins

\* The pin that is opened: it is the dialog's thread that opens it, with nothing below
\* but the call itself.
OpensAlone(T, t) ==
    /\ t = Viewer!UI /\ Height(todo, t) = 1 /\ dialog = "up"
    /\ ~Somewhere(todo, T, {"destroy"}) /\ ~Somewhere(todo, T, {"set"}) /\ pin = 0

LEMMA IsOpenAlone ==
    ASSUME ViewInv, NEW t \in Viewer!Threads, NEW op \in {"create", "run"}, At(t, op)
    PROVE  OpensAlone(Viewer!Threads, t)
<1>1. PICK T : T = Viewer!Threads
  OBVIOUS
<1>2. /\ PinTypes(T, ViewerFrames, MaxPins) /\ IsFiniteSet(T) /\ MaxPins \in Nat /\ t \in T /\ made \in Nat
      /\ WindowPlaces(todo, T) /\ Closed(T)
  BY <1>1, ViewParts, ViewerSizes
<1>3. PICK n : n = Height(todo, t)
  OBVIOUS
<1>4. /\ n \in 1 .. Height(todo, t) /\ Item(todo, t, n).op = op
  BY <1>2, <1>3, AtSomewhere
<1>5. Placed(todo, T, t, n)
  BY <1>2, <1>4 DEF WindowPlaces
<1>6. op \in SoloOps
  BY DEF SoloOps
<1>7. t = Viewer!UI /\ n = 1
  BY <1>4, <1>5 DEF Placed
<1>8. Somewhere(todo, T, SoloOps)
  BY <1>2, <1>4, <1>6 DEF Somewhere
<1>9. dialog = "up"
  BY <1>2, <1>8 DEF Closed
<1>10. \A h \in 1 .. Height(todo, t) : Item(todo, t, h).op = op
  <2>1. \A h \in 1 .. 1 : h = 1
    OBVIOUS
  <2> QED
    BY <1>3, <1>4, <1>7, <2>1
<1>11. ~Somewhere(todo, T, {"destroy"})
  <2>1. \A h \in 1 .. Height(todo, t) : Item(todo, t, h).op \notin {"destroy"}
    BY <1>10
  <2> QED
    BY <1>2, <1>7, <2>1, UIAlone
<1>12. ~Somewhere(todo, T, {"set"})
  <2>1. \A h \in 1 .. Height(todo, t) : Item(todo, t, h).op \notin {"set"}
    BY <1>10
  <2> QED
    BY <1>2, <1>7, <2>1, UIAlone
<1>13. pin = 0
  <2>1. PinInv(T, Pool, ViewerFrames, MaxPins, {Viewer!UI})
    BY <1>1 DEF ViewInv, ViewPins
  <2>2. PICK q : q = Arg(t)
    OBVIOUS
  <2>3. Opens(T, ViewerFrames, MaxPins, t, op, q)
    BY <1>2, <2>1, <2>2, IsOpening
  <2> QED
    BY <2>3 DEF Opens
<1> QED
  BY <1>1, <1>3, <1>7, <1>9, <1>11, <1>12, <1>13 DEF OpensAlone

\* What is called next: run, the reads, or release and the message box.
OpensCalls(x) == \A i \in 1 .. Len(x) :
    \/ x[i].op = "run" /\ Len(x) = 1
    \/ x[i].op = "box" /\ i = Len(x)
    \/ x[i].op \in {"read", "release"}

LEMMA OpenedView ==
    ASSUME ViewInv, ViewPins', NEW t \in Viewer!Threads, NEW op \in {"create", "run"}, At(t, op),
           NEW x \in Seq(Items(MaxPins, ViewerFrames)), Do(t, x), OpensCalls(x), SameScreen,
           made' = made, dead' = dead, lost \subseteq lost',
           \A p \in 1 .. made : handle[p] # "none" => handle'[p] # "none"
    PROVE  ViewInv'
<1>1. PICK T : T = Viewer!Threads
  OBVIOUS
<1>2. /\ PinTypes(T, ViewerFrames, MaxPins) /\ IsFiniteSet(T) /\ MaxPins \in Nat /\ t \in T /\ made \in Nat
      /\ WindowPlaces(todo, T) /\ made' \in Nat
  BY <1>1, ViewParts, ViewerSizes
<1>3. ViewerInv(T, ViewerFrames, MaxPins)
  BY <1>1 DEF ViewInv
<1>4. OpensAlone(T, t)
  BY <1>1, IsOpenAlone
<1>5. PICK b : b = Height(todo, t) - 1
  OBVIOUS
<1>6. b = 0 /\ Height(todo, t) = 1 /\ t = Viewer!UI
  BY <1>4, <1>5 DEF OpensAlone
<1>7. /\ todo[t] # <<>> /\ Height(todo, t) \in 1 .. Height(todo, t)
      /\ Item(todo, t, Height(todo, t)).op = op
      /\ \A h \in b + 1 .. Height(todo, t) : h = Height(todo, t)
  BY <1>2, <1>5, AtSomewhere
<1>8. Moved(T, ViewerFrames, MaxPins, t, b, x) /\ b < Height(todo, t)
  BY <1>2, <1>5, <1>7, Doing
<1>9. \A i \in 1 .. Len(x) : x[i].op \in {"run", "box", "read", "release"}
  BY DEF OpensCalls
<1>10. Untouched(todo, t, b, x, PicOps)
  BY <1>7, <1>9 DEF Untouched, PicOps
<1>11. UNCHANGED <<count, undefined, dialog, hasty>> /\ SameShow /\ dialog' = dialog
  BY DEF SameScreen, SameShow
<1>12. ~Somewhere(todo, T, {"destroy"}) /\ dialog = "up"
  BY <1>4 DEF OpensAlone
<1>13. Item(todo, t, Height(todo, t)).op \notin {"set", "vidrel"}
       /\ \A h \in b + 1 .. Height(todo, t) : Item(todo, t, h).op # "destroy"
  BY <1>7
<1>14. KeptRight(T, t, b, x)
  BY <1>2, <1>8, <1>11, <1>12, <1>13 DEF KeptRight
<1>15. ASSUME NEW i \in 1 .. Len(x) PROVE Placed(todo, T, t, b + Len(x) + 1 - i)'
  <2>1. PICK h : h = b + Len(x) + 1 - i
    OBVIOUS
  <2>2. Item(todo', t, h) = x[i]
    BY <1>8, <2>1, MovedIs
  <2>3. x[i].op \in {"run", "box"} => h = 1
    <3>1. Len(x) \in Nat
      OBVIOUS
    <3>2. x[i].op \in {"run", "box"} => i = Len(x)
      BY <3>1 DEF OpensCalls
    <3> QED
      BY <1>6, <2>1, <3>1, <3>2
  <2>4. x[i].op \in {"run", "box", "read", "release"}
    BY <1>9
  <2>5. Placed(todo, T, t, h)'
    BY <1>6, <2>2, <2>3, <2>4 DEF Placed, PicOps, SoloOps
  <2> QED
    BY <2>1, <2>5
<1>16. ViewerInv(T, ViewerFrames, MaxPins)'
  BY <1>2, <1>3, <1>8, <1>10, <1>11, <1>12, <1>14, <1>15, ViewerQuiet
<1> QED
  BY <1>1, <1>16 DEF ViewInv

\* Create, and SetState, with a message box when they fail.
LEMMA CreateView ==
    ASSUME ViewInv, NEW t \in Viewer!Threads, Creates(ViewerFrames, t, Call("box")), SameScreen
    PROVE  ViewInv'
<1>1. PICK T : T = Viewer!Threads
  OBVIOUS
<1>2. /\ PinTypes(T, ViewerFrames, MaxPins) /\ IsFiniteSet(T) /\ MaxPins \in Nat /\ t \in T /\ made \in Nat
      /\ Reads \in Nat /\ Pool \in SUBSET T /\ made <= MaxPins
  BY <1>1, ViewParts, ViewerSizes
<1>3. PinInv(T, Pool, ViewerFrames, MaxPins, {Viewer!UI})
  BY <1>1 DEF ViewInv, ViewPins
<1>4. PICK e : e = Call("box")
  OBVIOUS
<1>5. e \in Items(MaxPins, ViewerFrames) /\ e.op = "box" /\ e.op \in PlainOps \ {"clear"}
  BY <1>4, CallIs, CallItem DEF PlainOps
<1>6. PinInv(T, Pool, ViewerFrames, MaxPins, {Viewer!UI})'
  BY <1>2, <1>3, <1>4, <1>5, CreateStep
<1>7. PICK q : q = Arg(t)
  OBVIOUS
<1>8. At(t, "create") /\ UNCHANGED <<made, dead>> /\ lost \subseteq lost'
  BY DEF Creates
<1>9. q \in 1 .. MaxPins
  <2>1. "create" \in HasPin
    BY DEF HasPin, PinOps
  <2> QED
    BY <1>2, <1>3, <1>7, <1>8, <2>1, AtCall
<1>10. PICK c : c = On("run", q)
  OBVIOUS
<1>11. c.op = "run" /\ c \in Items(MaxPins, ViewerFrames)
  BY <1>9, <1>10, OnIs, OnItem DEF PinOps
<1>12. PICK x : (x = <<c>> \/ x = <<e>>) /\ Do(t, x)
  BY <1>4, <1>7, <1>10 DEF Creates
<1>13. x \in Seq(Items(MaxPins, ViewerFrames)) /\ OpensCalls(x)
  <2>1. PICK d \in {c, e} : x = <<d>>
    BY <1>12
  <2>2. d \in Items(MaxPins, ViewerFrames) /\ d.op \in {"run", "box"}
    BY <1>5, <1>11
  <2>3. x \in Seq(Items(MaxPins, ViewerFrames)) /\ Len(x) = 1 /\ x[1] = d
    BY <2>1, <2>2
  <2>4. \A i \in 1 .. Len(x) : i = 1
    BY <2>3
  <2> QED
    BY <2>2, <2>3, <2>4 DEF OpensCalls
<1>14. ASSUME NEW p \in 1 .. made, handle[p] # "none" PROVE handle'[p] # "none"
  <2>1. p \in 1 .. MaxPins
    BY <1>2
  <2>2. handle' = handle \/ handle' = [handle EXCEPT ![q] = "open"]
    BY <1>7 DEF Creates
  <2>3. handle \in [1 .. MaxPins -> {"none", "open", "closing", "closed"}]
    BY <1>2 DEF PinTypes
  <2> QED
    BY <1>14, <2>1, <2>2, <2>3
<1>15. ViewPins'
  BY <1>1, <1>6 DEF ViewPins
<1> QED
  BY <1>8, <1>12, <1>13, <1>14, <1>15, OpenedView

LEMMA RunView ==
    ASSUME ViewInv, NEW t \in Viewer!Threads, Run(t, <<On("release", Arg(t)), Call("box")>>), SameScreen
    PROVE  ViewInv'
<1>1. PICK T : T = Viewer!Threads
  OBVIOUS
<1>2. /\ PinTypes(T, ViewerFrames, MaxPins) /\ IsFiniteSet(T) /\ MaxPins \in Nat /\ t \in T /\ made \in Nat
      /\ Reads \in Nat /\ Pool \in SUBSET T /\ made <= MaxPins
  BY <1>1, ViewParts, ViewerSizes
<1>3. PinInv(T, Pool, ViewerFrames, MaxPins, {Viewer!UI})
  BY <1>1 DEF ViewInv, ViewPins
<1>4. PICK e : e = Call("box")
  OBVIOUS
<1>5. e \in Items(MaxPins, ViewerFrames) /\ e.op = "box" /\ e.op \in PlainOps \ {"clear"}
  BY <1>4, CallIs, CallItem DEF PlainOps
<1>6. At(t, "run") /\ UNCHANGED <<made, dead, lost, handle>>
  BY DEF Run
<1>7. t = Viewer!UI
  BY <1>6, IsOpenAlone DEF OpensAlone
<1>8. PinInv(T, Pool, ViewerFrames, MaxPins, {Viewer!UI})'
  <2>1. t \in {Viewer!UI}
    BY <1>7
  <2> QED
    BY <1>2, <1>3, <1>4, <1>5, <2>1, RunStep
<1>9. PICK q : q = Arg(t)
  OBVIOUS
<1>10. q \in 1 .. MaxPins
  <2>1. "run" \in HasPin
    BY DEF HasPin, PinOps
  <2> QED
    BY <1>2, <1>3, <1>6, <1>9, <2>1, AtCall
<1>11. PICK c : c = On("release", q)
  OBVIOUS
<1>12. c.op = "release" /\ c \in Items(MaxPins, ViewerFrames)
  BY <1>10, <1>11, OnIs, OnItem DEF PinOps
<1>13. PICK x : (x = <<c, e>> \/ x = [i \in 1 .. Posts |-> On("read", q)]) /\ Do(t, x)
  BY <1>4, <1>9, <1>11 DEF Run
<1>14. x \in Seq(Items(MaxPins, ViewerFrames)) /\ OpensCalls(x)
  <2>1. CASE x = <<c, e>>
    <3>1. x \in Seq(Items(MaxPins, ViewerFrames)) /\ Len(x) = 2 /\ x[1] = c /\ x[2] = e
      BY <1>5, <1>12, <2>1
    <3>2. \A i \in 1 .. Len(x) : i = 1 \/ i = 2
      BY <3>1
    <3> QED
      BY <1>5, <1>12, <3>1, <3>2 DEF OpensCalls
  <2>2. CASE x = [i \in 1 .. Posts |-> On("read", q)]
    <3>1. ForReads(x, MaxPins, ViewerFrames, q)
      BY <1>2, <1>10, <2>2, ReadsGiven
    <3>2. On("read", q).op = "read"
      BY OnIs
    <3> QED
      BY <3>1, <3>2 DEF ForReads, OpensCalls
  <2> QED
    BY <1>13, <2>1, <2>2
<1>15. ViewPins'
  BY <1>1, <1>8 DEF ViewPins
<1> QED
  BY <1>6, <1>13, <1>14, <1>15, OpenedView

-----------------------------------------------------------------------------
\* The dialog stops its pin, or is closed, or both.
Leaving(x, M, F, q) ==
    /\ x \in Seq(Items(M, F)) /\ Len(x) \in {4, 6}
    /\ x[1].op = "setstate" /\ x[2].op = "close" /\ x[3].op = "release" /\ x[4].op = "clear"
    /\ x[1].pin = q /\ x[2].pin = q /\ x[3].pin = q
    /\ Len(x) = 6 => x[5].op = "destroy" /\ x[6].op = "rundown"
Closing(x, M, F) == x \in Seq(Items(M, F)) /\ Len(x) = 2 /\ x[1].op = "destroy" /\ x[2].op = "rundown"

LEMMA IsClosing ==
    ASSUME NEW M, NEW F, NEW x, x = <<Call("destroy"), Call("rundown")>>
    PROVE  Closing(x, M, F)
<1>1. PICK d, r : d = Call("destroy") /\ r = Call("rundown")
  OBVIOUS
<1>2. d.op = "destroy" /\ r.op = "rundown" /\ d \in Items(M, F) /\ r \in Items(M, F)
  <2>1. "destroy" \in PlainOps /\ "rundown" \in PlainOps
    BY DEF PlainOps
  <2> QED
    BY <1>1, <2>1, CallIs, CallItem
<1>3. x = <<d, r>>
  BY <1>1
<1>4. x \in Seq(Items(M, F)) /\ Len(x) = 2 /\ x[1] = d /\ x[2] = r
  BY <1>2, <1>3
<1> QED
  BY <1>2, <1>4 DEF Closing

\* One list of calls after the other.
JoinOf(S, s, n, r, m, y) ==
    /\ y \in Seq(S) /\ Len(y) = n + m
    /\ \A i \in 1 .. n : y[i] = s[i]
    /\ \A i \in 1 .. m : y[n + i] = r[i]

LEMMA Joined ==
    ASSUME NEW S, NEW s \in Seq(S), NEW r \in Seq(S), NEW n, n = Len(s), NEW m, m = Len(r), NEW y, y = s \o r
    PROVE  JoinOf(S, s, n, r, m, y)
<1>1. Len(s) \in Nat /\ Len(r) \in Nat
  OBVIOUS
<1>2. y \in Seq(S) /\ Len(y) = Len(s) + Len(r)
  BY ConcatProperties
<1>3. \A i \in 1 .. Len(s) + Len(r) : y[i] = IF i <= Len(s) THEN s[i] ELSE r[i - Len(s)]
  BY ConcatProperties
<1>4. ASSUME NEW i \in 1 .. Len(s) PROVE y[i] = s[i]
  BY <1>1, <1>3
<1>5. ASSUME NEW i \in 1 .. Len(r) PROVE y[Len(s) + i] = r[i]
  <2>1. Len(s) + i \in 1 .. Len(s) + Len(r) /\ ~(Len(s) + i <= Len(s)) /\ (Len(s) + i) - Len(s) = i
    BY <1>1
  <2> QED
    BY <1>3, <2>1
<1> QED
  BY <1>2, <1>4, <1>5 DEF JoinOf

\* The calls of the dialog when it stops its pin, with those that close it or without.
LEMMA IsLeaving ==
    ASSUME NEW M, NEW F, NEW q \in 1 .. M, NEW e, e = <<>> \/ e = <<Call("destroy"), Call("rundown")>>,
           NEW x, x = (StopCalls(q) \o <<On("release", q), Call("clear")>>) \o e
    PROVE  Leaving(x, M, F, q)
<1>1. PICK a, c, r, l : a = On("setstate", q) /\ c = On("close", q) /\ r = On("release", q) /\ l = Call("clear")
  OBVIOUS
<1>2. /\ a.op = "setstate" /\ a.pin = q /\ c.op = "close" /\ c.pin = q /\ r.op = "release" /\ r.pin = q /\ l.op = "clear"
      /\ a \in Items(M, F) /\ c \in Items(M, F) /\ r \in Items(M, F) /\ l \in Items(M, F)
  <2>1. {"setstate", "close", "release"} \subseteq PinOps /\ "clear" \in PlainOps
    BY DEF PinOps, PlainOps
  <2> QED
    BY <1>1, <2>1, OnIs, OnItem, CallIs, CallItem
<1>3. PICK u, v : u = <<a, c>> /\ v = <<r, l>>
  OBVIOUS
<1>4. /\ u \in Seq(Items(M, F)) /\ Len(u) = 2 /\ u[1] = a /\ u[2] = c
      /\ v \in Seq(Items(M, F)) /\ Len(v) = 2 /\ v[1] = r /\ v[2] = l
  BY <1>2, <1>3
<1>5. PICK s : s = u \o v
  OBVIOUS
<1>6. s \in Seq(Items(M, F)) /\ Len(s) = 4 /\ s[1] = a /\ s[2] = c /\ s[3] = r /\ s[4] = l
  <2>1. JoinOf(Items(M, F), u, 2, v, 2, s)
    BY <1>4, <1>5, Joined
  <2>2. 1 \in 1 .. 2 /\ 2 \in 1 .. 2 /\ 2 + 1 = 3 /\ 2 + 2 = 4
    OBVIOUS
  <2>3. s[1] = u[1] /\ s[2] = u[2] /\ s[2 + 1] = v[1] /\ s[2 + 2] = v[2] /\ s \in Seq(Items(M, F)) /\ Len(s) = 2 + 2
    BY <2>1, <2>2 DEF JoinOf
  <2> QED
    BY <1>4, <2>2, <2>3
<1>7. x = s \o e
  BY <1>1, <1>3, <1>5 DEF StopCalls
<1>8. CASE e = <<>>
  <2>1. x = s
    BY <1>6, <1>7, <1>8, ConcatEmptySeq
  <2>2. Len(s) \in {4, 6} /\ Len(s) # 6
    BY <1>6
  <2>3. Leaving(s, M, F, q)
    BY <1>2, <1>6, <2>2 DEF Leaving
  <2> QED
    BY <2>1, <2>3, Zenon
<1>9. CASE e = <<Call("destroy"), Call("rundown")>>
  <2>1. e \in Seq(Items(M, F)) /\ Len(e) = 2 /\ e[1].op = "destroy" /\ e[2].op = "rundown"
    BY <1>9, IsClosing DEF Closing
  <2>2. x \in Seq(Items(M, F)) /\ Len(x) = 6 /\ x[1] = a /\ x[2] = c /\ x[3] = r /\ x[4] = l /\ x[5] = e[1] /\ x[6] = e[2]
    <3>1. JoinOf(Items(M, F), s, 4, e, 2, x)
      BY <1>6, <1>7, <2>1, Joined
    <3>2. /\ 1 \in 1 .. 4 /\ 2 \in 1 .. 4 /\ 3 \in 1 .. 4 /\ 4 \in 1 .. 4 /\ 4 + 2 = 6 /\ 4 + 1 = 5
          /\ 1 \in 1 .. 2 /\ 2 \in 1 .. 2
      OBVIOUS
    <3>3. x[1] = s[1] /\ x[2] = s[2] /\ x[3] = s[3] /\ x[4] = s[4] /\ x \in Seq(Items(M, F)) /\ Len(x) = 4 + 2
      BY <3>1, <3>2 DEF JoinOf
    <3>4. x[4 + 1] = e[1] /\ x[4 + 2] = e[2]
      BY <3>1, <3>2 DEF JoinOf
    <3> QED
      BY <1>6, <3>2, <3>3, <3>4
  <2> QED
    BY <1>2, <2>1, <2>2 DEF Leaving
<1> QED
  BY <1>8, <1>9

\* They are such as StopStep takes.
LEMMA LeavingStops ==
    ASSUME NEW M, NEW F, NEW q, NEW x, Leaving(x, M, F, q)
    PROVE  StopCalls_(x, M, F, q) /\ \A i \in 1 .. Len(x) : x[i].op \notin PicOps \cup {"create", "run", "box"}
<1>1. \A i \in 1 .. Len(x) : i = 1 \/ i = 2 \/ i = 3 \/ i = 4 \/ (Len(x) = 6 /\ (i = 5 \/ i = 6))
  <2>1. Len(x) = 4 \/ Len(x) = 6
    BY DEF Leaving
  <2>2. \A i \in 1 .. 4 : i = 1 \/ i = 2 \/ i = 3 \/ i = 4
    OBVIOUS
  <2>3. \A i \in 1 .. 6 : i = 1 \/ i = 2 \/ i = 3 \/ i = 4 \/ i = 5 \/ i = 6
    OBVIOUS
  <2> QED
    BY <2>1, <2>2, <2>3
<1>2. ASSUME NEW i \in 1 .. Len(x)
      PROVE  /\ x[i].op \in {"setstate", "close", "release", "clear", "destroy", "rundown"}
             /\ x[i].op \in {"setstate", "close", "release"} => x[i].pin = q
             /\ x[i].op = "release" => i = 3
             /\ x[i].op = "clear" => i = 4
             /\ x[i].op = "setstate" => i < 3
  BY <1>1 DEF Leaving
<1>3. 1 \in 1 .. Len(x) /\ 2 \in 1 .. Len(x) /\ 3 \in 1 .. Len(x) /\ 4 \in 1 .. Len(x) /\ x \in Seq(Items(M, F))
  BY DEF Leaving
<1>4. \A i \in 1 .. Len(x) : /\ x[i].op \notin LockOps \cup {"push", "process", "create", "run"}
                             /\ x[i].op \in HasPin => x[i].pin = q
  BY <1>2 DEF LockOps, HasPin, PinOps, FrameOps
<1>5. \E j \in 1 .. Len(x) :
          /\ x[j].op = "release" /\ \A i \in 1 .. Len(x) : i # j => x[i].op \notin Counted_
          /\ \A i \in 1 .. Len(x) : x[i].op \in NeedOps => i < j
  <2>1. x[3].op = "release"
    BY DEF Leaving
  <2>2. \A i \in 1 .. Len(x) : i # 3 => x[i].op \notin Counted_
    BY <1>2 DEF Counted_, RefOps, HoldOps, ReadOps
  <2>3. \A i \in 1 .. Len(x) : x[i].op \in NeedOps => i < 3
    BY <1>2 DEF NeedOps
  <2> QED
    BY <1>3, <2>1, <2>2, <2>3
<1>6. \E i \in 1 .. Len(x) : x[i].op = "clear"
  BY <1>3 DEF Leaving
<1>7. \E i \in 1 .. Len(x) : x[i].op \in {"close", "pinstop"}
  BY <1>3 DEF Leaving
<1>8. \A i, j \in 1 .. Len(x) : x[i].op \in SoloOps /\ x[j].op \in SoloOps => i = j
  <2>1. \A i \in 1 .. Len(x) : x[i].op \in SoloOps => i = 4
    BY <1>2 DEF SoloOps
  <2> QED
    BY <2>1
<1>9. \A i \in 1 .. Len(x) : x[i].op \notin PicOps \cup {"create", "run", "box"}
  BY <1>2 DEF PicOps
<1> QED
  BY <1>3, <1>4, <1>5, <1>6, <1>7, <1>8, <1>9 DEF StopCalls_

\* The calls of the dialog when it leaves its pin q, or has none.
Leaves(x, M, F, q) ==
    \/ q # 0 /\ Leaving(x, M, F, q)
    \/ q = 0 /\ Closing(x, M, F)

LEMMA LeavesIs ==
    ASSUME ViewInv, Viewer!Leave
    PROVE  \E x : Leaves(x, MaxPins, ViewerFrames, pin) /\ todo' = [todo EXCEPT ![Viewer!UI] = x]
<1>1. PICK q : q = pin
  OBVIOUS
<1>2. PinTypes(Viewer!Threads, ViewerFrames, MaxPins) /\ MaxPins \in Nat
  BY ViewParts, ViewerSizes
<1>3. q # 0 => q \in 1 .. MaxPins
  BY <1>1, <1>2 DEF PinTypes
<1>4. PICK e : /\ (e = <<>> /\ q # 0) \/ e = <<Call("destroy"), Call("rundown")>>
               /\ todo' = [todo EXCEPT ![Viewer!UI] = Viewer!Stop \o e]
  BY <1>1, ViewerWords DEF Viewer!Leave, Viewer!StopAnd, Viewer!NoPin, Viewer!Call, Call
<1>5. CASE q # 0
  <2>1. Viewer!Stop = StopCalls(q) \o <<On("release", q), Call("clear")>>
    BY <1>1, <1>5 DEF Viewer!Stop, Viewer!NoPin, Viewer!StopCalls, StopCalls, Viewer!On, On, Viewer!Call, Call
  <2>2. PICK x : x = (StopCalls(q) \o <<On("release", q), Call("clear")>>) \o e
    OBVIOUS
  <2>3. Leaving(x, MaxPins, ViewerFrames, q)
    BY <1>3, <1>4, <1>5, <2>2, IsLeaving
  <2>4. todo' = [todo EXCEPT ![Viewer!UI] = x]
    BY <1>4, <2>1, <2>2
  <2> QED
    BY <1>1, <1>5, <2>3, <2>4 DEF Leaves
<1>6. CASE q = 0
  <2>1. Viewer!Stop = <<>>
    BY <1>1, <1>6 DEF Viewer!Stop, Viewer!NoPin
  <2>2. e = <<Call("destroy"), Call("rundown")>>
    BY <1>4, <1>6
  <2>3. Closing(e, MaxPins, ViewerFrames)
    BY <2>2, IsClosing
  <2>4. e \in Seq(Items(MaxPins, ViewerFrames))
    BY <2>3 DEF Closing
  <2>5. <<>> \o e = e
    BY <2>4, ConcatEmptySeq
  <2>6. todo' = [todo EXCEPT ![Viewer!UI] = e]
    BY <1>4, <2>1, <2>5, Zenon
  <2> QED
    BY <1>1, <1>6, <2>3, <2>6 DEF Leaves
<1> QED
  BY <1>5, <1>6

\* The pin, and the calls of the window in their places.
LEMMA LeavesPin ==
    ASSUME NEW T, IsFiniteSet(T), NEW Q, NEW F, IsFiniteSet(F), NEW M \in Nat, NEW t,
           PinInv(T, Q, F, M, {t}), NEW x, Leaves(x, M, F, pin), Moved(T, F, M, t, 0, x), Height(todo, t) = 0,
           ~Somewhere(todo, T, SoloOps), Idle
    PROVE  PinInv(T, Q, F, M, {t})'
<1>1. PICK C : C = {t}
  OBVIOUS
<1>2. PICK b : b = 0
  OBVIOUS
<1>3. \A h \in b + 1 .. Height(todo, t) : FALSE
  BY <1>2
<1>4. PlainOnly(todo, t, b, <<>>)
  BY <1>3 DEF PlainOnly
<1>5. BackFits(T, t, b, C, C)
  <2>1. ASSUME NEW u \in T, NEW h \in 1 .. Height(todo, u), u = t => h <= b, Item(todo, u, h).op \in NeedOps,
               NEW p, Starting(todo, T, C, u, p)
        PROVE  FALSE
    BY <1>1, <1>2, <2>1 DEF Starting
  <2> QED
    BY <2>1 DEF BackFits
<1>6. CASE pin # 0
  <2>1. PICK q : q = pin
    OBVIOUS
  <2>2. Leaving(x, M, F, q)
    BY <1>6, <2>1 DEF Leaves
  <2>3. StopCalls_(x, M, F, q)
    BY <2>2, LeavingStops
  <2>4. Owned(T, q)
    BY <2>1 DEF Owned, Somewhere, SoloOps
  <2>5. SoloFits(todo, T, t, b, x)
    BY <2>3 DEF SoloFits, StopCalls_
  <2> QED
    BY <1>1, <1>2, <1>4, <1>5, <1>6, <2>1, <2>3, <2>4, <2>5, StopStep
<1>7. CASE pin = 0
  <2>1. Closing(x, M, F)
    BY <1>7 DEF Leaves
  <2>2. \A i \in 1 .. Len(x) : i = 1 \/ i = 2
    BY <2>1 DEF Closing
  <2>3. \A i \in 1 .. Len(x) : x[i].op \in {"destroy", "rundown"}
    BY <2>1, <2>2 DEF Closing
  <2>4. PlainOnly(todo, t, b, x) /\ NoClear(todo, t, b, x) /\ SoloFits(todo, T, t, b, x)
    BY <1>3, <2>3 DEF PlainOnly, NoClear, SoloFits, SoloOps, HasPin, PinOps, FrameOps
  <2> QED
    BY <1>1, <1>2, <1>5, <2>4, PlainStep
<1> QED
  BY <1>6, <1>7

LEMMA LeavesPlaced ==
    ASSUME NEW T, NEW F, NEW M \in Nat, NEW t, t = Viewer!UI, NEW x, Leaves(x, M, F, pin), Moved(T, F, M, t, 0, x), pin' = pin,
           NEW i \in 1 .. Len(x)
    PROVE  Placed(todo, T, t, 0 + Len(x) + 1 - i)'
<1>1. PICK h : h = 0 + Len(x) + 1 - i
  OBVIOUS
<1>2. PICK n : n = Len(x)
  OBVIOUS
<1>3. /\ n \in Nat /\ Height(todo', t) = n /\ t \in T
      /\ \A j \in 1 .. n : Item(todo', t, n + 1 - j) = x[j]
  <2>1. /\ t \in T /\ Len(x) \in Nat /\ Height(todo', t) = 0 + Len(x)
        /\ \A j \in 1 .. Len(x) : Item(todo', t, 0 + Len(x) + 1 - j) = x[j]
    BY MovedIs
  <2>2. 0 + n = n
    BY <1>2, <2>1
  <2> QED
    BY <1>2, <2>1, <2>2
<1>4. h = n + 1 - i /\ i \in 1 .. n
  BY <1>1, <1>2, <1>3
<1>5. CASE pin # 0
  <2>1. Leaving(x, M, F, pin)
    BY <1>5 DEF Leaves
  <2>2. \A j \in 1 .. Len(x) : x[j].op \notin PicOps \cup {"create", "run", "box"}
    BY <2>1, LeavingStops
  <2>3. x[i].op \notin PicOps \cup {"create", "run", "box"} /\ Item(todo', t, h) = x[i]
    BY <1>3, <1>4, <2>2
  <2>4. n = 4 => x[i].op \notin {"destroy", "rundown"}
    <3>1. \A j \in 1 .. 4 : j = 1 \/ j = 2 \/ j = 3 \/ j = 4
      OBVIOUS
    <3> QED
      BY <1>2, <1>4, <2>1, <3>1 DEF Leaving
  <2>5. n = 6 => /\ x[i].op = "destroy" => i = 5
                 /\ x[i].op = "rundown" => i = 6
    <3>1. \A j \in 1 .. 6 : j = 1 \/ j = 2 \/ j = 3 \/ j = 4 \/ j = 5 \/ j = 6
      OBVIOUS
    <3> QED
      BY <1>2, <1>4, <2>1, <3>1 DEF Leaving
  <2>6. n = 4 \/ n = 6
    BY <1>2, <2>1 DEF Leaving
  <2>7. n = 6 => /\ Item(todo', t, 1).op = "rundown" /\ Item(todo', t, 2).op = "destroy" /\ Item(todo', t, 3).op = "clear"
                 /\ 3 \in 1 .. Height(todo', t)
    <3>1. SUFFICES ASSUME n = 6
                   PROVE  /\ Item(todo', t, 1).op = "rundown" /\ Item(todo', t, 2).op = "destroy"
                          /\ Item(todo', t, 3).op = "clear" /\ 3 \in 1 .. Height(todo', t)
      OBVIOUS
    <3>2. 6 \in 1 .. n /\ 5 \in 1 .. n /\ 4 \in 1 .. n /\ n + 1 - 6 = 1 /\ n + 1 - 5 = 2 /\ n + 1 - 4 = 3
      BY <3>1
    <3>3. Item(todo', t, 1) = x[6] /\ Item(todo', t, 2) = x[5] /\ Item(todo', t, 3) = x[4]
      BY <1>3, <3>2
    <3>4. x[6].op = "rundown" /\ x[5].op = "destroy" /\ x[4].op = "clear"
      BY <1>2, <2>1, <3>1 DEF Leaving
    <3> QED
      BY <1>3, <3>1, <3>3, <3>4
  <2>8. n = 6 => Somewhere(todo', {t}, {"clear"})
    BY <2>7 DEF Somewhere
  <2>9. /\ x[i].op = "destroy" => n = 6 /\ h = 2
        /\ x[i].op = "rundown" => n = 6 /\ h = 1
    BY <1>4, <2>4, <2>5, <2>6
  <2>10. Placed(todo, T, t, h)'
    <3>1. PICK op : op = x[i].op
      OBVIOUS
    <3>2. op \notin {"set", "vidrel", "post", "create", "run", "box"} /\ op \notin PicOps
      BY <2>3, <3>1 DEF PicOps
    <3>3. Item(todo', t, h).op = op /\ t = Viewer!UI
      BY <2>3, <3>1
    <3>4. op = "destroy" => /\ h = 2 /\ Item(todo', t, 1).op = "rundown" /\ Somewhere(todo', {t}, {"clear"})
      BY <2>7, <2>8, <2>9, <3>1
    <3>5. op = "rundown" => /\ h = 1 /\ Height(todo', t) > 1 /\ Item(todo', t, 2).op = "destroy"
      BY <1>3, <2>7, <2>9, <3>1
    <3> QED
      BY <3>2, <3>3, <3>4, <3>5 DEF Placed
  <2> QED
    BY <1>1, <2>10
<1>6. CASE pin = 0
  <2>1. Closing(x, M, F)
    BY <1>6 DEF Leaves
  <2>2. n = 2 /\ x[1].op = "destroy" /\ x[2].op = "rundown"
    BY <1>2, <2>1 DEF Closing
  <2>3. (i = 1 /\ h = 2) \/ (i = 2 /\ h = 1)
    BY <1>4, <2>2
  <2>4. Item(todo', t, 2) = x[1] /\ Item(todo', t, 1) = x[2]
    BY <1>3, <2>2
  <2>5. Placed(todo, T, t, h)'
    BY <1>3, <1>6, <2>2, <2>3, <2>4 DEF Placed, PicOps, SoloOps
  <2> QED
    BY <1>1, <2>5
<1> QED
  BY <1>5, <1>6

\* The dialog stops its pin or is closed.
LEMMA LeaveView ==
    ASSUME ViewInv, Viewer!Leave
    PROVE  ViewInv'
<1>1. PICK T : T = Viewer!Threads
  OBVIOUS
<1>2. PICK t : t = Viewer!UI
  OBVIOUS
<1>3. /\ PinTypes(T, ViewerFrames, MaxPins) /\ IsFiniteSet(T) /\ IsFiniteSet(ViewerFrames) /\ MaxPins \in Nat
      /\ t \in T /\ made \in Nat /\ WindowPlaces(todo, T)
  BY <1>1, <1>2, ViewParts, ViewerSizes
<1>4. PinInv(T, Pool, ViewerFrames, MaxPins, {t}) /\ ViewerInv(T, ViewerFrames, MaxPins)
  BY <1>1, <1>2 DEF ViewInv, ViewPins
<1>5. todo[t] = <<>> /\ Idle /\ SameScreen /\ dialog = "up"
  <2>1. Viewer!Others /\ UNCHANGED <<Viewer!screen, Viewer!phases>> /\ todo[t] = <<>> /\ dialog = "up"
    BY <1>2 DEF Viewer!Leave, Viewer!UIIdle
  <2>2. SameScreen
    BY <2>1 DEF Viewer!screen, Viewer!phases, SameScreen
  <2> QED
    BY <2>1, <2>2, ViewerWords
<1>6. PICK x : Leaves(x, MaxPins, ViewerFrames, pin) /\ todo' = [todo EXCEPT ![t] = x]
  BY <1>2, LeavesIs
<1>7. x \in Seq(Items(MaxPins, ViewerFrames))
  BY <1>6 DEF Leaves, Leaving, Closing
<1>8. Moved(T, ViewerFrames, MaxPins, t, 0, x) /\ Height(todo, t) = 0
  BY <1>3, <1>5, <1>6, <1>7, Idles
<1>9. ~Somewhere(todo, T, SoloOps)
  BY <1>2, <1>3, <1>5, UIIdles
<1>10. PinInv(T, Pool, ViewerFrames, MaxPins, {t})'
  BY <1>3, <1>4, <1>5, <1>6, <1>8, <1>9, LeavesPin
<1>11. \A h \in 0 + 1 .. Height(todo, t) : FALSE
  BY <1>8
<1>12. \A i \in 1 .. Len(x) : x[i].op \notin PicOps
  <2>1. CASE pin # 0
    BY <1>6, <2>1, LeavingStops DEF Leaves
  <2>2. CASE pin = 0
    <3>1. Closing(x, MaxPins, ViewerFrames)
      BY <1>6, <2>2 DEF Leaves
    <3>2. \A i \in 1 .. Len(x) : i = 1 \/ i = 2
      BY <3>1 DEF Closing
    <3> QED
      BY <3>1, <3>2 DEF Closing, PicOps
  <2> QED
    BY <2>1, <2>2
<1>13. Untouched(todo, t, 0, x, PicOps)
  BY <1>11, <1>12 DEF Untouched
<1>14. UNCHANGED <<count, undefined, dialog, hasty, pin, made, dead, lost, handle>> /\ SameShow /\ dialog' = dialog /\ pin' = pin
  BY <1>5 DEF SameScreen, SameShow, Idle
<1>15. KeptRight(T, t, 0, x)
  BY <1>3, <1>8, <1>11, <1>14 DEF KeptRight
<1>16. \A i \in 1 .. Len(x) : Placed(todo, T, t, 0 + Len(x) + 1 - i)'
  BY <1>2, <1>3, <1>6, <1>8, <1>14, LeavesPlaced
<1>17. lost \subseteq lost' /\ dialog # "exited"
  BY <1>5, <1>14
<1>18. ViewerInv(T, ViewerFrames, MaxPins)'
  BY <1>3, <1>4, <1>5, <1>8, <1>13, <1>14, <1>15, <1>16, <1>17, ViewerQuiet
<1> QED
  BY <1>1, <1>2, <1>10, <1>18 DEF ViewInv, ViewPins

-----------------------------------------------------------------------------
\* OnOk: a new picture, and a pin for it.
NewCalls(x, M, F, q) ==
    /\ x \in Seq(Items(M, F)) /\ Len(x) = 3
    /\ x[1].op = "set" /\ x[2].op = "vidrel" /\ x[3].op = "create"
    /\ x[1].pic = q /\ x[2].pic = q /\ x[3].pin = q

LEMMA NewCallsAre ==
    ASSUME NEW M, NEW F, NEW q \in 1 .. M,
           NEW x, x = <<Viewer!OfPic("set", q), Viewer!OfPic("vidrel", q), On("create", q)>>
    PROVE  NewCalls(x, M, F, q)
<1>1. PICK s, v, c : s = Viewer!OfPic("set", q) /\ v = Viewer!OfPic("vidrel", q) /\ c = On("create", q)
  OBVIOUS
<1>2. /\ s.op = "set" /\ s.pic = q /\ v.op = "vidrel" /\ v.pic = q /\ c.op = "create" /\ c.pin = q
      /\ s \in Items(M, F) /\ v \in Items(M, F) /\ c \in Items(M, F)
  <2>1. {"set", "vidrel"} \subseteq PicOps /\ "create" \in PinOps
    BY DEF PicOps, PinOps
  <2> QED
    BY <1>1, <2>1, PicIs, PicItem, OnIs, OnItem
<1>3. PICK y : y = <<s, v, c>>
  OBVIOUS
<1>4. y \in Seq(Items(M, F)) /\ Len(y) = 3 /\ y[1] = s /\ y[2] = v /\ y[3] = c
  BY <1>2, <1>3
<1>5. NewCalls(y, M, F, q)
  BY <1>2, <1>4 DEF NewCalls
<1> QED
  BY <1>1, <1>3, <1>5

\* Each of them.
LEMMA NewEach ==
    ASSUME NEW M, NEW F, NEW q, NEW x, NewCalls(x, M, F, q), NEW i \in 1 .. Len(x)
    PROVE  \/ i = 1 /\ x[i].op = "set" /\ x[i].pic = q
           \/ i = 2 /\ x[i].op = "vidrel" /\ x[i].pic = q
           \/ i = 3 /\ x[i].op = "create" /\ x[i].pin = q
<1>1. i = 1 \/ i = 2 \/ i = 3
  BY DEF NewCalls
<1> QED
  BY <1>1 DEF NewCalls

\* The pin of OnOk.
MadeNew(t, x, q) ==
    /\ todo[t] = <<>> /\ pin = 0 /\ q = made + 1 /\ made' = q /\ refs' = [refs EXCEPT ![q] = 1]
    /\ todo' = [todo EXCEPT ![t] = x]
    /\ UNCHANGED <<pin, handle, users, running, free, posted, dead, lost, dry>>

LEMMA NewPinView ==
    ASSUME NEW T, IsFiniteSet(T), NEW Q, NEW F, IsFiniteSet(F), NEW M \in Nat, NEW t \in T, Reads \in Nat,
           PinInv(T, Q, F, M, {t}), NEW q \in 1 .. M, NEW x, NewCalls(x, M, F, q), MadeNew(t, x, q),
           ~Somewhere(todo, T, SoloOps)
    PROVE  PinInv(T, Q, F, M, {t})' /\ Moved(T, F, M, t, 0, x) /\ Height(todo, t) = 0
<1>1. PICK C : C = {t}
  OBVIOUS
<1>2. PICK b : b = 0
  OBVIOUS
<1>3. PinTypes(T, F, M) /\ PinInv(T, Q, F, M, C)
  BY <1>1, Parts
<1>4. Moved(T, F, M, t, b, x) /\ Height(todo, t) = 0
  <2>1. x \in Seq(Items(M, F))
    BY DEF NewCalls
  <2> QED
    BY <1>2, <1>3, <2>1, Idles DEF MadeNew
<1>5. \A h \in b + 1 .. Height(todo, t) : FALSE
  BY <1>2, <1>4
<1>6. PlainOnly(todo, t, b, <<>>)
  BY <1>5 DEF PlainOnly
<1>7. \A i \in 1 .. Len(x) : /\ x[i].op \in {"set", "vidrel", "create"}
                             /\ x[i].op = "create" => i = 3
                             /\ i = 3 => x[i].op = "create" /\ x[i].pin = q
  BY NewEach
<1>8. MakesPin(x, q)
  <2>1. 3 \in 1 .. Len(x)
    BY DEF NewCalls
  <2>2. {"set", "vidrel"} \cap (HasPin \cup SoloOps) = {}
    BY DEF HasPin, SoloOps, PinOps, FrameOps
  <2>3. \A i \in 1 .. Len(x) : 3 # i => x[i].op \notin HasPin \cup SoloOps
    BY <1>7, <2>2
  <2> QED
    BY <1>7, <2>1, <2>3 DEF MakesPin
<1>9. SoloFits(todo, T, t, b, x)
  <2>1. \A i \in 1 .. Len(x) : x[i].op \in SoloOps => i = 3
    BY <1>7 DEF SoloOps
  <2> QED
    BY <2>1 DEF SoloFits
<1>10. /\ q = made + 1 /\ q <= M /\ pin = 0 /\ made' = q /\ refs' = [refs EXCEPT ![q] = 1]
       /\ UNCHANGED <<pin, handle, users, running, free, posted, dead, lost, dry>>
  BY DEF MadeNew
<1>11. PinInv(T, Q, F, M, C)'
  BY <1>3, <1>4, <1>6, <1>8, <1>9, <1>10, NewPinStep
<1> QED
  BY <1>1, <1>2, <1>4, <1>11

\* The calls in their places.
LEMMA NewPlaced ==
    ASSUME NEW T, NEW F, NEW M \in Nat, NEW t, t = Viewer!UI, NEW q \in 1 .. M, NEW x, NewCalls(x, M, F, q),
           Moved(T, F, M, t, 0, x), made' = q, NEW i \in 1 .. Len(x)
    PROVE  Placed(todo, T, t, 0 + Len(x) + 1 - i)'
<1>1. PICK h : h = 0 + Len(x) + 1 - i
  OBVIOUS
<1>2. Len(x) = 3
  BY DEF NewCalls
<1>3. /\ Height(todo', t) = 3 /\ t \in T
      /\ \A j \in 1 .. 3 : Item(todo', t, 4 - j) = x[j]
  <2>1. /\ t \in T /\ Height(todo', t) = 0 + Len(x)
        /\ \A j \in 1 .. Len(x) : Item(todo', t, 0 + Len(x) + 1 - j) = x[j]
    BY MovedIs
  <2>2. \A j \in 1 .. 3 : 0 + 3 + 1 - j = 4 - j
    OBVIOUS
  <2> QED
    BY <1>2, <2>1, <2>2
<1>4. Item(todo', t, 3) = x[1] /\ Item(todo', t, 2) = x[2] /\ Item(todo', t, 1) = x[3]
  BY <1>3
<1>5. h = 4 - i /\ i \in 1 .. 3
  BY <1>1, <1>2
<1>6. CASE i = 1
  <2>1. h = 3
    BY <1>5, <1>6
  <2>2. Placed(todo, T, t, h)'
    BY <1>3, <1>4, <2>1 DEF Placed, NewCalls, SoloOps
  <2> QED
    BY <1>1, <2>2
<1>7. CASE i = 2
  <2>1. h = 2
    BY <1>5, <1>7
  <2>2. Placed(todo, T, t, h)'
    BY <1>3, <1>4, <2>1 DEF Placed, NewCalls, SoloOps
  <2> QED
    BY <1>1, <2>2
<1>8. CASE i = 3
  <2>1. h = 1
    BY <1>5, <1>8
  <2>2. Placed(todo, T, t, h)'
    BY <1>3, <1>4, <2>1 DEF Placed, NewCalls, PicOps
  <2> QED
    BY <1>1, <2>2
<1> QED
  BY <1>5, <1>6, <1>7, <1>8

\* Its picture, which has the references of OnOk and of the pin.
LEMMA NewPictures ==
    ASSUME NEW T, NEW F, NEW M \in Nat, PinTypes(T, F, M), NEW t, NEW x, Moved(T, F, M, t, 0, x), Height(todo, t) = 0,
           NEW q \in 1 .. M, NewCalls(x, M, F, q), q = made + 1, made' = q, WindowTypes(M), WindowPlaces(todo, T),
           count' = [count EXCEPT ![q] = 2], wnd' = wnd, dead' = dead, Pictures(T, F, M)
    PROVE  count' \in [1 .. M -> Int] /\ Pictures(T, F, M)'
<1>1. /\ made \in Nat /\ wnd \in 0 .. made /\ count \in [1 .. M -> Int] /\ dead \subseteq 1 .. made
      /\ todo \in [T -> Seq(Items(M, F))] /\ IsFiniteSet(T)
  <2>1. made \in Nat /\ dead \subseteq 1 .. made
    BY DEF PinTypes
  <2>2. wnd \in 0 .. made /\ count \in [1 .. M -> Int]
    BY DEF WindowTypes
  <2>3. todo \in [T -> Seq(Items(M, F))] /\ IsFiniteSet(T)
    BY Zenon DEF Moved
  <2> QED
    BY <2>1, <2>2, <2>3
<1>2. count' \in [1 .. M -> Int] /\ count'[q] = 2 /\ \A p \in 1 .. M : p # q => count'[p] = count[p]
  BY <1>1
<1>3. \A h \in 0 + 1 .. Height(todo, t) : FALSE
  OBVIOUS
<1>4. ASSUME NEW p \in 1 .. M, p <= made
      PROVE  count'[p] = Number(todo', T, VidsOf(Items(M, F), p)) + One(wnd = p) + One(p \notin dead)
  <2>1. PICK K : K = VidsOf(Items(M, F), p)
    OBVIOUS
  <2>2. p # q
    BY <1>1, <1>4
  <2>3. \A i \in 1 .. Len(x) : x[i] \notin K
    BY <2>1, <2>2, NewEach DEF VidsOf
  <2>4. Number(todo', T, K) = Number(todo, T, K)
    BY <1>3, <2>3, SameNumber
  <2> QED
    BY <1>2, <1>4, <2>1, <2>2, <2>4 DEF Pictures
<1>5. count'[q] = Number(todo', T, VidsOf(Items(M, F), q)) + One(wnd = q) + One(q \notin dead)
  <2>1. PICK K : K = VidsOf(Items(M, F), q)
    OBVIOUS
  <2>2. Number(todo, T, K) = 0
    <3>1. \A u \in T : \A h \in 1 .. Height(todo, u) : Item(todo, u, h).op \in PicOps => Item(todo, u, h).pic <= made
      BY DEF WindowPlaces, Placed
    <3>2. ~(q <= made)
      BY <1>1
    <3>3. \A u \in T : \A h \in 1 .. Height(todo, u) : Item(todo, u, h) \notin K
      BY <2>1, <3>1, <3>2 DEF VidsOf, PicOps
    <3>4. ~(Number(todo, T, K) > 0)
      BY <1>1, <3>3, SomePlace
    <3>5. Number(todo, T, K) \in Nat
      BY Tally
    <3> QED
      BY <3>4, <3>5
  <2>3. Given(x, K) = 1
    <3>1. 2 \in 1 .. Len(x) /\ x[2] \in Items(M, F)
      <4>1. 2 \in 1 .. Len(x)
        BY DEF NewCalls
      <4>2. \A i \in 1 .. Len(x) : x[i] \in Items(M, F)
        BY MovedIs
      <4> QED
        BY <4>1, <4>2
    <3>2. x[2] \in K
      BY <2>1, <3>1 DEF NewCalls, VidsOf
    <3>3. \A i \in 1 .. Len(x) : i # 2 => x[i] \notin K
      BY <2>1, NewEach DEF VidsOf
    <3> QED
      BY <3>1, <3>2, <3>3, GivenOne
  <2>4. Dropped(todo, t, 0, K) = 0
    BY <1>3, DroppedNone
  <2>5. /\ Number(todo', T, K) + Dropped(todo, t, 0, K) = Number(todo, T, K) + Given(x, K)
        /\ Number(todo', T, K) \in Nat
    BY Tally
  <2>6. PICK m : m = Number(todo', T, K)
    OBVIOUS
  <2>7. m + 0 = 0 + 1 /\ m \in Nat
    BY <2>2, <2>3, <2>4, <2>5, <2>6
  <2>8. wnd # q /\ q \notin dead
    BY <1>1
  <2>9. One(wnd = q) = 0 /\ One(q \notin dead) = 1
    BY <2>8 DEF One
  <2>10. Number(todo', T, K) = 1
    BY <2>6, <2>7
  <2> QED
    BY <1>2, <2>1, <2>9, <2>10
<1>6. \A p \in 1 .. M : p <= made' => p <= made \/ p = q
  BY <1>1
<1> QED
  BY <1>2, <1>4, <1>5, <1>6 DEF Pictures

\* Nothing more will come of the last one.
Unawaited(T) ==
    /\ \A p \in 1 .. made : p \in lost \cup dead
    /\ \A t \in T : ~At(t, "vidrel") /\ ~At(t, "post")
    /\ \A i \in DOMAIN msgs : msgs[i].kind # "e_set"

LEMMA NoMorePosts ==
    ASSUME NEW T, NEW F, NEW M, PinTypes(T, F, M), WindowPlaces(todo, T), Unawaited(T), NEW p
    PROVE  ~PicPlace(todo, T, "post", p)
<1>1. SUFFICES ASSUME NEW t \in T, NEW h \in 1 .. Height(todo, t), Item(todo, t, h).op = "post"
               PROVE  FALSE
  BY DEF PicPlace
<1>2. PICK n : n = Height(todo, t)
  OBVIOUS
<1>3. h = n \/ (h = n - 1 /\ Item(todo, t, n).op = "vidrel")
  BY <1>1, <1>2 DEF WindowPlaces, Placed
<1>4. todo[t] # <<>> /\ Item(todo, t, n) = Head(todo[t])
  BY <1>1, <1>2, HeightIsNat DEF PinTypes
<1>5. Head(todo[t]).op \in {"post", "vidrel"}
  BY <1>1, <1>3, <1>4
<1> QED
  BY <1>4, <1>5 DEF Unawaited, At

LEMMA NoMoreMessages ==
    ASSUME NEW T, NEW F, NEW M, PinTypes(T, F, M), Handles(T, M), WindowTypes(M), WindowPlaces(todo, T), Unawaited(T), Calm(T)
    PROVE  msgs = <<>>
<1>1. SUFFICES ASSUME msgs # <<>>
               PROVE  FALSE
  OBVIOUS
<1>2. msgs \in Seq(Kinds(M)) /\ made \in Nat
  BY DEF WindowTypes, PinTypes
<1>3. 1 \in DOMAIN msgs /\ msgs[1] \in Kinds(M)
  BY <1>1, <1>2
<1>4. msgs[1].pic \in 1 .. M /\ msgs[1].pic = made
  BY <1>3 DEF Kinds, Calm
<1>5. made \in 1 .. M /\ made \in 1 .. made
  BY <1>2, <1>4
<1>6. handle[made] # "none"
  BY <1>1 DEF Calm
<1>7. made \notin lost
  BY <1>5, <1>6 DEF Handles, HandleIs
<1>8. made \in dead
  BY <1>5, <1>7 DEF Unawaited
<1>9. ~PicPlace(todo, T, "post", made)
  BY NoMorePosts
<1> QED
  BY <1>1, <1>8, <1>9 DEF Calm, Showing, Unawaited

\* So the new picture is the only one that the window hears of.
LEMMA NewCalm ==
    ASSUME NEW T, NEW F, NEW M \in Nat, PinTypes(T, F, M), Handles(T, M), WindowTypes(M), WindowPlaces(todo, T), Unawaited(T), Calm(T),
           NEW t, NEW x, Moved(T, F, M, t, 0, x), NEW q, NewCalls(x, M, F, q), q = made + 1, made' = q,
           wnd' = wnd, msgs' = msgs, dead' = dead, lost' = lost
    PROVE  Calm(T)'
<1>1. msgs' = <<>>
  BY NoMoreMessages
<1>2. made \in Nat /\ dead \subseteq 1 .. made
  BY DEF PinTypes
<1>3. made' \notin dead'
  BY <1>2
<1>4. Somewhere(todo', T, {"set"})
  <2>1. PICK ops : ops = {"set"}
    OBVIOUS
  <2>2. 1 \in 1 .. Len(x) /\ x[1].op \in ops
    BY <2>1 DEF NewCalls
  <2> QED
    BY <2>1, <2>2, GivenSomewhere
<1>5. Showing(T)'
  BY <1>1, <1>3, <1>4 DEF Showing
<1>6. ASSUME NEW p \in 1 .. made' - 1
      PROVE  p \in lost' \cup dead' /\ ~PicPlace(todo', T, "post", p)
  <2>1. p \in 1 .. made
    BY <1>2, <1>6
  <2>2. \A i \in 1 .. Len(x) : ~(x[i].op = "post" /\ x[i].pic = p)
    BY NewEach
  <2>3. ~PicPlace(todo, T, "post", p)
    BY NoMorePosts
  <2>4. ~PicPlace(todo', T, "post", p)
    BY <2>2, <2>3, SamePlace
  <2> QED
    BY <2>1, <2>4 DEF Unawaited
<1>7. \A i \in DOMAIN msgs' : FALSE
  BY <1>1
<1> QED
  BY <1>1, <1>5, <1>6, <1>7 DEF Calm

LEMMA OnOkView ==
    ASSUME ViewInv, Viewer!OnOk
    PROVE  ViewInv'
<1>1. PICK T : T = Viewer!Threads
  OBVIOUS
<1>2. PICK t : t = Viewer!UI
  OBVIOUS
<1>3. PICK F : F = ViewerFrames
  OBVIOUS
<1>4. PICK M : M = MaxPins
  OBVIOUS
<1>5. /\ PinTypes(T, F, M) /\ IsFiniteSet(T) /\ IsFiniteSet(F) /\ M \in Nat /\ Reads \in Nat
      /\ t \in T /\ made \in Nat /\ WindowPlaces(todo, T) /\ WindowTypes(M) /\ OnePost(todo, T) /\ Pictures(T, F, M)
  BY <1>1, <1>2, <1>3, <1>4, ViewParts, ViewerSizes
<1>6. PinInv(T, Pool, F, M, {t}) /\ ViewerInv(T, F, M)
  BY <1>1, <1>2, <1>3, <1>4 DEF ViewInv, ViewPins
<1>7. PICK q : q = made + 1
  OBVIOUS
<1>8. PICK x : x = <<Viewer!OfPic("set", q), Viewer!OfPic("vidrel", q), On("create", q)>>
  OBVIOUS
<1>9. /\ MadeNew(t, x, q) /\ made < M /\ dialog = "up"
      /\ count' = [count EXCEPT ![q] = 2] /\ hasty' = (hasty \/ Viewer!Awaited)
      /\ UNCHANGED <<wnd, msgs, undefined, dialog>>
  <2>1. /\ todo[t] = <<>> /\ pin = 0 /\ made < M /\ dialog = "up" /\ made' = made + 1 /\ refs' = [refs EXCEPT ![made + 1] = 1]
        /\ count' = [count EXCEPT ![made + 1] = 2] /\ hasty' = (hasty \/ Viewer!Awaited)
        /\ UNCHANGED <<pin, handle, users, running, free, posted, dead, lost, dry, wnd, msgs, undefined, dialog>>
        /\ todo' = [todo EXCEPT ![t] = <<Viewer!OfPic("set", made + 1), Viewer!OfPic("vidrel", made + 1), Viewer!On("create", made + 1)>>]
    BY <1>2, <1>4, ViewerSizes DEF Viewer!OnOk, Viewer!UIIdle
  <2>2. todo' = [todo EXCEPT ![t] = x]
    BY <1>7, <1>8, <2>1, ViewerWords
  <2> QED
    BY <1>7, <2>1, <2>2 DEF MadeNew
<1>10. q \in 1 .. M
  BY <1>5, <1>7, <1>9
<1>11. NewCalls(x, M, F, q)
  BY <1>8, <1>10, NewCallsAre
<1>12. todo[t] = <<>> /\ made' = q /\ UNCHANGED <<pin, handle, dead, lost>>
  BY <1>9 DEF MadeNew
<1>13. ~Somewhere(todo, T, SoloOps) /\ ~Somewhere(todo, T, {"set"})
  BY <1>2, <1>5, <1>12, UIIdles
<1>14. PinInv(T, Pool, F, M, {t})' /\ Moved(T, F, M, t, 0, x) /\ Height(todo, t) = 0
  BY <1>5, <1>6, <1>9, <1>10, <1>11, <1>13, NewPinView
<1>15. \A i \in 1 .. Len(x) : Placed(todo, T, t, 0 + Len(x) + 1 - i)'
  BY <1>2, <1>5, <1>10, <1>11, <1>12, <1>14, NewPlaced, ZenonT(40)
<1>16. \A h \in 0 + 1 .. Height(todo, t) : FALSE
  BY <1>14
<1>17. KeptRight(T, t, 0, x)
  <2>1. made' \in Nat /\ made <= made'
    BY <1>5, <1>7, <1>12
  <2> QED
    BY <1>5, <1>9, <1>12, <1>13, <1>14, <1>16, <2>1 DEF KeptRight
<1>18. WindowPlaces(todo, T)'
  BY <1>5, <1>14, <1>15, <1>17, WindowKept
<1>19. OnePost(todo, T)'
  <2>1. \A i \in 1 .. Len(x) : x[i].op # "post"
    BY <1>11, NewEach
  <2> QED
    BY <1>5, <1>14, <2>1, PostsKept
<1>20. count' \in [1 .. M -> Int] /\ Pictures(T, F, M)'
  BY <1>5, <1>7, <1>9, <1>10, <1>11, <1>12, <1>14, NewPictures
<1>21. WindowTypes(M)'
  <2>1. wnd \in 0 .. made'
    BY <1>5, <1>7, <1>12 DEF WindowTypes
  <2>2. hasty' \in BOOLEAN
    BY <1>5, <1>9 DEF WindowTypes, Viewer!Awaited
  <2> QED
    BY <1>5, <1>9, <1>20, <2>1, <2>2 DEF WindowTypes
<1>22. Closed(T)' /\ Ended(T)'
  BY <1>9 DEF Closed, Ended
<1>23. ASSUME ~hasty'
       PROVE  undefined' = {} /\ Calm(T)'
  <2>1. ~hasty /\ ~Viewer!Awaited
    BY <1>9, <1>23
  <2>2. undefined = {} /\ Calm(T)
    BY <1>6, <1>9, <2>1 DEF ViewerInv
  <2>3. Unawaited(T)
    BY <1>1, <2>1, ViewerWords DEF Viewer!Awaited, Unawaited
  <2>4. Handles(T, M)
    BY <1>6 DEF PinInv
  <2>5. Calm(T)'
    BY <1>5, <1>7, <1>9, <1>11, <1>12, <1>14, <2>2, <2>3, <2>4, NewCalm
  <2> QED
    BY <1>9, <2>2, <2>5
<1>24. ViewerInv(T, F, M)'
  BY <1>18, <1>19, <1>20, <1>21, <1>22, <1>23 DEF ViewerInv
<1> QED
  BY <1>1, <1>2, <1>3, <1>4, <1>14, <1>24 DEF ViewInv, ViewPins

-----------------------------------------------------------------------------
\* The last reference of a pin: its picture is let go, e_set posted, the handle closed.
LastCalls(y, M, F, p) ==
    /\ y \in Seq(Items(M, F)) /\ Len(y) = 3
    /\ y[1].op = "vidrel" /\ y[2].op = "post" /\ y[3].op = "close"
    /\ y[1].pic = p /\ y[2].pic = p

LEMMA LastCallsAre ==
    ASSUME NEW M, NEW F, NEW p \in 1 .. M,
           NEW x, x = <<Viewer!OfPic("vidrel", p), Viewer!OfPic("post", p)>>,
           NEW y, y = x \o <<On("close", p)>>
    PROVE  QuietCalls(x, M, F, p) /\ LastCalls(y, M, F, p)
<1>1. PICK s, v, c : s = Viewer!OfPic("vidrel", p) /\ v = Viewer!OfPic("post", p) /\ c = On("close", p)
  OBVIOUS
<1>2. /\ s.op = "vidrel" /\ s.pic = p /\ v.op = "post" /\ v.pic = p /\ c.op = "close"
      /\ s \in Items(M, F) /\ v \in Items(M, F) /\ c \in Items(M, F)
  <2>1. {"post", "vidrel"} \subseteq PicOps /\ "close" \in PinOps
    BY DEF PicOps, PinOps
  <2> QED
    BY <1>1, <2>1, PicIs, PicItem, OnIs, OnItem
<1>3. PICK r : r = <<s, v>>
  OBVIOUS
<1>4. PICK w : w = <<c>>
  OBVIOUS
<1>5. r \in Seq(Items(M, F)) /\ Len(r) = 2 /\ r[1] = s /\ r[2] = v
  BY <1>2, <1>3
<1>6. w \in Seq(Items(M, F)) /\ Len(w) = 1 /\ w[1] = c
  BY <1>2, <1>4
<1>7. LastCalls(y, M, F, p)
  <2>1. JoinOf(Items(M, F), r, 2, w, 1, y)
    <3>1. y = r \o w
      BY <1>1, <1>3, <1>4
    <3> QED
      BY <1>5, <1>6, <3>1, Joined
  <2>2. y \in Seq(Items(M, F)) /\ Len(y) = 3 /\ y[1] = s /\ y[2] = v /\ y[3] = c
    <3>1. y \in Seq(Items(M, F)) /\ Len(y) = 2 + 1 /\ (\A i \in 1 .. 2 : y[i] = r[i]) /\ (\A i \in 1 .. 1 : y[2 + i] = w[i])
      BY <2>1 DEF JoinOf
    <3>2. y[1] = r[1] /\ y[2] = r[2] /\ y[2 + 1] = w[1]
      BY <3>1
    <3> QED
      BY <1>5, <1>6, <3>1, <3>2
  <2> QED
    BY <1>2, <2>2 DEF LastCalls
<1>9. \A i \in 1 .. Len(r) : r[i].op \in {"vidrel", "post"}
  <2>1. \A i \in 1 .. Len(r) : i = 1 \/ i = 2
    BY <1>5
  <2> QED
    BY <1>2, <1>5, <2>1
<1>10. QuietCalls(r, M, F, p)
  <2>1. {"vidrel", "post"} \cap (Counted_ \cup LockOps \cup HasPin \cup SoloOps \cup NeedOps) = {}
    BY DEF Counted_, LockOps, HasPin, SoloOps, NeedOps, RefOps, HoldOps, ReadOps, PinOps, FrameOps
  <2>2. {"push", "process"} \subseteq HasPin /\ {"create", "run"} \subseteq SoloOps
    BY DEF HasPin, FrameOps, SoloOps
  <2>3. \A i \in 1 .. Len(r) : r[i].op \notin Counted_ \cup LockOps \cup HasPin \cup SoloOps \cup NeedOps
    BY <1>9, <2>1
  <2>4. CallsOf(r, p) /\ Needless(r)
    BY <2>2, <2>3 DEF CallsOf, Needless
  <2> QED
    BY <1>5, <2>3, <2>4 DEF QuietCalls
<1>11. x = r
  BY <1>1, <1>3
<1> QED
  BY <1>7, <1>10, <1>11

\* Each of them.
LEMMA LastEach ==
    ASSUME NEW M, NEW F, NEW p, NEW y, LastCalls(y, M, F, p), NEW i \in 1 .. Len(y)
    PROVE  \/ i = 1 /\ y[i].op = "vidrel" /\ y[i].pic = p
           \/ i = 2 /\ y[i].op = "post" /\ y[i].pic = p
           \/ i = 3 /\ y[i].op = "close"
<1>1. i = 1 \/ i = 2 \/ i = 3
  BY DEF LastCalls
<1> QED
  BY <1>1 DEF LastCalls

\* They are in their places.
LEMMA LastPlaced ==
    ASSUME NEW T, NEW F, NEW M \in Nat, NEW t, NEW b, NEW p, NEW y, LastCalls(y, M, F, p),
           Moved(T, F, M, t, b, y), p \in 1 .. made, made' = made, p \in dead', handle'[p] # "none", NEW i \in 1 .. Len(y)
    PROVE  Placed(todo, T, t, b + Len(y) + 1 - i)'
<1>1. PICK h : h = b + Len(y) + 1 - i
  OBVIOUS
<1>2. Len(y) = 3
  BY DEF LastCalls
<1>3. /\ Height(todo', t) = b + 3 /\ b \in Nat
      /\ Item(todo', t, b + 3) = y[1] /\ Item(todo', t, b + 2) = y[2] /\ Item(todo', t, b + 1) = y[3]
  <2>1. /\ b \in Nat /\ Height(todo', t) = b + Len(y)
        /\ \A j \in 1 .. Len(y) : Item(todo', t, b + Len(y) + 1 - j) = y[j]
    BY MovedIs
  <2>2. b + 3 + 1 - 1 = b + 3 /\ b + 3 + 1 - 2 = b + 2 /\ b + 3 + 1 - 3 = b + 1
    BY <2>1
  <2>3. 1 \in 1 .. Len(y) /\ 2 \in 1 .. Len(y) /\ 3 \in 1 .. Len(y)
    BY <1>2
  <2>4. Item(todo', t, b + 3 + 1 - 1) = y[1] /\ Item(todo', t, b + 3 + 1 - 2) = y[2] /\ Item(todo', t, b + 3 + 1 - 3) = y[3]
    BY <1>2, <2>1, <2>3
  <2> QED
    BY <1>2, <2>1, <2>2, <2>4
<1>4. p <= made'
  OBVIOUS
<1>5. CASE i = 1
  <2>1. h = Height(todo', t) /\ Item(todo', t, h) = y[1]
    BY <1>1, <1>2, <1>3, <1>5
  <2>2. Item(todo', t, h).op = "vidrel" /\ Item(todo', t, h).pic = p
    BY <2>1 DEF LastCalls
  <2>3. Placed(todo, T, t, h)'
    BY <1>4, <2>1, <2>2 DEF Placed, SoloOps
  <2> QED
    BY <1>1, <2>3
<1>6. CASE i = 2
  <2>1. h = Height(todo', t) - 1 /\ Item(todo', t, h) = y[2] /\ Item(todo', t, Height(todo', t)) = y[1]
    BY <1>1, <1>2, <1>3, <1>6
  <2>2. Item(todo', t, h).op = "post" /\ Item(todo', t, h).pic = p /\ Item(todo', t, Height(todo', t)).op = "vidrel"
    BY <2>1 DEF LastCalls
  <2>3. Placed(todo, T, t, h)'
    BY <1>4, <2>1, <2>2 DEF Placed, SoloOps
  <2> QED
    BY <1>1, <2>3
<1>7. CASE i = 3
  <2>1. Item(todo', t, h) = y[3]
    BY <1>1, <1>2, <1>3, <1>7
  <2>2. Item(todo', t, h).op = "close"
    BY <2>1 DEF LastCalls
  <2>3. Placed(todo, T, t, h)'
    BY <2>2 DEF Placed, SoloOps, PicOps
  <2> QED
    BY <1>1, <2>3
<1> QED
  BY <1>2, <1>5, <1>6, <1>7

\* It is the only e_set of this picture.
LEMMA LastPost ==
    ASSUME NEW T, NEW F, NEW M \in Nat, NEW t, NEW b, NEW p, NEW y, LastCalls(y, M, F, p),
           Moved(T, F, M, t, b, y), WindowPlaces(todo, T), OnePost(todo, T), p \notin dead
    PROVE  OnePost(todo, T)'
<1>1. \A u \in T : \A h \in 1 .. Height(todo, u) : Item(todo, u, h).op = "post" => Item(todo, u, h).pic # p
  BY DEF WindowPlaces, Placed
<1>2. Comes(todo, todo', T, t, b, y)
  BY MovedIs
<1>3. ASSUME NEW u \in T, NEW h \in 1 .. Height(todo', u), Item(todo', u, h).op = "post"
      PROVE  \/ h \in 1 .. Height(todo, u) /\ Item(todo', u, h) = Item(todo, u, h) /\ Item(todo', u, h).pic # p
             \/ u = t /\ h = b + Len(y) - 1 /\ Item(todo', u, h).pic = p
  <2>1. CASE h \in 1 .. Height(todo, u) /\ Item(todo', u, h) = Item(todo, u, h)
    BY <1>1, <1>3, <2>1
  <2>2. CASE u = t /\ \E i \in 1 .. Len(y) : h = b + Len(y) + 1 - i /\ Item(todo', u, h) = y[i]
    <3>1. PICK i \in 1 .. Len(y) : h = b + Len(y) + 1 - i /\ Item(todo', u, h) = y[i]
      BY <2>2
    <3>2. i = 2 /\ y[i].pic = p
      BY <1>3, <3>1, LastEach
    <3>3. b \in Nat /\ Len(y) \in Nat
      BY MovedIs
    <3>4. h = b + Len(y) - 1
      BY <3>1, <3>2, <3>3
    <3> QED
      BY <2>2, <3>1, <3>2, <3>4
  <2> QED
    BY <1>2, <2>1, <2>2 DEF Comes
<1> QED
  BY <1>3 DEF OnePost

\* The reference of the destructor takes the place of the pin's.
LEMMA LastPictures ==
    ASSUME NEW T, NEW F, NEW M \in Nat, NEW t, NEW b, NEW p \in 1 .. M, NEW y, LastCalls(y, M, F, p),
           Moved(T, F, M, t, b, y), \A h \in b + 1 .. Height(todo, t) : Item(todo, t, h).op = "release",
           p \notin dead, dead' = dead \cup {p}, wnd' = wnd, count' = count, made' = made, Pictures(T, F, M)
    PROVE  Pictures(T, F, M)'
<1>1. SUFFICES ASSUME NEW q \in 1 .. M, q <= made
               PROVE  count[q] = Number(todo', T, VidsOf(Items(M, F), q)) + One(wnd = q) + One(q \notin dead')
  BY DEF Pictures
<1>2. PICK K : K = VidsOf(Items(M, F), q)
  OBVIOUS
<1>3. count[q] = Number(todo, T, K) + One(wnd = q) + One(q \notin dead)
  BY <1>1, <1>2 DEF Pictures
<1>4. \A h \in b + 1 .. Height(todo, t) : Item(todo, t, h) \notin K
  BY <1>2 DEF VidsOf
<1>5. CASE q # p
  <2>1. \A i \in 1 .. Len(y) : y[i] \notin K
    BY <1>2, <1>5, LastEach DEF VidsOf
  <2>2. Number(todo', T, K) = Number(todo, T, K)
    BY <1>4, <2>1, SameNumber
  <2>3. q \notin dead' <=> q \notin dead
    BY <1>5
  <2> QED
    BY <1>2, <1>3, <2>2, <2>3 DEF One
<1>6. CASE q = p
  <2>1. Given(y, K) = 1
    <3>1. 1 \in 1 .. Len(y)
      BY DEF LastCalls
    <3>2. y[1] \in Items(M, F)
      BY <3>1, MovedIs
    <3>3. y[1] \in K
      BY <1>2, <1>6, <3>2 DEF LastCalls, VidsOf
    <3>4. \A i \in 1 .. Len(y) : i # 1 => y[i] \notin K
      BY <1>2, LastEach DEF VidsOf
    <3> QED
      BY <3>1, <3>3, <3>4, GivenOne
  <2>2. Dropped(todo, t, b, K) = 0
    BY <1>4, DroppedNone
  <2>3. /\ Number(todo', T, K) + Dropped(todo, t, b, K) = Number(todo, T, K) + Given(y, K)
        /\ Number(todo', T, K) \in Nat /\ Number(todo, T, K) \in Nat
    BY Tally
  <2>4. PICK m : m = Number(todo', T, K)
    OBVIOUS
  <2>5. PICK n : n = Number(todo, T, K)
    OBVIOUS
  <2>6. PICK v : v = One(wnd = q)
    OBVIOUS
  <2>7. m \in Nat /\ n \in Nat /\ m + 0 = n + 1
    BY <2>1, <2>2, <2>3, <2>4, <2>5
  <2>8. v \in Int
    BY <2>6 DEF One
  <2>9. One(q \notin dead) = 1 /\ One(q \notin dead') = 0
    BY <1>6 DEF One
  <2>10. count[q] = n + v + 1
    BY <1>3, <2>5, <2>6, <2>9
  <2>11. count[q] = m + v + 0
    BY <2>7, <2>8, <2>10
  <2> QED
    BY <1>2, <2>4, <2>6, <2>9, <2>11
<1> QED
  BY <1>5, <1>6

\* The window has still to be told.
LEMMA CalmAfterLast ==
    ASSUME NEW F, NEW M \in Nat, NEW t, NEW b, NEW p, NEW y, LastCalls(y, M, F, p),
           Moved(Viewer!Threads, F, M, t, b, y), Calm(Viewer!Threads), Newest(p), made \in Nat,
           dead' = dead \cup {p}, wnd' = wnd, msgs' = msgs, made' = made, lost' = lost, handle' = handle
    PROVE  Calm(Viewer!Threads)'
<1>1. PICK T : T = Viewer!Threads
  OBVIOUS
<1>2. /\ p = made /\ p \notin dead /\ handle[p] # "none" /\ wnd = made
      /\ \A i \in DOMAIN msgs : msgs[i].kind # "e_set" /\ msgs[i].pic = made
  BY DEF Newest
<1>3. Moved(T, F, M, t, b, y)
  BY <1>1
<1>4. PicPlace(todo', T, "post", made)
  <2>1. PushedAs(t, b, y) /\ t \in T /\ Len(y) = 3
    BY <1>3, IsPushed, MovedIs DEF LastCalls
  <2>2. b \in Nat /\ Height(todo', t) = b + 3
    BY <2>1 DEF PushedAs
  <2>3. 2 \in 1 .. Len(y)
    BY <2>1
  <2>4. PICK h : h = b + Len(y) + 1 - 2
    OBVIOUS
  <2>5. Item(todo', t, h) = y[2]
    BY <2>1, <2>3, <2>4 DEF PushedAs
  <2>6. h \in 1 .. Height(todo', t)
    BY <2>1, <2>2, <2>4
  <2>7. Item(todo', t, h).op = "post" /\ Item(todo', t, h).pic = made
    BY <1>2, <2>5 DEF LastCalls
  <2> QED
    BY <2>1, <2>6, <2>7 DEF PicPlace
<1>5. Showing(T)'
  BY <1>2, <1>4 DEF Showing
<1>6. ASSUME NEW q \in 1 .. made - 1
      PROVE  q \in lost' \cup dead' /\ ~PicPlace(todo', T, "post", q)
  <2>1. q \in lost \cup dead /\ ~PicPlace(todo, T, "post", q)
    BY <1>1, <1>6 DEF Calm
  <2>2. made \in Int => q # p
    BY <1>2, <1>6
  <2>3. made \in Int
    OBVIOUS
  <2>4. \A i \in 1 .. Len(y) : ~(y[i].op = "post" /\ y[i].pic = q)
    BY <2>2, <2>3, LastEach
  <2>5. ~PicPlace(todo', T, "post", q)
    BY <1>3, <2>1, <2>4, SamePlace
  <2> QED
    BY <2>1, <2>5
<1>7. msgs # <<>> => handle[made] # "none"
  BY <1>2
<1> QED
  BY <1>1, <1>2, <1>5, <1>6, <1>7 DEF Calm

LEMMA LastView ==
    ASSUME ViewInv, NEW t \in Viewer!Threads, NEW x,
           x = <<Viewer!OfPic("vidrel", Arg(t)), Viewer!OfPic("post", Arg(t))>>,
           refs[Arg(t)] = 1, Release(t, x), SameScreen
    PROVE  ViewInv'
<1>1. PICK T : T = Viewer!Threads
  OBVIOUS
<1>2. PICK B : B = {Viewer!UI}
  OBVIOUS
<1>3. PICK F : F = ViewerFrames
  OBVIOUS
<1>4. PICK M : M = MaxPins
  OBVIOUS
<1>5. PICK p : p = Arg(t)
  OBVIOUS
<1>6. /\ PinTypes(T, F, M) /\ IsFiniteSet(T) /\ IsFiniteSet(F) /\ M \in Nat /\ Reads \in Int
      /\ t \in T /\ made \in Nat /\ WindowPlaces(todo, T) /\ WindowTypes(M) /\ OnePost(todo, T) /\ Pictures(T, F, M)
  BY <1>1, <1>3, <1>4, ViewParts, ViewerSizes
<1>7. PinInv(T, Pool, F, M, B) /\ ViewerInv(T, F, M)
  BY <1>1, <1>2, <1>3, <1>4 DEF ViewInv, ViewPins
<1>8. At(t, "release") /\ "release" \in HasPin
  BY DEF Release, HasPin, PinOps
<1>9. /\ AtPin(T, Pool, F, M, t, p) /\ todo[t] # <<>> /\ Head(todo[t]).op = "release" /\ p \in 1 .. M
  BY <1>5, <1>6, <1>7, <1>8, AtCall
<1>10. PICK n : n = Height(todo, t)
  OBVIOUS
<1>11. /\ n \in 1 .. Height(todo, t) /\ n \in Nat /\ Item(todo, t, n) = Head(todo[t])
       /\ \A h \in n - 1 + 1 .. Height(todo, t) : h = n
  BY <1>6, <1>8, <1>10, AtSomewhere
<1>12. Item(todo, t, n).op = "release" /\ Item(todo, t, n).pin = p
  BY <1>5, <1>9, <1>11 DEF Arg
<1>13. p \notin dead
  BY <1>6, <1>7, <1>9, <1>11, <1>12, Lives DEF RefOps
<1>14. p \in 1 .. made /\ handle[p] # "none"
  <2>1. Known(todo, T)
    BY <1>7 DEF PinInv
  <2>2. "release" \in PinOps
    BY DEF PinOps
  <2>3. p <= made /\ handle[p] # "none"
    BY <1>6, <1>11, <1>12, <2>1, <2>2 DEF Known
  <2> QED
    BY <1>6, <1>9, <2>3
<1>15. PICK y : y = x \o <<On("close", p)>>
  OBVIOUS
<1>16. QuietCalls(x, M, F, p) /\ LastCalls(y, M, F, p)
  BY <1>5, <1>9, <1>15, LastCallsAre
<1>17. PinInv(T, Pool, F, M, B)'
  <2>1. B \subseteq B /\ QuietCalls(x, M, F, Arg(t))
    BY <1>5, <1>16
  <2> QED
    BY <1>6, <1>7, <2>1, ReleaseStep
<1>18. /\ dead' = dead \cup {p} /\ Do(t, y)
       /\ UNCHANGED <<pin, made, handle, lost>>
  BY <1>5, <1>15 DEF Release
<1>19. PICK b : b = n - 1
  OBVIOUS
<1>20. y \in Seq(Items(M, F))
  BY <1>16 DEF LastCalls
<1>21. Moved(T, F, M, t, b, y) /\ b < Height(todo, t)
  BY <1>6, <1>9, <1>10, <1>18, <1>19, <1>20, Doing
<1>22. \A h \in b + 1 .. Height(todo, t) : Item(todo, t, h).op = "release"
  BY <1>11, <1>12, <1>19
<1>23. UNCHANGED <<wnd, count, msgs, undefined, dialog, hasty>>
  BY DEF SameScreen
<1>24. KeptRight(T, t, b, y)
  <2>1. Item(todo, t, Height(todo, t)).op \notin {"set", "vidrel"}
    BY <1>10, <1>12
  <2>2. \A h \in b + 1 .. Height(todo, t) : Item(todo, t, h).op # "destroy" /\ Item(todo, t, h).op # "clear"
    BY <1>22
  <2>3. dead \subseteq dead' /\ made <= made'
    BY <1>6, <1>18
  <2> QED
    BY <1>6, <1>18, <1>21, <1>23, <2>1, <2>2, <2>3 DEF KeptRight
<1>25. \A i \in 1 .. Len(y) : Placed(todo, T, t, b + Len(y) + 1 - i)'
  <2>1. p \in dead' /\ handle'[p] # "none" /\ made' = made
    BY <1>14, <1>18
  <2> QED
    BY <1>6, <1>14, <1>16, <1>21, <2>1, LastPlaced
<1>26. WindowPlaces(todo, T)'
  BY <1>6, <1>21, <1>24, <1>25, WindowKept
<1>27. OnePost(todo, T)'
  BY <1>6, <1>13, <1>16, <1>21, LastPost
<1>28. Pictures(T, F, M)'
  BY <1>6, <1>9, <1>13, <1>16, <1>18, <1>21, <1>22, <1>23, LastPictures
<1>29. WindowTypes(M)'
  BY <1>6, <1>18, <1>23 DEF WindowTypes
<1>30. Closed(T)'
  <2>1. ASSUME dialog # "up"
        PROVE  msgs = <<>> /\ wnd = 0 /\ pin = 0 /\ ~Somewhere(todo', T, SoloOps)
    <3>1. msgs = <<>> /\ wnd = 0 /\ pin = 0 /\ ~Somewhere(todo, T, SoloOps)
      BY <1>7, <2>1 DEF ViewerInv, Closed
    <3>2. \A i \in 1 .. Len(y) : y[i].op \notin SoloOps
      BY <1>16, LastEach DEF SoloOps
    <3>3. ~Somewhere(todo', T, SoloOps)
      BY <1>21, <3>1, <3>2, SoloNone
    <3> QED
      BY <3>1, <3>3
  <2> QED
    BY <1>18, <1>23, <2>1 DEF Closed
<1>31. Ended(T)'
  <2>1. dialog # "exited"
    BY <1>6, <1>7, <1>9, NotExited
  <2> QED
    BY <1>23, <2>1 DEF Ended
<1>32. ASSUME ~hasty
       PROVE  undefined = {} /\ (dialog = "up" => Calm(T)')
  <2>1. undefined = {} /\ (dialog = "up" => Calm(T))
    BY <1>7, <1>32 DEF ViewerInv
  <2>2. ASSUME dialog = "up"
        PROVE  Calm(T)'
    <3>1. Calm(Viewer!Threads)
      BY <1>1, <2>1, <2>2
    <3>2. Newest(p)
      BY <1>11, <1>12, <3>1, IsNewest
    <3>3. Moved(Viewer!Threads, F, M, t, b, y)
      BY <1>1, <1>21
    <3> QED
      BY <1>1, <1>6, <1>16, <1>18, <1>23, <3>1, <3>2, <3>3, CalmAfterLast
  <2> QED
    BY <2>1, <2>2
<1>33. ViewerInv(T, F, M)'
  BY <1>23, <1>26, <1>27, <1>28, <1>29, <1>30, <1>31, <1>32 DEF ViewerInv
<1> QED
  BY <1>1, <1>2, <1>3, <1>4, <1>17, <1>33 DEF ViewInv, ViewPins

-----------------------------------------------------------------------------
\* The steps of the viewer are these.
LEMMA ViewerOwn ==
    ASSUME NEW t, Viewer!OwnStep(t)
    PROVE  Own_(t) \/ Clear(t)
<1>1. Viewer!Read(t) => Read(t)
  BY DEF Viewer!Read, Read, Viewer!ReadRef, ReadRef, Viewer!At, At, Viewer!Arg, Arg, Viewer!Do, Do, Viewer!With, With
<1>2. Viewer!IssueRead(t) => IssueRead(t)
  BY DEF Viewer!IssueRead, IssueRead, Viewer!CanLock, CanLock, Viewer!Frame, Frame, Viewer!At, At, Viewer!Arg, Arg,
         Viewer!Do, Do, Viewer!With, With, Viewer!On, On
<1>3. Viewer!Ioctl(t) => Ioctl(t)
  BY DEF Viewer!Ioctl, Ioctl, Viewer!Frame, Frame, Viewer!At, At, Viewer!Arg, Arg, Viewer!Do, Do, Viewer!With, With
<1>4. Viewer!Unlock(t) => Unlock(t)
  BY DEF Viewer!Unlock, Unlock, Viewer!At, At, Viewer!Arg, Arg, Viewer!Do, Do
<1>5. Viewer!PushFrame(t) => PushFrame(t)
  BY DEF Viewer!PushFrame, PushFrame, Viewer!Frame, Frame, Viewer!At, At, Viewer!Arg, Arg, Viewer!Do, Do
<1>6. Viewer!SetState(t) => SetState(t)
  BY DEF Viewer!SetState, SetState, Viewer!CanLock, CanLock, Viewer!At, At, Viewer!Arg, Arg, Viewer!Do, Do, Viewer!On, On
<1>7. Viewer!SetStop(t) => SetStop(t)
  BY DEF Viewer!SetStop, SetStop, Viewer!At, At, Viewer!Arg, Arg, Viewer!Do, Do
<1>8. Viewer!Close(t) => Close(t)
  BY DEF Viewer!Close, Close, Viewer!CanLock, CanLock, Viewer!At, At, Viewer!Arg, Arg, Viewer!Do, Do, Viewer!On, On
<1>9. Viewer!Clear(t) => Clear(t)
  BY DEF Viewer!Clear, Clear, Viewer!NoPin, NoPin, Viewer!At, At, Viewer!Do, Do
<1> QED
  BY <1>1, <1>2, <1>3, <1>4, <1>5, <1>6, <1>7, <1>8, <1>9 DEF Viewer!OwnStep, Own_

LEMMA ViewerAnswers ==
    /\ \A t, x : Viewer!NoRequest(t, x) => NoRequest(t, x)
    /\ \A t, x : Viewer!ReadFailed(t, x) => ReadFailed(t, x)
    /\ \A t, x : Viewer!Release(t, x) => Release(t, x)
    /\ \A p : Viewer!Fail(p) = Closes(p)
<1>1. \A t, x : Viewer!NoRequest(t, x) => NoRequest(t, x)
  BY DEF Viewer!NoRequest, NoRequest, Viewer!At, At, Viewer!Arg, Arg, Viewer!Do, Do
<1>2. \A t, x : Viewer!ReadFailed(t, x) => ReadFailed(t, x)
  BY DEF Viewer!ReadFailed, ReadFailed, Viewer!At, At, Viewer!Arg, Arg, Viewer!Do, Do, Viewer!Frame, Frame, Viewer!On, On
<1>3. \A t, x : Viewer!Release(t, x) => Release(t, x)
  BY DEF Viewer!Release, Release, Viewer!At, At, Viewer!Arg, Arg, Viewer!Do, Do, Viewer!On, On
<1>4. \A p : Viewer!Fail(p) = Closes(p)
  BY DEF Viewer!Fail, Closes, Viewer!On, On
<1> QED
  BY <1>1, <1>2, <1>3, <1>4

LEMMA ScreenStays ==
    ASSUME UNCHANGED <<Viewer!screen, Viewer!phases>>
    PROVE  SameScreen
<1>1. Viewer!screen' = Viewer!screen /\ Viewer!phases' = Viewer!phases
  OBVIOUS
<1>2. UNCHANGED <<wnd, count, msgs, undefined>>
  BY <1>1 DEF Viewer!screen
<1>3. UNCHANGED <<dialog, hasty>>
  BY <1>1 DEF Viewer!phases
<1> QED
  BY <1>2, <1>3 DEF SameScreen

\* The last reference is dropped, or another one.
LEMMA ReleaseView ==
    ASSUME ViewInv, NEW t \in Viewer!Threads, todo[t] # <<>>, NEW x,
           x = <<Viewer!OfPic("vidrel", Arg(t)), Viewer!OfPic("post", Arg(t))>>, Release(t, x), SameScreen
    PROVE  ViewInv'
<1>1. CASE refs[Arg(t)] = 1
  BY <1>1, LastView
<1>2. CASE refs[Arg(t)] # 1
  <2>1. PICK y : y = <<>>
    OBVIOUS
  <2>2. Release(t, y)
    BY <1>2, <2>1 DEF Release
  <2>3. Answers(t, y)
    BY <1>2, <2>2 DEF Answers
  <2> QED
    BY <2>1, <2>3, AnswerView
<1> QED
  BY <1>1, <1>2

\* All steps of the viewer's pins.
LEMMA PinStepView ==
    ASSUME ViewInv, NEW t \in Viewer!Threads, Viewer!PinStep(t)
    PROVE  ViewInv'
<1>1. SameScreen
  <2>1. UNCHANGED <<Viewer!screen, Viewer!phases>>
    BY Zenon DEF Viewer!PinStep
  <2> QED
    BY <2>1, ScreenStays
<1>2. CASE Viewer!OwnStep(t)
  BY <1>1, <1>2, ViewerOwn, OwnView, ClearView
<1>3. CASE todo[t] # <<>> /\ (Viewer!NoRequest(t, Viewer!Fail(Viewer!Arg(t))) \/ Viewer!ReadFailed(t, Viewer!Fail(Viewer!Arg(t))))
  <2>1. PICK x : x = Closes(Arg(t))
    OBVIOUS
  <2>2. NoRequest(t, x) \/ ReadFailed(t, x)
    BY <1>3, <2>1, ViewerAnswers, ViewerWords, Zenon
  <2>3. Answers(t, x)
    BY <1>3, <2>2 DEF Answers
  <2> QED
    BY <1>1, <2>1, <2>3, AnswerView
<1>4. CASE todo[t] # <<>> /\ Viewer!Release(t, Viewer!Destructor(Viewer!Arg(t)))
  <2>1. PICK x : x = <<Viewer!OfPic("vidrel", Arg(t)), Viewer!OfPic("post", Arg(t))>>
    OBVIOUS
  <2>2. Viewer!Destructor(Viewer!Arg(t)) = x
    BY <2>1, ViewerWords, Zenon DEF Viewer!Destructor
  <2>3. Release(t, x)
    BY <1>4, <2>2, ViewerAnswers, Zenon
  <2> QED
    BY <1>1, <1>4, <2>1, <2>3, ReleaseView
<1> QED
  BY <1>2, <1>3, <1>4, Zenon DEF Viewer!PinStep

LEMMA ViewerDelivered ==
    ASSUME ViewInv, NEW t \in Pool, Viewer!Delivered(t)
    PROVE  ViewInv'
<1>1. Viewer!ReadDone(t) /\ UNCHANGED <<Viewer!screen, dialog, yuy2, hasty>>
  BY DEF Viewer!Delivered
<1>2. ReadDone(t)
  BY <1>1 DEF Viewer!ReadDone, ReadDone, Viewer!Completion, Completion, Viewer!With, With, Viewer!On, On
<1>3. SameScreen
  BY <1>1 DEF Viewer!screen, SameScreen
<1> QED
  BY <1>2, <1>3, ReadDoneView

LEMMA OpeningView ==
    ASSUME ViewInv, Viewer!Opening
    PROVE  ViewInv'
<1>1. PICK t : t = Viewer!UI
  OBVIOUS
<1>2. t \in Viewer!Threads
  BY <1>1, ViewerSizes
<1>3. SameScreen
  <2>1. UNCHANGED <<Viewer!screen, Viewer!phases>>
    BY Zenon DEF Viewer!Opening
  <2> QED
    BY <2>1, ScreenStays
<1>4. CASE Viewer!Create(t, <<Viewer!Call("box")>>)
  <2>1. PICK e : e = Call("box")
    OBVIOUS
  <2>2. Viewer!Create(t, <<e>>)
    BY <1>4, <2>1, ViewerWords, Zenon
  <2>3. Creates(ViewerFrames, t, e)
    BY <2>2 DEF Viewer!Create, Creates, Viewer!At, At, Viewer!Arg, Arg, Viewer!Do, Do, Viewer!On, On
  <2> QED
    BY <1>2, <1>3, <2>1, <2>3, CreateView
<1>5. CASE Viewer!Run(t, <<Viewer!On("release", Viewer!Arg(t)), Viewer!Call("box")>>)
  <2>1. PICK x : x = <<On("release", Arg(t)), Call("box")>>
    OBVIOUS
  <2>2. Viewer!Run(t, x)
    BY <1>5, <2>1, ViewerWords, Zenon
  <2>3. Run(t, x)
    BY <2>2 DEF Viewer!Run, Run, Viewer!At, At, Viewer!Arg, Arg, Viewer!Do, Do, Viewer!Posts, Posts, Viewer!On, On
  <2> QED
    BY <1>2, <1>3, <2>1, <2>3, RunView, Zenon
<1> QED
  BY <1>1, <1>4, <1>5, Zenon DEF Viewer!Opening

\* Every step of the viewer keeps the invariant.
LEMMA ViewNext ==
    ASSUME ViewInv, Viewer!Next
    PROVE  ViewInv'
<1>1. CASE Viewer!OnOk
  BY <1>1, OnOkView
<1>2. CASE Viewer!Leave
  BY <1>2, LeaveView
<1>3. CASE Viewer!UIStep
  BY <1>3, SetView, WindowMessageView, OpeningView, BoxView, DestroyView, BeginRundownView DEF Viewer!UIStep
<1>4. CASE Viewer!RundownCompleted
  BY <1>4, RundownCompletedView
<1>5. ASSUME NEW t \in Viewer!Threads, Viewer!Step(t)
      PROVE  ViewInv'
  BY <1>5, PinStepView, VidReleaseView, ProcessView, PostView DEF Viewer!Step
<1>6. ASSUME NEW t \in Pool, Viewer!Delivered(t)
      PROVE  ViewInv'
  BY <1>6, ViewerDelivered
<1> QED
  BY <1>1, <1>2, <1>3, <1>4, <1>5, <1>6 DEF Viewer!Next

\* The beginning, and a step that changes nothing of this.
LEMMA ViewBegins ==
    ASSUME Viewer!Init
    PROVE  ViewInv
<1>1. PICK T : T = Viewer!Threads
  OBVIOUS
<1>2. PICK F : F = ViewerFrames
  OBVIOUS
<1>3. PICK M : M = MaxPins
  OBVIOUS
<1>4. IsFiniteSet(T) /\ M \in Nat /\ Reads \in Nat /\ Viewer!Pins = 1 .. M
  BY <1>1, <1>3, ViewerSizes
<1>5. NoPins(T, M)
  BY <1>1, <1>4 DEF Viewer!Init, Viewer!PinInit, Viewer!NoPin, NoPins
<1>6. ViewPins
  BY <1>1, <1>2, <1>3, <1>4, <1>5, PinBegins DEF ViewPins
<1>7. /\ \A t \in T : \A h \in 1 .. Height(todo, t) : FALSE
      /\ made = 0 /\ dead = {} /\ pin = 0
  BY <1>4, <1>5, NoneCounted DEF NoPins
<1>8. wnd = 0 /\ msgs = <<>> /\ undefined = {} /\ dialog = "up" /\ hasty = FALSE
  BY ViewerSizes DEF Viewer!Init
<1>9. count = [p \in 1 .. M |-> 0]
  BY <1>4 DEF Viewer!Init
<1>10. WindowTypes(M)
  <2>1. count \in [1 .. M -> Int]
    BY <1>9
  <2>2. msgs \in Seq(Kinds(M))
    BY <1>8
  <2>3. wnd \in 0 .. made
    BY <1>7, <1>8
  <2> QED
    BY <1>8, <2>1, <2>2, <2>3 DEF WindowTypes
<1>11. WindowPlaces(todo, T) /\ OnePost(todo, T)
  BY <1>7 DEF WindowPlaces, OnePost
<1>12. Pictures(T, F, M) /\ Closed(T) /\ Ended(T)
  BY <1>7, <1>8 DEF Pictures, Closed, Ended
<1>13. Calm(T)
  <2>1. Showing(T)
    BY <1>7, <1>8 DEF Showing
  <2>2. \A i \in DOMAIN msgs : FALSE
    BY <1>8
  <2>3. \A p \in 1 .. made - 1 : FALSE
    BY <1>7
  <2> QED
    BY <1>8, <2>1, <2>2, <2>3 DEF Calm
<1>14. ViewerInv(T, F, M)
  BY <1>8, <1>10, <1>11, <1>12, <1>13 DEF ViewerInv
<1> QED
  BY <1>1, <1>2, <1>3, <1>6, <1>14 DEF ViewInv

\* All that the invariant speaks of.
ViewCamera == <<PinCamera, wnd, count, msgs, undefined, dialog, hasty>>

LEMMA ViewStays ==
    ASSUME ViewInv, UNCHANGED ViewCamera
    PROVE  ViewInv'
<1>1. UNCHANGED PinCamera
  BY DEF ViewCamera
<1>2. UNCHANGED <<wnd, count, msgs, undefined, dialog, hasty>>
  BY DEF ViewCamera
<1>3. ViewPins'
  BY <1>1, PinStays DEF ViewInv, ViewPins
<1>4. UNCHANGED <<todo, pin, made, handle, dead, lost>>
  BY <1>1 DEF PinCamera
<1>5. PICK T : T = Viewer!Threads
  OBVIOUS
<1>6. PICK F : F = ViewerFrames
  OBVIOUS
<1>7. ViewerInv(T, F, MaxPins)
  BY <1>5, <1>6 DEF ViewInv
<1>8. WindowTypes(MaxPins)' /\ WindowPlaces(todo, T)' /\ OnePost(todo, T)' /\ Pictures(T, F, MaxPins)'
  <2>1. SameCamera
    BY <1>1, <1>2 DEF SameCamera
  <2>2. WindowPlaces(todo, T)' /\ OnePost(todo, T)'
    BY <1>7, <2>1, PlacesStay DEF ViewerInv
  <2>3. \A p : Number(todo', T, VidsOf(Items(MaxPins, F), p)) = Number(todo, T, VidsOf(Items(MaxPins, F), p))
    BY <2>1, PlacesStay
  <2>4. WindowTypes(MaxPins)'
    BY <1>2, <1>4, <1>7 DEF ViewerInv, WindowTypes
  <2>5. Pictures(T, F, MaxPins)'
    BY <1>2, <1>4, <1>7, <2>3 DEF ViewerInv, Pictures
  <2> QED
    BY <2>2, <2>4, <2>5
<1>9. Closed(T)' /\ Ended(T)'
  BY <1>2, <1>4, <1>7 DEF ViewerInv, Closed, Ended
<1>10. Calm(T) => Calm(T)'
  BY <1>2, <1>4 DEF Calm, Showing
<1>11. ViewerInv(T, F, MaxPins)'
  BY <1>2, <1>7, <1>8, <1>9, <1>10 DEF ViewerInv
<1> QED
  BY <1>3, <1>5, <1>6, <1>11 DEF ViewInv

-----------------------------------------------------------------------------
\* What the invariant says of the viewer's properties.  The places of a call that
\* lets a picture go, counted from the other end of the stacks.
LEMMA VidIs ==
    ASSUME NEW M, NEW F, NEW c \in Items(M, F), NEW p
    PROVE  c \in VidsOf(Items(M, F), p) <=> c = Viewer!OfPic("vidrel", p)
<1>1. CASE c \in [op : PlainOps]
  <2>1. c.op # "vidrel"
    BY <1>1 DEF PlainOps
  <2> QED
    BY <2>1, PicIs DEF VidsOf
<1>2. CASE c \in [op : PinOps, pin : 1 .. M]
  <2>1. c.op # "vidrel"
    BY <1>2 DEF PinOps
  <2> QED
    BY <2>1, PicIs DEF VidsOf
<1>3. CASE c \in [op : FrameOps, pin : 1 .. M, frame : F]
  <2>1. c.op # "vidrel"
    BY <1>3 DEF FrameOps
  <2> QED
    BY <2>1, PicIs DEF VidsOf
<1>4. CASE c \in [op : PicOps, pic : 1 .. M]
  <2>1. c.op = "vidrel" /\ c.pic = p => c = [op |-> "vidrel", pic |-> p]
    BY <1>4
  <2> QED
    BY <2>1, PicIs DEF VidsOf, Viewer!OfPic
<1> QED
  BY <1>1, <1>2, <1>3, <1>4 DEF Items

\* The places of those calls, as the module counts them.
VidIndices(T, p) == UNION {{t} \X {i \in DOMAIN todo[t] : todo[t][i] = Viewer!OfPic("vidrel", p)} : t \in T}

LEMMA InVidIndices ==
    ASSUME NEW T, NEW p, NEW y
    PROVE  y \in VidIndices(T, p) <=>
             \E t \in T : \E i \in DOMAIN todo[t] : y = <<t, i>> /\ todo[t][i] = Viewer!OfPic("vidrel", p)
BY DEF VidIndices

\* There are as many as the invariant counts.
LEMMA SameVids ==
    ASSUME NEW T, IsFiniteSet(T), NEW F, NEW M, PinTypes(T, F, M), NEW p
    PROVE  Cardinality(VidIndices(T, p)) = Number(todo, T, VidsOf(Items(M, F), p))
<1>1. PICK K : K = VidsOf(Items(M, F), p)
  OBVIOUS
<1>2. PICK P : P = PlacesOf(todo, T, K)
  OBVIOUS
<1>3. PICK D : D = VidIndices(T, p)
  OBVIOUS
<1>4. PICK v : v = Viewer!OfPic("vidrel", p)
  OBVIOUS
<1>5. \A t \in T : Height(todo, t) \in Nat /\ \A h \in 1 .. Height(todo, t) : Item(todo, t, h) \in Items(M, F)
  BY HeightIsNat DEF PinTypes
<1>6. \A t \in T : \A h \in 1 .. Height(todo, t) : Item(todo, t, h) \in K <=> Item(todo, t, h) = v
  BY <1>1, <1>4, <1>5, VidIs
<1>7. IsFiniteSet(P)
  BY <1>2, PlacesFinite DEF PinTypes
<1> DEFINE g == [x \in P |-> <<x[1], Height(todo, x[1]) + 1 - x[2]>>]
<1>8. ASSUME NEW x \in P
      PROVE  /\ x = <<x[1], x[2]>> /\ x[1] \in T /\ x[2] \in 1 .. Height(todo, x[1])
             /\ g[x] = <<x[1], Height(todo, x[1]) + 1 - x[2]>> /\ g[x] \in D
  <2>1. x = <<x[1], x[2]>> /\ x[1] \in T /\ x[2] \in 1 .. Height(todo, x[1]) /\ Item(todo, x[1], x[2]) \in K
    BY <1>2, <1>8, EachIsPlace
  <2>2. PICK t \in T : t = x[1]
    BY <2>1
  <2>3. PICK h \in 1 .. Height(todo, t) : h = x[2]
    BY <2>1, <2>2
  <2>4. PICK i : i = Height(todo, t) + 1 - h
    OBVIOUS
  <2>5. i \in DOMAIN todo[t] /\ todo[t][i] = v
    BY <1>6, <2>1, <2>2, <2>3, <2>4, Indices
  <2>6. <<t, i>> \in D
    BY <1>3, <1>4, <2>2, <2>5, InVidIndices
  <2>7. g[x] = <<t, i>>
    BY <2>2, <2>3, <2>4
  <2> QED
    BY <2>1, <2>6, <2>7
<1>9. ASSUME NEW y \in D
      PROVE  \E x \in P : g[x] = y
  <2>1. PICK t \in T : \E i \in DOMAIN todo[t] : y = <<t, i>> /\ todo[t][i] = v
    BY <1>3, <1>4, <1>9, InVidIndices
  <2>2. PICK i \in DOMAIN todo[t] : y = <<t, i>> /\ todo[t][i] = v
    BY <2>1
  <2>3. PICK h : h = Height(todo, t) + 1 - i
    OBVIOUS
  <2>4. h \in 1 .. Height(todo, t) /\ Item(todo, t, h) = v
    BY <2>2, <2>3, Indices
  <2>5. PICK x : x = <<t, h>>
    OBVIOUS
  <2>6. x \in P
    BY <1>2, <1>6, <2>4, <2>5, InPlaces
  <2>7. x[1] = t /\ x[2] = h
    BY <2>5
  <2>8. Height(todo, t) \in Nat /\ DOMAIN todo[t] = 1 .. Height(todo, t)
    <3>1. todo[t] \in Seq(Items(M, F))
      BY DEF PinTypes
    <3> QED
      BY <1>5, <3>1 DEF Height
  <2>9. Height(todo, t) + 1 - h = i
    BY <2>3, <2>8
  <2>10. g[x] = y
    BY <2>2, <2>6, <2>7, <2>9
  <2> QED
    BY <2>6, <2>10
<1>10. ASSUME NEW x \in P, NEW z \in P, g[x] = g[z]
       PROVE  x = z
  <2>1. /\ x = <<x[1], x[2]>> /\ z = <<z[1], z[2]>> /\ x[1] \in T /\ x[2] \in Int /\ z[2] \in Int
        /\ g[x] = <<x[1], Height(todo, x[1]) + 1 - x[2]>> /\ g[z] = <<z[1], Height(todo, z[1]) + 1 - z[2]>>
    BY <1>8, <1>10
  <2>2. x[1] = z[1] /\ Height(todo, x[1]) + 1 - x[2] = Height(todo, z[1]) + 1 - z[2]
    BY <1>10, <2>1
  <2>3. PICK n : n = Height(todo, x[1])
    OBVIOUS
  <2>4. n \in Nat
    BY <1>5, <2>1, <2>3
  <2>5. n + 1 - x[2] = n + 1 - z[2]
    BY <2>2, <2>3
  <2>6. x[2] = z[2]
    BY <2>1, <2>4, <2>5
  <2> QED
    BY <2>1, <2>2, <2>6
<1> HIDE DEF g
<1>11. g \in [P -> D]
  <2>1. g = [x \in P |-> g[x]]
    BY DEF g
  <2> QED
    BY <1>8, <2>1
<1>12. g \in Injection(P, D) /\ g \in Surjection(P, D)
  BY <1>9, <1>10, <1>11 DEF Injection, Surjection, IsInjective
<1>13. g \in Bijection(P, D)
  BY <1>12 DEF Bijection
<1>14. Cardinality(P) = Cardinality(D)
  BY <1>7, <1>13, FS_Bijection DEF ExistsBijection
<1> QED
  BY <1>1, <1>2, <1>3, <1>14 DEF Number

LEMMA OneCard ==
    ASSUME NEW w, NEW p, NEW S
    PROVE  Cardinality({w} \cap {p}) = One(w = p) /\ Cardinality({p} \ S) = One(p \notin S)
<1>1. Cardinality({p}) = 1 /\ Cardinality({}) = 0
  BY FS_Singleton, FS_EmptySet
<1>2. ASSUME NEW X, NEW b \in BOOLEAN, b => X = {p}, ~b => X = {}
      PROVE  Cardinality(X) = One(b)
  <2>1. CASE b
    BY <1>1, <1>2, <2>1 DEF One
  <2>2. CASE ~b
    BY <1>1, <1>2, <2>2 DEF One
  <2> QED
    BY <1>2, <2>1, <2>2
<1>3. /\ w = p => {w} \cap {p} = {p}
      /\ ~(w = p) => {w} \cap {p} = {}
  OBVIOUS
<1>4. /\ p \notin S => {p} \ S = {p}
      /\ ~(p \notin S) => {p} \ S = {}
  OBVIOUS
<1>5. Cardinality({w} \cap {p}) = One(w = p)
  BY <1>2, <1>3, Zenon
<1>6. Cardinality({p} \ S) = One(p \notin S)
  BY <1>2, <1>4, Zenon
<1> QED
  BY <1>5, <1>6

\* The accounts of the pictures are PictureIsCounted.
LEMMA ViewCounted ==
    ASSUME ViewInv
    PROVE  Viewer!PictureIsCounted
<1>1. SUFFICES ASSUME NEW p \in 1 .. made
               PROVE  count[p] = Viewer!Cardinality(Viewer!Dropping(p)) + Viewer!Cardinality({wnd} \cap {p})
                                   + Viewer!Cardinality({p} \ dead)
  BY Zenon DEF Viewer!PictureIsCounted
<1>2. PICK T : T = Viewer!Threads
  OBVIOUS
<1>3. PICK F : F = ViewerFrames
  OBVIOUS
<1>4. PICK M : M = MaxPins
  OBVIOUS
<1>5. PinTypes(T, F, M) /\ IsFiniteSet(T) /\ Pictures(T, F, M) /\ made \in Nat /\ made <= M /\ M \in Nat
  BY <1>2, <1>3, <1>4, ViewParts, ViewerSizes
<1>6. p \in 1 .. M /\ p <= made
  BY <1>1, <1>5
<1>7. Viewer!Dropping(p) = VidIndices(T, p)
  BY <1>2 DEF Viewer!Dropping, VidIndices
<1>8. Cardinality(VidIndices(T, p)) = Number(todo, T, VidsOf(Items(M, F), p))
  BY <1>5, SameVids
<1>9. Viewer!Cardinality(Viewer!Dropping(p)) = Number(todo, T, VidsOf(Items(M, F), p))
  BY <1>7, <1>8, ViewerCard
<1>10. Viewer!Cardinality({wnd} \cap {p}) = One(wnd = p) /\ Viewer!Cardinality({p} \ dead) = One(p \notin dead)
  <2>1. Cardinality({wnd} \cap {p}) = One(wnd = p) /\ Cardinality({p} \ dead) = One(p \notin dead)
    BY OneCard, ZenonT(40)
  <2>2. /\ Viewer!Cardinality({wnd} \cap {p}) = Cardinality({wnd} \cap {p})
        /\ Viewer!Cardinality({p} \ dead) = Cardinality({p} \ dead)
    BY ViewerCard, Zenon
  <2> QED
    BY <2>1, <2>2, Zenon
<1>11. count[p] = Number(todo, T, VidsOf(Items(M, F), p)) + One(wnd = p) + One(p \notin dead)
  BY <1>5, <1>6 DEF Pictures
<1> QED
  BY <1>9, <1>10, <1>11

\* The dialog's pin lives while the dialog has nothing to do.
LEMMA PinLives ==
    ASSUME NEW T, NEW Q, NEW F, IsFiniteSet(F), NEW M \in Nat, NEW B, PinInv(T, Q, F, M, B), IsFiniteSet(T),
           pin # 0, ~Somewhere(todo, T, {"clear"})
    PROVE  pin \in 1 .. made /\ pin \notin dead /\ pin \notin lost
<1>1. PICK p : p = pin
  OBVIOUS
<1>2. PinTypes(T, F, M) /\ PinBooks(T, F, M)
  BY DEF PinInv
<1>3. p \in 1 .. made /\ p \in 1 .. M /\ p \notin lost
  BY <1>1, <1>2 DEF PinTypes
<1>4. Owned(T, p)
  BY <1>1 DEF Owned
<1>5. /\ refs[p] = Cardinality(posted[p]) + Number(todo, T, RefsOf(Items(M, F), p)) + One(p \in lost \/ Owned(T, p))
      /\ p \in dead => refs[p] = 0
  BY <1>2, <1>3 DEF PinBooks, PinBook
<1>6. One(p \in lost \/ Owned(T, p)) = 1
  BY <1>4 DEF One
<1>7. Cardinality(posted[p]) \in Nat
  <2>1. posted[p] \in SUBSET F
    BY <1>2, <1>3 DEF PinTypes
  <2> QED
    BY <2>1, CardNat
<1>8. Number(todo, T, RefsOf(Items(M, F), p)) \in Nat
  BY <1>2, PlacesFinite DEF PinTypes
<1>9. refs[p] # 0
  BY <1>5, <1>6, <1>7, <1>8
<1> QED
  BY <1>1, <1>3, <1>5, <1>9

\* While nothing is to be done, the window shows the dialog's pin, or none.
LEMMA ViewShown ==
    ASSUME ViewInv
    PROVE  Viewer!PictureIsShown
<1>1. PICK T : T = Viewer!Threads
  OBVIOUS
<1>2. /\ PinTypes(T, ViewerFrames, MaxPins) /\ IsFiniteSet(T) /\ WindowPlaces(todo, T) /\ Closed(T)
      /\ IsFiniteSet(ViewerFrames) /\ MaxPins \in Nat /\ Viewer!UI \in T /\ Viewer!NoPin = 0 /\ made \in Nat
  BY <1>1, ViewParts, ViewerSizes
<1>3. ~hasty => undefined = {} /\ (dialog = "up" => Calm(T))
  BY <1>1 DEF ViewInv, ViewerInv
<1>4. ASSUME ~hasty, pin # 0, todo[Viewer!UI] = <<>>
      PROVE  wnd = pin
  <2>1. ~Somewhere(todo, T, {"set"}) /\ ~Somewhere(todo, T, {"clear"})
    BY <1>2, <1>4, UIIdles
  <2>2. PinInv(T, Pool, ViewerFrames, MaxPins, {Viewer!UI})
    BY <1>1 DEF ViewInv, ViewPins
  <2>3. pin \in 1 .. made /\ pin \notin dead /\ pin \notin lost
    BY <1>2, <1>4, <2>1, <2>2, PinLives
  <2>4. dialog = "up"
    BY <1>2, <1>4 DEF Closed
  <2>5. Calm(T)
    BY <1>3, <1>4, <2>4
  <2>6. pin = made
    <3>1. \A p \in 1 .. made - 1 : p \in lost \cup dead
      BY <2>5 DEF Calm
    <3>2. pin \notin 1 .. made - 1
      BY <2>3, <3>1
    <3> QED
      BY <1>2, <2>3, <3>2
  <2> QED
    BY <2>1, <2>3, <2>5, <2>6 DEF Calm, Showing
<1> QED
  BY <1>2, <1>3, <1>4 DEF Viewer!PictureIsShown, Viewer!UIIdle

\* When the process ends, nothing is left.
LEMMA ViewClean ==
    ASSUME ViewInv
    PROVE  Viewer!ExitsClean
<1>1. PICK T : T = Viewer!Threads
  OBVIOUS
<1>2. MaxPins \in Nat /\ Closed(T) /\ Ended(T)
  BY <1>1, ViewParts, ViewerSizes
<1>3. PinInv(T, Pool, ViewerFrames, MaxPins, {Viewer!UI})
  BY <1>1 DEF ViewInv, ViewPins
<1>4. ASSUME dialog = "exited"
      PROVE  \A p \in 1 .. made : ~running[p] /\ handle[p] \in {"none", "closed"}
  <2>1. pin = 0 /\ \A t \in T : todo[t] = <<>>
    BY <1>2, <1>4 DEF Closed, Ended
  <2> QED
    BY <1>2, <1>3, <2>1, OffWhenIdle
<1> QED
  BY <1>4 DEF Viewer!ExitsClean

-----------------------------------------------------------------------------
\* The invariant of whichever size it is.
MCInv ==
    /\ size \in {"two_pins", "one_pin", "viewer"}
    /\ size = "two_pins" => CapInv(Threads, Pool, Frames, MaxPins)
    /\ size = "one_pin" => CapInv(OnePin!Threads, TwoPool, MoreFrames, 1)
    /\ size = "viewer" => ViewInv

LEMMA CameraSafe ==
    ASSUME NEW T, IsFiniteSet(T), NEW Q, NEW F, IsFiniteSet(F), NEW M \in Nat, CapInv(T, Q, F, M)
    PROVE  Safe(T, Q, F)
<1>1. CASE overlap = FALSE
  BY <1>1, CapSafe DEF CapInv
<1>2. CASE overlap # FALSE
  BY <1>2 DEF CapInv
<1> QED
  BY <1>1, <1>2

\* The properties of the modules, of their threads and frames.
LEMMA TwoPinsSafe ==
    ASSUME Safe(Threads, Pool, Frames)
    PROVE  OnePlacePerFrame /\ PinOutlivesUse /\ EveryReadIsReplaced /\ CameraOffAfterSession
<1>1. OnePlacePerFrame
  BY DEF Safe, OnePlace, Apart, HandsOf, OnePlacePerFrame
<1>2. PinOutlivesUse
  BY DEF Safe, Outlives, PinOutlivesUse
<1>3. EveryReadIsReplaced
  BY DEF Safe, Spare, EveryReadIsReplaced
<1>4. CameraOffAfterSession
  BY DEF Safe, Off, CameraOffAfterSession, NoPin
<1> QED
  BY <1>1, <1>2, <1>3, <1>4

LEMMA OnePinCard == \A S : OnePin!Cardinality(S) = Cardinality(S)
BY DEF OnePin!Cardinality, Cardinality

LEMMA OnePinSafe ==
    ASSUME Safe(OnePin!Threads, TwoPool, MoreFrames)
    PROVE  OnePin!OnePlacePerFrame /\ OnePin!PinOutlivesUse /\ OnePin!EveryReadIsReplaced
           /\ OnePin!CameraOffAfterSession
<1>1. \A t, p : OnePin!InHand(t, p) = InHand(t, p) /\ OnePin!Pending(t, p) = Pending(t, p)
  BY DEF OnePin!InHand, InHand, OnePin!Pending, Pending
<1>2. OnePin!OnePlacePerFrame
  BY <1>1 DEF Safe, OnePlace, Apart, HandsOf, OnePin!OnePlacePerFrame
<1>3. OnePin!PinOutlivesUse
  BY <1>1 DEF Safe, Outlives, OnePin!PinOutlivesUse
<1>4. OnePin!EveryReadIsReplaced
  BY OnePinCard DEF Safe, Spare, OnePin!EveryReadIsReplaced
<1>5. OnePin!CameraOffAfterSession
  BY DEF Safe, Off, OnePin!CameraOffAfterSession, OnePin!NoPin
<1> QED
  BY <1>2, <1>3, <1>4, <1>5

LEMMA ViewerPinsCard == \A S : ViewerPins!Cardinality(S) = Cardinality(S)
BY DEF ViewerPins!Cardinality, Cardinality

LEMMA ViewerSafe ==
    ASSUME ViewInv
    PROVE  ViewerPins!OnePlacePerFrame /\ ViewerPins!PinOutlivesUse /\ ViewerPins!EveryReadIsReplaced
<1>1. \A t, p : ViewerPins!InHand(t, p) = InHand(t, p) /\ ViewerPins!Pending(t, p) = Pending(t, p)
  BY DEF ViewerPins!InHand, InHand, ViewerPins!Pending, Pending
<1>2. ViewerPins!Threads = Viewer!Threads
  BY DEF ViewerPins!Threads, Viewer!Threads
<1>3. ViewPins
  BY DEF ViewInv
<1>4. OnePlace(Viewer!Threads, ViewerFrames)
  BY <1>3, ViewerSizes, FramesInPlace DEF ViewPins
<1>5. Outlives(Viewer!Threads)
  BY <1>3, ViewerSizes, PinsOutlive DEF ViewPins
<1>6. Spare(Pool, ViewerFrames)
  BY <1>3 DEF ViewPins, PinInv
<1>7. ViewerPins!OnePlacePerFrame
  BY <1>1, <1>2, <1>4 DEF OnePlace, Apart, HandsOf, ViewerPins!OnePlacePerFrame
<1>8. ViewerPins!PinOutlivesUse
  BY <1>1, <1>2, <1>5 DEF Outlives, ViewerPins!PinOutlivesUse
<1>9. ViewerPins!EveryReadIsReplaced
  BY <1>6, ViewerPinsCard DEF Spare, ViewerPins!EveryReadIsReplaced
<1> QED
  BY <1>7, <1>8, <1>9

\* All three begin with it,
LEMMA MCBegins == MCInit => MCInv
<1>1. ASSUME size = "two_pins", Init PROVE MCInv
  BY <1>1, CaptureBegins DEF MCInv
<1>2. ASSUME size = "one_pin", OnePin!Init PROVE MCInv
  BY <1>2, OnePinBegins DEF MCInv
<1>3. ASSUME size = "viewer", Viewer!Init PROVE MCInv
  BY <1>3, ViewBegins DEF MCInv
<1> QED
  BY <1>1, <1>2, <1>3 DEF MCInit

LEMMA CaptureKeeps ==
    ASSUME CapInv(Threads, Pool, Frames, MaxPins), [Next]_vars
    PROVE  CapInv(Threads, Pool, Frames, MaxPins)'
<1>1. CASE Next
  BY <1>1, CaptureNext, CapKeeps, Sizes
<1>2. CASE UNCHANGED vars
  <2>1. UNCHANGED Camera
    BY <1>2 DEF vars, session, pinVars, Camera
  <2> QED
    BY <2>1, CapStays
<1> QED
  BY <1>1, <1>2

\* and keep it.
LEMMA MCKeeps ==
    ASSUME MCInv, [MCNext]_<<vars, viewer, size>>
    PROVE  MCInv'
<1>1. CASE UNCHANGED <<vars, viewer, size>>
  <2>1. size' = size /\ UNCHANGED Camera /\ UNCHANGED ViewCamera
    BY <1>1 DEF vars, viewer, session, pinVars, Camera, ViewCamera, PinCamera
  <2>2. CapInv(Threads, Pool, Frames, MaxPins) => CapInv(Threads, Pool, Frames, MaxPins)'
    BY <2>1, CapStays
  <2>3. CapInv(OnePin!Threads, TwoPool, MoreFrames, 1) => CapInv(OnePin!Threads, TwoPool, MoreFrames, 1)'
    BY <2>1, CapStays
  <2>4. ViewInv => ViewInv'
    BY <2>1, ViewStays
  <2> QED
    BY <2>1, <2>2, <2>3, <2>4 DEF MCInv
<1>2. ASSUME size' = size, size = "two_pins", Next PROVE MCInv'
  BY <1>2, CaptureKeeps DEF MCInv
<1>3. ASSUME size' = size, size = "one_pin", OnePin!Next PROVE MCInv'
  <2>1. CapInv(OnePin!Threads, TwoPool, MoreFrames, 1)'
    BY <1>3, OnePinNext, CapKeeps, OnePinSizes, Sizes DEF MCInv
  <2> QED
    BY <1>3, <2>1 DEF MCInv
<1>4. ASSUME size' = size, size = "viewer", Viewer!Next PROVE MCInv'
  BY <1>4, ViewNext DEF MCInv
<1> QED
  BY <1>1, <1>2, <1>3, <1>4 DEF MCNext

\* The invariant holds in every state of the three compositions that the run checks.
THEOREM MCInvariant == MCSpec => []MCInv
BY MCBegins, MCKeeps, PTL DEF MCSpec

\* It implies the four properties that the run checks.
LEMMA MCSafe ==
    ASSUME MCInv
    PROVE  FramesGoRound /\ PinInUse /\ CameraOff /\ PictureInWindow
<1>1. size = "two_pins" =>
        OnePlacePerFrame /\ PinOutlivesUse /\ EveryReadIsReplaced /\ CameraOffAfterSession
  BY CameraSafe, TwoPinsSafe, Sizes DEF MCInv
<1>2. size = "one_pin" =>
        OnePin!OnePlacePerFrame /\ OnePin!PinOutlivesUse /\ OnePin!EveryReadIsReplaced
        /\ OnePin!CameraOffAfterSession
  BY CameraSafe, OnePinSafe, OnePinSizes DEF MCInv
<1>3. size = "viewer" =>
        ViewerPins!OnePlacePerFrame /\ ViewerPins!PinOutlivesUse /\ ViewerPins!EveryReadIsReplaced
  BY ViewerSafe DEF MCInv
<1>4. size = "viewer" => Viewer!ExitsClean /\ Viewer!PictureIsCounted /\ Viewer!PictureIsShown
  BY ViewClean, ViewCounted, ViewShown DEF MCInv
<1>5. size \in {"two_pins", "one_pin", "viewer"}
  BY DEF MCInv
<1>6. FramesGoRound
  BY <1>1, <1>2, <1>3, <1>5 DEF FramesGoRound, Of
<1>7. PinInUse
  BY <1>1, <1>2, <1>3, <1>5 DEF PinInUse, Of
<1>8. CameraOff
  BY <1>1, <1>2, <1>4, <1>5 DEF CameraOff, Of
<1>9. PictureInWindow
  BY <1>4 DEF PictureInWindow
<1> QED
  BY <1>6, <1>7, <1>8, <1>9

\* The frames go round, in all three compositions: a buffer is in one place and each read
\* that completes is followed by another (KsRead::Read, OnReadComplete, ProcessFrame).
THEOREM FramesGoRoundAlways == MCSpec => []FramesGoRound
BY MCInvariant, MCSafe, PTL

\* A pin outlives every use of it (KsRead's AddRef and Release, the owner's pointer).
THEOREM PinInUseAlways == MCSpec => []PinInUse
BY MCInvariant, MCSafe, PTL

\* After the session, or the viewer's process, every handle of the camera is closed and
\* no pin runs (CEncTcp::Stop, ~KsRead, g_IoRundown).
THEOREM CameraOffAlways == MCSpec => []CameraOff
BY MCInvariant, MCSafe, PTL

\* The viewer frees a picture once, when nobody uses it, and its window shows the picture
\* of its pin (CVidBuf's references, e_set and e_update).
THEOREM PictureInWindowAlways == MCSpec => []PictureInWindow
BY MCInvariant, MCSafe, PTL

\* Capture on its own, for any number of threads, frames and pins: the invariant.
THEOREM CaptureInvariant == Spec => []CapInv(Threads, Pool, Frames, MaxPins)
BY CaptureBegins, CaptureKeeps, PTL DEF Spec

LEMMA CaptureSafe ==
    ASSUME CapInv(Threads, Pool, Frames, MaxPins)
    PROVE  OnePlacePerFrame /\ PinOutlivesUse /\ EveryReadIsReplaced /\ CameraOffAfterSession
BY CameraSafe, TwoPinsSafe, Sizes

\* A frame buffer of a pin is in one place: free, pending, or in the hands of one thread.
THEOREM OnePlaceAlways == Spec => []OnePlacePerFrame
BY CaptureInvariant, CaptureSafe, PTL

\* A pin is destroyed after its last use: no read is pending then, nobody owns it, and no
\* thread has a call of it but to close its handle.
THEOREM OutlivesAlways == Spec => []PinOutlivesUse
BY CaptureInvariant, CaptureSafe, PTL

\* With a buffer for each read and each thread of the pool no read is ever skipped.
THEOREM ReplacedAlways == Spec => []EveryReadIsReplaced
BY CaptureInvariant, CaptureSafe, PTL

\* When a session is over and all threads are idle, the camera is off.
THEOREM OffAlways == Spec => []CameraOffAfterSession
BY CaptureInvariant, CaptureSafe, PTL
=============================================================================
