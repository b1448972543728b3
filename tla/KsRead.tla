------------------------------- MODULE KsRead -------------------------------
(***************************************************************************)
(* KsRead, an open pin of the camera with its frame buffers and its        *)
(* asynchronous reads, as the server and the local viewer have it; and     *)
(* what it uses of IO_OBJECT, its reference count and the lock of its      *)
(* handle, which is as module RundownSpec has it.                          *)
(*                                                                         *)
(* Calls nest: the completion of a read may end the session or the pin,    *)
(* the last reference runs a destructor, and so on.  Each thread therefore *)
(* has a list of what it still has to do; a step takes the first entry and *)
(* may put the calls it makes in front of the rest.  What differs between  *)
(* the programs is a list of calls, which they pass to the actions.        *)
(***************************************************************************)
EXTENDS Integers, FiniteSets, Sequences

CONSTANTS Owners,       \* the threads that start and stop pins
          Pool,         \* the threads that run the pins' completions
          Frames,       \* the frame buffers of a pin (16 in the code)
          Reads,        \* the reads Start posts (8 in the code)
          MaxPins       \* bound on the pins created

ASSUME ThreadsAssumption == Owners \cap Pool = {} /\ IsFiniteSet(Owners) /\ IsFiniteSet(Pool)
ASSUME FramesAssumption == IsFiniteSet(Frames) /\ Reads \in 1 .. Cardinality(Frames)
ASSUME PinsAssumption == MaxPins \in Nat \ {0}

Threads == Owners \cup Pool
Pins == 1 .. MaxPins
NoPin == 0

VARIABLES
    todo,           \* per thread: the calls it still has to make
    pin,            \* the owner's _pin
    made,           \* pins created so far
    handle, users,  \* per pin: its handle, and who has it locked
    refs,           \* per pin: m_nRef
    running,        \* per pin: the camera delivers frames to it
    free,           \* per pin: _head, the frame buffers not in use
    posted,         \* per pin: the reads the driver has, by their buffers
    dead,           \* the pins destroyed
    lost,           \* history: the pins the owner forgot after Create had failed
    dry             \* history: a read completed when no buffer was free

pinVars == <<todo, pin, made, handle, users, refs, running, free, posted, dead, lost, dry>>

PinTypeOK ==
    /\ made \in 0 .. MaxPins /\ pin \in {NoPin} \cup 1 .. made
    /\ handle \in [Pins -> {"none", "open", "closing", "closed"}]
    /\ users \in [Pins -> SUBSET Threads] /\ refs \in [Pins -> Nat]
    /\ running \in [Pins -> BOOLEAN]
    /\ free \in [Pins -> SUBSET Frames] /\ posted \in [Pins -> SUBSET Frames]
    /\ dead \subseteq 1 .. made /\ lost \subseteq 1 .. made /\ dry \in BOOLEAN

PinInit ==
    /\ todo = [t \in Threads |-> <<>>] /\ pin = NoPin /\ made = 0
    /\ handle = [p \in Pins |-> "none"] /\ users = [p \in Pins |-> {}]
    /\ refs = [p \in Pins |-> 0] /\ running = [p \in Pins |-> FALSE]
    /\ free = [p \in Pins |-> {}] /\ posted = [p \in Pins |-> {}]
    /\ dead = {} /\ lost = {} /\ dry = FALSE

Call(op) == [op |-> op]
On(op, p) == [op |-> op, pin |-> p]
With(op, p, f) == [op |-> op, pin |-> p, frame |-> f]

At(t, op) == todo[t] # <<>> /\ Head(todo[t]).op = op
Arg(t) == Head(todo[t]).pin
Frame(t) == Head(todo[t]).frame
\* The call is over; it made these calls, and they come first.
Do(t, calls) == todo' = [todo EXCEPT ![t] = calls \o Tail(@)]

-----------------------------------------------------------------------------
\* The constructor, called with nothing else to do first.
NewPin(t, calls) ==
    /\ made < MaxPins
    /\ made' = made + 1
    /\ refs' = [refs EXCEPT ![made + 1] = 1]
    /\ Do(t, calls)
    /\ UNCHANGED <<pin, handle, users, running, free, posted, dead, lost, dry>>

\* Create; when it fails, the owner forgets the pin and nobody releases it.
Create(t, failed) ==
    /\ At(t, "create")
    /\ \/ /\ handle' = [handle EXCEPT ![Arg(t)] = "open"]
          /\ free' = [free EXCEPT ![Arg(t)] = Frames]
          /\ Do(t, <<On("run", Arg(t))>>)
          /\ UNCHANGED lost
       \/ /\ lost' = lost \cup {Arg(t)}
          /\ Do(t, failed)
          /\ UNCHANGED <<handle, free>>
    /\ UNCHANGED <<pin, made, users, refs, running, posted, dead, dry>>

\* SetState(KSSTATE_RUN), then _pin is set and Start posts the reads; or it fails.
Posts_OneMore == Reads + 1  \* mutant: the loop runs once too often
Posts == Reads

Run(t, failed) ==
    /\ At(t, "run")
    /\ \/ /\ running' = [running EXCEPT ![Arg(t)] = TRUE]
          /\ pin' = Arg(t)
          /\ Do(t, [i \in 1 .. Posts |-> On("read", Arg(t))])
       \/ /\ Do(t, failed)
          /\ UNCHANGED <<running, pin>>
    /\ UNCHANGED <<made, handle, users, refs, free, posted, dead, lost, dry>>

\* Read takes a free buffer, if there is one, and makes a request, which takes a
\* reference.
ReadRef(p) == refs' = [refs EXCEPT ![p] = @ + 1]

Read(t) ==
    /\ At(t, "read")
    /\ \/ \E f \in free[Arg(t)] :
            /\ free' = [free EXCEPT ![Arg(t)] = @ \ {f}]
            /\ ReadRef(Arg(t))
            /\ Do(t, <<With("issue", Arg(t), f)>>)
            /\ UNCHANGED dry
       \/ /\ free[Arg(t)] = {}
          /\ dry' = TRUE
          /\ Do(t, <<>>)
          /\ UNCHANGED <<free, refs>>
    /\ UNCHANGED <<pin, made, handle, users, running, posted, dead, lost>>

\* No memory for the request: the buffer goes back, and the completion routine is
\* called without one.
NoRequest(t, failed) ==
    /\ At(t, "read") /\ free[Arg(t)] # {}
    /\ Do(t, failed)
    /\ UNCHANGED <<pin, made, handle, users, refs, running, free, posted, dead, lost, dry>>

\* LockHandle.
CanLock(p) == handle[p] = "open"

IssueRead(t) ==
    /\ At(t, "issue")
    /\ IF CanLock(Arg(t))
       THEN /\ users' = [users EXCEPT ![Arg(t)] = @ \cup {t}]
            /\ Do(t, <<With("ioctl", Arg(t), Frame(t)), On("unlock", Arg(t))>>)
       ELSE Do(t, <<With("fail", Arg(t), Frame(t))>>) /\ UNCHANGED users
    /\ UNCHANGED <<pin, made, handle, refs, running, free, posted, dead, lost, dry>>

\* NtDeviceIoControlFile: pending, or an error, which is completed after the
\* handle was unlocked.
Ioctl(t) ==
    /\ At(t, "ioctl")
    /\ \/ /\ posted' = [posted EXCEPT ![Arg(t)] = @ \cup {Frame(t)}]
          /\ Do(t, <<>>)
       \/ /\ todo' = [todo EXCEPT ![t] =
                <<todo[t][2], With("fail", Arg(t), Frame(t))>> \o SubSeq(@, 3, Len(@))]
          /\ UNCHANGED posted
    /\ UNCHANGED <<pin, made, handle, users, refs, running, free, dead, lost, dry>>

\* UnlockHandle: the last one closes a handle that was run down.
Unlock(t) ==
    /\ At(t, "unlock")
    /\ users' = [users EXCEPT ![Arg(t)] = @ \ {t}]
    /\ IF handle[Arg(t)] = "closing" /\ users[Arg(t)] = {t}
       THEN /\ handle' = [handle EXCEPT ![Arg(t)] = "closed"]
            /\ running' = [running EXCEPT ![Arg(t)] = FALSE]
       ELSE UNCHANGED <<handle, running>>
    /\ Do(t, <<>>)
    /\ UNCHANGED <<pin, made, refs, free, posted, dead, lost, dry>>

\* A read completes: with a frame while the pin is open, with an error at any
\* time; a closed pin's reads are cancelled.
Completion_PushFirst(p, f) ==   \* mutant: the buffer is given back before it is used
    <<With("push", p, f), On("read", p), With("process", p, f), On("release", p)>>
Completion_ReleasesFirst(p, f) ==   \* mutant: the reference is dropped before the frame is used
    <<On("read", p), On("release", p), With("process", p, f), With("push", p, f)>>
Completion(p, f) ==
    <<On("read", p), With("process", p, f), With("push", p, f), On("release", p)>>

ReadDone(t) ==
    /\ todo[t] = <<>>
    /\ \E p \in 1 .. made : \E f \in posted[p] :
         /\ posted' = [posted EXCEPT ![p] = @ \ {f}]
         /\ \/ handle[p] # "closed" /\ todo' = [todo EXCEPT ![t] = Completion(p, f)]
            \/ todo' = [todo EXCEPT ![t] = <<With("fail", p, f)>>]
    /\ UNCHANGED <<pin, made, handle, users, refs, running, free, dead, lost, dry>>

\* IOCompletionRoutine with an error: the buffer is free.
ReadFailed(t, failed) ==
    /\ At(t, "fail")
    /\ free' = [free EXCEPT ![Arg(t)] = @ \cup {Frame(t)}]
    /\ Do(t, failed \o <<On("release", Arg(t))>>)
    /\ UNCHANGED <<pin, made, handle, users, refs, running, posted, dead, lost, dry>>

PushFrame(t) ==
    /\ At(t, "push")
    /\ free' = [free EXCEPT ![Arg(t)] = @ \cup {Frame(t)}]
    /\ Do(t, <<>>)
    /\ UNCHANGED <<pin, made, handle, users, refs, running, posted, dead, lost, dry>>

\* KsRead::Stop: SetState(KSSTATE_STOP), Close.
StopCalls(p) == <<On("setstate", p), On("close", p)>>

SetState(t) ==
    /\ At(t, "setstate")
    /\ IF CanLock(Arg(t))
       THEN /\ users' = [users EXCEPT ![Arg(t)] = @ \cup {t}]
            /\ Do(t, <<On("setstop", Arg(t)), On("unlock", Arg(t))>>)
       ELSE Do(t, <<>>) /\ UNCHANGED users
    /\ UNCHANGED <<pin, made, handle, refs, running, free, posted, dead, lost, dry>>

SetStop(t) ==
    /\ At(t, "setstop")
    /\ running' = [running EXCEPT ![Arg(t)] = FALSE]
    /\ Do(t, <<>>)
    /\ UNCHANGED <<pin, made, handle, users, refs, free, posted, dead, lost, dry>>

\* IO_OBJECT::Close.
Close(t) ==
    /\ At(t, "close")
    /\ IF CanLock(Arg(t))
       THEN /\ users' = [users EXCEPT ![Arg(t)] = @ \cup {t}]
            /\ handle' = [handle EXCEPT ![Arg(t)] = "closing"]
            /\ Do(t, <<On("unlock", Arg(t))>>)
       ELSE Do(t, <<>>) /\ UNCHANGED <<users, handle>>
    /\ UNCHANGED <<pin, made, refs, running, free, posted, dead, lost, dry>>

\* The last reference: the program's destructor, then IO_OBJECT's closes the handle.
Release(t, destructor) ==
    /\ At(t, "release")
    /\ refs' = [refs EXCEPT ![Arg(t)] = @ - 1]
    /\ IF refs[Arg(t)] = 1
       THEN /\ dead' = dead \cup {Arg(t)}
            /\ Do(t, destructor \o <<On("close", Arg(t))>>)
       ELSE Do(t, <<>>) /\ UNCHANGED dead
    /\ UNCHANGED <<pin, made, handle, users, running, free, posted, lost, dry>>

\* The owner's _pin = 0, after Stop and Release.
Clear(t) ==
    /\ At(t, "clear")
    /\ pin' = NoPin
    /\ Do(t, <<>>)
    /\ UNCHANGED <<made, handle, users, refs, running, free, posted, dead, lost, dry>>

\* What takes no call of the program.
OwnStep(t) ==
    \/ Read(t) \/ IssueRead(t) \/ Ioctl(t) \/ Unlock(t) \/ PushFrame(t)
    \/ SetState(t) \/ SetStop(t) \/ Close(t) \/ Clear(t)

-----------------------------------------------------------------------------
Pending(t, p) == {i \in DOMAIN todo[t] : "pin" \in DOMAIN todo[t][i] /\ todo[t][i].pin = p}
InHand(t, p) == {todo[t][i].frame : i \in
                    {j \in Pending(t, p) : "frame" \in DOMAIN todo[t][j]}}

\* A buffer is free, or the driver has it, or one thread works with it, and
\* none is ever forgotten: the driver never writes into a frame that is being
\* encoded.
OnePlacePerFrame ==
    \A p \in 1 .. made : handle[p] # "none" =>
        LET hand == [t \in Threads |-> InHand(t, p)]
            held == UNION {hand[t] : t \in Threads}
        IN  /\ free[p] \cap posted[p] = {} /\ held \cap (free[p] \cup posted[p]) = {}
            /\ \A t, u \in Threads : t # u => hand[t] \cap hand[u] = {}
            /\ free[p] \cup posted[p] \cup held = Frames

\* A pin and its buffers live as long as the driver or a thread may use them;
\* only the destructor itself still closes the handle.
PinOutlivesUse ==
    \A p \in dead :
        /\ posted[p] = {}
        /\ pin = p => \E t \in Threads : \E i \in DOMAIN todo[t] : todo[t][i].op = "clear"
        /\ \A t \in Threads : \A i \in Pending(t, p) : todo[t][i].op \in {"close", "unlock"}

\* With a buffer for every thread that may hold one beside those of the reads,
\* a completed read is always followed by another: the capture does not stall.
EveryReadIsReplaced ==
    Cardinality(Pool) + Reads <= Cardinality(Frames) => ~dry
=============================================================================
