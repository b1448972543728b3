----------------------------- MODULE Connection -----------------------------
(***************************************************************************)
(* A connection of the asio library: CTcpEndpoint, and CPipeEnd of a       *)
(* server or of a client.  All three protect the connection with a rundown *)
(* lock: every request holds it until its completion routine has run, the  *)
(* end of the connection runs it down, and who leaves last calls           *)
(* OnDisconnect.                                                           *)
(*                                                                         *)
(* A thread is a stack of tasks, the parts of the functions it still has   *)
(* to run: a request that fails at once runs its completion routine in the *)
(* middle of the function that made it, and a completion routine makes the *)
(* next request.  The rundown lock is as RundownSpec has it; the lock of   *)
(* the handle is the subject of IoObject, here the handle closes some time *)
(* after it was told to.                                                   *)
(***************************************************************************)
EXTENDS Integers, Sequences, FiniteSets

CONSTANTS Worker,       \* pool threads
          User,         \* a thread that calls the public functions
          MaxConnects, MaxCalls, MaxFaults  \* bounds

ASSUME ConnThreadsAssumption == User \notin Worker /\ IsFiniteSet(Worker)
ASSUME ConnBoundsAssumption == {MaxConnects, MaxCalls, MaxFaults} \subseteq Nat

ConnThreads == Worker \cup {User}
Requests    == {"listen", "read", "write", "disc", "accepted", "got"}

VARIABLES
    kind,           \* "tcp", "server" or "client"
    up, held,       \* m_connectionLock: not run down; its holders
    listenActive,   \* flListenActive
    discActive,     \* flDisconectActive
    handle,         \* "open", "closing" or "closed"
    link,           \* the connection itself: "none", "up" or "dead"
    irps,           \* the Requests; "accepted" and "got" are to be delivered
    todo,           \* per thread: the stack of tasks
    connections,    \* history: connections made,
    disconnects,    \*          calls of OnDisconnect
    starved,        \*          the connection's read could not be posted
    calls, faults   \* of the public functions; of memory

lock     == <<up, held>>
flags    == <<listenActive, discActive>>
kernel   == <<handle, link, irps>>
hist     == <<connections, disconnects, starved>>
connVars == <<kind, lock, flags, kernel, todo, hist, calls, faults>>

\* Thread t, whose next task is this one, has these to run instead.
Do(t, task, tasks) ==
    /\ todo[t] # <<>> /\ Head(todo[t]) = task
    /\ todo' = [todo EXCEPT ![t] = tasks \o Tail(@)]

\* LockConnection guards the tasks that follow it.
Locked(t, task, tasks) ==
    \/ up /\ held' = held + 1 /\ Do(t, task, tasks)
    \/ ~up /\ UNCHANGED held /\ Do(t, task, <<>>)

Fault == faults < MaxFaults /\ faults' = faults + 1

-----------------------------------------------------------------------------
\* Close.  The handle of a pipe is closed before the connection is run down.
TcpClose  == <<"end", "close_handle">>
PipeClose == <<"close_handle", "end">>

\* What follows a request that failed with status s, in its completion
\* routine, which still holds the connection.
\* "already": the connection is known to be gone, Disconnect only runs it down.
TcpFailed(s) == IF s \in {"invalid", "already"} THEN <<"end">> ELSE <<"disconnect">>

PipeFailed(s) ==
    CASE s = "broken"                     -> <<"disconnect">>
      [] s \in {"invalid", "disconnected"} -> <<"rundown">>
      [] OTHER                            -> PipeClose

Failed(s) == IF kind = "tcp" THEN TcpFailed(s) ELSE PipeFailed(s)
Failures  == IF kind = "tcp" THEN {"already", "other"} ELSE {"broken", "disconnected", "other"}

\* The completion routine of a request.
ReadDone(s)  == (IF s = "ok" THEN <<"onread">> ELSE Failed(s)) \o <<"unlock">>
WriteDone(s) == <<"onwrite">> \o (IF s = "ok" THEN <<>> ELSE Failed(s)) \o <<"unlock">>
ListenDone(s) == IF s = "ok" THEN <<"init", "onconnect">> ELSE <<"not_connected">>

DiscDone_KeepsHandle(s) == <<"disconnected", "unlock">>   \* mutant: a failed disconnect is let be
DiscDone(s) ==
    (IF s \in {"ok", "invalid"} THEN <<>> ELSE <<"close_handle">>) \o <<"disconnected", "unlock">>

Done(op, s) ==
    CASE op = "read"   -> ReadDone(s)
      [] op = "write"  -> WriteDone(s)
      [] op = "listen" -> ListenDone(s)
      [] op = "disc"   -> DiscDone(s)

\* A server, or an endpoint, waits; a client's pipe is connected when opened.
Assign == IF kind = "client" THEN ListenDone("ok") ELSE <<"listen">>

ConnInit ==
    /\ kind \in {"tcp", "server", "client"}
    /\ up = FALSE /\ held = 0 /\ listenActive = FALSE /\ discActive = FALSE
    /\ handle = "open" /\ link = (IF kind = "client" THEN "up" ELSE "none")
    /\ irps = [o \in Requests |-> 0]
    /\ todo = [t \in ConnThreads |-> IF t = User THEN Assign ELSE <<>>]
    /\ connections = 0 /\ disconnects = 0 /\ starved = FALSE /\ calls = 0 /\ faults = 0

Post == [listen |-> "post_listen", read |-> "post_read",
         write |-> "post_write", disc |-> "post_disc"]

\* No memory for the request: a read or a write is given up, the others run
\* their completion routine.
NoIrp(op) == IF op \in {"read", "write"} THEN <<"unlock">> ELSE Done(op, "other")

\* The system call, under the lock of the handle; CheckErrorCode completes a
\* request that failed at once, on the spot.
PostIrp(t, op) ==
    /\ \/ /\ handle = "open"
          /\ irps' = [irps EXCEPT ![op] = @ + 1]
          /\ Do(t, Post[op], <<>>)
          /\ UNCHANGED <<faults, starved>>
       \/ /\ handle # "open"
          /\ Do(t, Post[op], Done(op, "invalid"))
          /\ UNCHANGED <<irps, faults, starved>>
       \/ /\ Fault
          /\ Do(t, Post[op], NoIrp(op))
          /\ starved' = (starved \/ op = "read")
          /\ UNCHANGED irps
       \/ /\ Fault /\ handle = "open"
          /\ Do(t, Post[op], Done(op, "other"))
          /\ UNCHANGED <<irps, starved>>
    /\ UNCHANGED <<kind, lock, flags, handle, link, connections, disconnects, calls>>

-----------------------------------------------------------------------------
\* The public functions.
Listen(t) ==
    /\ Do(t, "listen", IF listenActive THEN <<>> ELSE <<"post_listen">>)
    /\ listenActive' = TRUE
    /\ UNCHANGED <<kind, lock, discActive, kernel, hist, calls, faults>>

\* Connect binds the socket first, and closes it when that fails.
Connect(t) ==
    /\ \/ handle # "open" /\ Do(t, "connect", <<>>) /\ UNCHANGED faults
       \/ handle = "open" /\ Do(t, "connect", <<"listen">>) /\ UNCHANGED faults
       \/ handle = "open" /\ Do(t, "connect", TcpClose) /\ Fault
    /\ UNCHANGED <<kind, lock, flags, kernel, hist, calls>>

\* A full buffer leaves the connection without a read.
Read(t) ==
    /\ \/ Locked(t, "read", <<"post_read">>) /\ UNCHANGED <<faults, starved>>
       \/ Fault /\ Do(t, "read", <<>>) /\ starved' = TRUE /\ UNCHANGED held
    /\ UNCHANGED <<kind, up, flags, kernel, connections, disconnects, calls>>

Write(t) ==
    /\ Locked(t, "write", <<"post_write">>)
    /\ UNCHANGED <<kind, up, flags, kernel, hist, calls, faults>>

End(t) ==
    /\ Locked(t, "end", <<"rundown", "unlock">>)
    /\ UNCHANGED <<kind, up, flags, kernel, hist, calls, faults>>

\* "client can disconnect only via close handle"
Disconnect_Unlocked(t) ==       \* mutant: the rundown without the protection
    /\ IF kind = "client" THEN Do(t, "disconnect", PipeClose) ELSE Do(t, "disconnect", <<"rundown", "once">>)
    /\ UNCHANGED <<kind, lock, flags, kernel, hist, calls, faults>>
Disconnect(t) ==
    /\ IF kind = "client"
       THEN Do(t, "disconnect", PipeClose) /\ UNCHANGED held
       ELSE Locked(t, "disconnect", <<"rundown", "once">>)
    /\ UNCHANGED <<kind, up, flags, kernel, hist, calls, faults>>

\* "no more new read/write/disconnect"
Rundown(t) ==
    /\ Do(t, "rundown", <<>>)
    /\ up' = FALSE
    /\ UNCHANGED <<kind, held, flags, kernel, hist, calls, faults>>

\* "only once"
Once(t) ==
    /\ Do(t, "once", IF discActive THEN <<"unlock">> ELSE <<"post_disc">>)
    /\ discActive' = TRUE
    /\ UNCHANGED <<kind, lock, listenActive, kernel, hist, calls, faults>>

-----------------------------------------------------------------------------
\* The parts of the completion routines.
Connected(t) ==
    /\ Do(t, "init", <<>>)
    /\ up' = TRUE /\ held' = 0
    /\ connections' = connections + 1 /\ starved' = FALSE
    /\ UNCHANGED <<kind, flags, kernel, disconnects, calls, faults>>

NotConnected(t) ==
    /\ Do(t, "not_connected", <<>>)
    /\ listenActive' = FALSE
    /\ UNCHANGED <<kind, lock, discActive, kernel, hist, calls, faults>>

\* OnConnect and OnRecv go on reading or end the connection; OnDisconnect may
\* wait for the next one, as Port's does.
Callbacks(t) ==
    /\ \/ \E r \in {"read", "disconnect"} : Do(t, "onconnect", <<r>>) \/ Do(t, "onread", <<r>>)
       \/ Do(t, "onwrite", <<>>)
       \/ Do(t, "ondisconnect", <<>>)
       \/ kind # "client" /\ Do(t, "ondisconnect", <<"listen">>)
    /\ UNCHANGED <<kind, lock, flags, kernel, hist, calls, faults>>

Disconnected(t) ==
    /\ Do(t, "disconnected", <<>>)
    /\ discActive' = FALSE
    /\ UNCHANGED <<kind, lock, listenActive, kernel, hist, calls, faults>>

Unlock(t) ==
    /\ Do(t, "unlock", IF ~up /\ held = 1 THEN <<"last_out">> ELSE <<>>)
    /\ held' = held - 1
    /\ UNCHANGED <<kind, up, flags, kernel, hist, calls, faults>>

LastOut(t) ==
    /\ Do(t, "last_out", <<"ondisconnect">>)
    /\ listenActive' = FALSE
    /\ disconnects' = disconnects + 1
    /\ UNCHANGED <<kind, lock, discActive, kernel, connections, starved, calls, faults>>

CloseHandle(t) ==
    /\ Do(t, "close_handle", <<>>)
    /\ handle' = IF handle = "open" THEN "closing" ELSE handle
    /\ UNCHANGED <<kind, lock, flags, link, irps, hist, calls, faults>>

-----------------------------------------------------------------------------
\* The last user of the handle closes it; an endpoint's flags start anew.
CloseObjectHandle ==
    /\ handle = "closing"
    /\ handle' = "closed" /\ link' = "dead"
    /\ IF kind = "tcp" THEN listenActive' = FALSE /\ discActive' = FALSE ELSE UNCHANGED flags
    /\ UNCHANGED <<kind, lock, irps, todo, hist, calls, faults>>

Move(from, to) == irps' = [irps EXCEPT ![from] = @ - 1, ![to] = @ + 1]

\* The other side connects, sends and leaves.
Accept ==
    /\ irps["listen"] > 0 /\ handle # "closed" /\ connections < MaxConnects
    /\ Move("listen", "accepted")
    /\ link' = "up"
    /\ UNCHANGED <<kind, lock, flags, handle, todo, hist, calls, faults>>

Arrive ==
    /\ irps["read"] > 0 /\ link = "up"
    /\ Move("read", "got")
    /\ UNCHANGED <<kind, lock, flags, handle, link, todo, hist, calls, faults>>

OtherLeaves ==
    /\ link = "up" /\ link' = "dead"
    /\ UNCHANGED <<kind, lock, flags, handle, irps, todo, hist, calls, faults>>

\* A request's outcomes.  Closing the handle or disconnecting ends the others.
Outcome(op) ==
    CASE op = "accepted" -> {<<"listen", "ok">>}
      [] op = "got"      -> {<<"read", "ok">>}
      [] op = "listen"   -> IF handle = "closed" THEN {<<"listen", "other">>} ELSE {}
      [] op = "read"     -> IF link = "dead" THEN {"read"} \X Failures ELSE {}
      [] op = "write"    -> {"write"} \X ({"ok"} \cup IF link = "dead" THEN Failures ELSE {})
      [] op = "disc"     -> {"disc"} \X {"ok", "other"}

OnIoComplete(w, op) ==
    /\ todo[w] = <<>> /\ irps[op] > 0
    /\ \E o \in Outcome(op) :
        /\ todo' = [todo EXCEPT ![w] = Done(o[1], o[2])]
        /\ link' = IF o = <<"disc", "ok">> THEN "dead" ELSE link
    /\ irps' = [irps EXCEPT ![op] = @ - 1]
    /\ UNCHANGED <<kind, lock, flags, handle, hist, calls, faults>>

Call ==
    /\ todo[User] = <<>> /\ calls < MaxCalls
    /\ calls' = calls + 1
    /\ \E c \in {<<"write">>, <<"disconnect">>, IF kind = "tcp" THEN TcpClose ELSE PipeClose}
                  \cup (IF kind = "client" THEN {} ELSE {<<"listen">>})
                  \cup (IF kind = "tcp" THEN {<<"connect">>} ELSE {}) :
        todo' = [todo EXCEPT ![User] = c]
    /\ UNCHANGED <<kind, lock, flags, kernel, hist, faults>>

Step(t) ==
    \/ Listen(t) \/ Connect(t) \/ Read(t) \/ Write(t) \/ End(t)
    \/ Disconnect(t) \/ Rundown(t) \/ Once(t) \/ Connected(t) \/ NotConnected(t)
    \/ Callbacks(t) \/ Disconnected(t) \/ Unlock(t) \/ LastOut(t) \/ CloseHandle(t)
    \/ \E op \in DOMAIN Post : PostIrp(t, op)

ConnNext ==
    \/ Call \/ CloseObjectHandle \/ Accept \/ Arrive \/ OtherLeaves
    \/ \E t \in ConnThreads : Step(t)
    \/ \E w \in Worker, op \in Requests : OnIoComplete(w, op)

ConnSpec == ConnInit /\ [][ConnNext]_connVars

\* Threads run, the last user closes the handle, requests that are over are
\* delivered; nobody has to connect, send, leave or call.
ConnFairSpec ==
    /\ ConnSpec
    /\ WF_connVars(CloseObjectHandle)
    /\ \A t \in ConnThreads : WF_connVars(Step(t))
    /\ WF_connVars(\E w \in Worker : OnIoComplete(w, "disc"))
    /\ WF_connVars(\E w \in Worker, op \in Requests \ {"disc"} : OnIoComplete(w, op))

-----------------------------------------------------------------------------
\* OnDisconnect runs once for each connection, after the callbacks of all its
\* reads and writes, whatever combination of a failing read, a failing write,
\* Disconnect and Close ends it.
Running == {t \in ConnThreads : todo[t] # <<>> /\ Head(todo[t]) \in {"onread", "onwrite"}}
User_ == INSTANCE ConnectionSpec WITH begun <- connections, ended <- disconnects,
                                     running <- Cardinality(Running)
CallbacksKept == User_!Spec

\* A connection that is being ended does end, and one whose other side has
\* left is noticed, unless the read that would notice could not be posted.
Open == connections # disconnects
EndIsReported ==
    /\ (Open /\ ~up) ~> ~Open
    /\ (Open /\ link = "dead") ~> (~Open \/ starved)
=============================================================================
