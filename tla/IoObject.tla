------------------------------ MODULE IoObject ------------------------------
(***************************************************************************)
(* IO_OBJECT and IO_OBJECT_TIMEOUT of the asio library: an object that     *)
(* owns a handle, its requests (IO_IRP, NT_IRP), its reference count, and  *)
(* its timeout, an RtlTimer with a count of its own that refers back to    *)
(* the object.                                                             *)
(*                                                                         *)
(* A thread is a stack of tasks <<what, timer>>, as in Connection: Close   *)
(* may stop a timer, whose cancellation calls OnTimer, which closes.  The  *)
(* rundown lock of the handle is as RundownSpec has it.  Of the system it  *)
(* is assumed that CreateTimerQueueTimer stores the handle of the timer    *)
(* before the timer may fire, and that one thread runs all timers.         *)
(***************************************************************************)
EXTENDS Integers, Sequences, FiniteSets

CONSTANTS Users,            \* threads with a reference of their own
          Pool, Clock,      \* threads that complete requests; that runs timers
          MaxTimers,        \* bound on the timers that exist at a time
          MaxCalls          \* bound on the calls of the users

Timers == 1 .. MaxTimers
None == 0

Workers == Users \cup Pool \cup {Clock}

VARIABLES
    socket,         \* a CSocketObject, whose handle's close leaves the timer
    nRef,           \* m_nRef
    up, held,       \* m_HandleLock: not run down; its holders
    hFile,          \* "open", "closed"
    irps, started,  \* requests pending; operations the thread pool expects
    pTimer,         \* _pTimer
    tRef, isSet, cbExecuted,    \* per timer: _dwRef, _hTimer # 0, _cbExecuted
    queue,          \* per timer: "none", "armed", "running", "returned", "deleted"
    timeouts,       \* history, per timer: calls of OnTimer
    todo,           \* per thread: the stack of tasks
    calls

object == <<nRef, up, held, hFile, irps, started, pTimer>>
timer  == <<tRef, isSet, cbExecuted, queue, timeouts>>
vars   == <<socket, object, timer, todo, calls>>

Init ==
    /\ socket \in BOOLEAN
    /\ nRef = Cardinality(Users) /\ up = TRUE /\ held = 0 /\ hFile = "open"
    /\ irps = 0 /\ started = 0 /\ pTimer = None
    /\ tRef = [x \in Timers |-> 0] /\ isSet = [x \in Timers |-> FALSE]
    /\ cbExecuted = [x \in Timers |-> FALSE] /\ queue = [x \in Timers |-> "none"]
    /\ timeouts = [x \in Timers |-> 0]
    /\ todo = [t \in Workers |-> IF t \in Users THEN << <<"call", None>> >> ELSE <<>>]
    /\ calls = 0

At(t, what) == todo[t] # <<>> /\ Head(todo[t])[1] = what
Of(t) == Head(todo[t])[2]
Then(t, tasks) == todo' = [todo EXCEPT ![t] = tasks \o Tail(@)]
Task(what) == <<what, None>>

-----------------------------------------------------------------------------
\* What a user may do with the object while it has a reference, and at last
\* dropping it.
Call(u) ==
    /\ At(u, "call")
    /\ \/ Then(u, <<Task("release")>>) /\ UNCHANGED calls
       \/ /\ calls < MaxCalls /\ calls' = calls + 1
          /\ \E c \in {"irp", "close", "set_timeout", "swap"} :
                Then(u, <<Task(c), Task("call")>>)
    /\ UNCHANGED <<socket, object, timer>>

\* IO_IRP::IO_IRP: StartIo.
NewIrp(t) ==
    /\ At(t, "irp")
    /\ nRef' = nRef + 1 /\ started' = started + 1
    /\ Then(t, <<Task("lock")>>)
    /\ UNCHANGED <<socket, up, held, hFile, irps, pTimer, timer, calls>>

LockHandle(t) ==
    /\ At(t, "lock")
    /\ held' = held + (IF up THEN 1 ELSE 0)
    /\ Then(t, <<Task(IF up THEN "io" ELSE "cancel")>>)
    /\ UNCHANGED <<socket, nRef, up, hFile, irps, started, pTimer, timer, calls>>

\* The system call succeeds or is pending, or fails.
SystemCall(t) ==
    /\ At(t, "io")
    /\ \/ irps' = irps + 1 /\ Then(t, <<Task("unlock")>>)
       \/ Then(t, <<Task("unlock"), Task("cancel")>>) /\ UNCHANGED irps
    /\ UNCHANGED <<socket, nRef, up, held, hFile, started, pTimer, timer, calls>>

\* CheckErrorCode: the pool will not call for this request.
CancelIo(t) ==
    /\ At(t, "cancel")
    /\ started' = started - 1
    /\ Then(t, <<Task("release")>>)
    /\ UNCHANGED <<socket, nRef, up, held, hFile, irps, pTimer, timer, calls>>

\* The completion routine of the derived class may do what a user may.
OnIoComplete(w) ==
    /\ todo[w] = <<>> /\ irps > 0
    /\ irps' = irps - 1 /\ started' = started - 1
    /\ \E c \in {<<>>, <<Task("close")>>} : todo' = [todo EXCEPT ![w] = c \o <<Task("release")>>]
    /\ UNCHANGED <<socket, nRef, up, held, hFile, pTimer, timer, calls>>

\* The last one's destructor closes the handle and deletes.
Release(t) ==
    /\ At(t, "release")
    /\ nRef' = nRef - 1
    /\ IF nRef = 1 THEN up' = FALSE /\ hFile' = "closed" ELSE UNCHANGED <<up, hFile>>
    /\ Then(t, <<>>)
    /\ UNCHANGED <<socket, held, irps, started, pTimer, timer, calls>>

-----------------------------------------------------------------------------
\* Close: LockHandle, then Close_l.
Close(t) ==
    /\ At(t, "close")
    /\ held' = held + (IF up THEN 1 ELSE 0)
    /\ Then(t, IF up THEN <<Task("rundown"), Task("unlock")>> ELSE <<>>)
    /\ UNCHANGED <<socket, nRef, up, hFile, irps, started, pTimer, timer, calls>>

Rundown(t) ==
    /\ At(t, "rundown")
    /\ up' = FALSE
    /\ Then(t, <<>>)
    /\ UNCHANGED <<socket, nRef, held, hFile, irps, started, pTimer, timer, calls>>

\* CloseObjectHandle stops the timer first; a socket's only closes.
Closers == IF socket THEN <<Task("close_handle")>> ELSE <<Task("swap"), Task("close_handle")>>

UnlockHandle_NotLast(t) ==      \* mutant: Release not asked who is last
    /\ At(t, "unlock")
    /\ held' = held - 1
    /\ Then(t, IF ~up THEN Closers ELSE <<>>)
    /\ UNCHANGED <<socket, nRef, up, hFile, irps, started, pTimer, timer, calls>>
UnlockHandle(t) ==
    /\ At(t, "unlock")
    /\ held' = held - 1
    /\ Then(t, IF ~up /\ held = 1 THEN Closers ELSE <<>>)
    /\ UNCHANGED <<socket, nRef, up, hFile, irps, started, pTimer, timer, calls>>

CloseObjectHandle(t) ==
    /\ At(t, "close_handle")
    /\ hFile' = "closed"
    /\ Then(t, <<>>)
    /\ UNCHANGED <<socket, nRef, up, held, irps, started, pTimer, timer, calls>>

-----------------------------------------------------------------------------
\* SetTimeout: the new timer refers to the object, and RtlTimer::Set counts
\* the callback's reference before the timer is armed.
SetTimeout(t) ==
    /\ At(t, "set_timeout")
    /\ \E x \in Timers :
        /\ queue[x] = "none" /\ tRef[x] = 0
        /\ \/ /\ tRef' = [tRef EXCEPT ![x] = 2]
              /\ isSet' = [isSet EXCEPT ![x] = TRUE] /\ queue' = [queue EXCEPT ![x] = "armed"]
              /\ Then(t, << <<"keep", x>>, <<"swap", x>>, <<"is_set", x>>, <<"drop", x>> >>)
           \/ /\ tRef' = [tRef EXCEPT ![x] = 1]
              /\ Then(t, << <<"drop", x>> >>)
              /\ UNCHANGED <<isSet, queue>>
    /\ nRef' = nRef + 1
    /\ UNCHANGED <<socket, up, held, hFile, irps, started, pTimer, cbExecuted, timeouts, calls>>

NoTimerLeft(t) ==
    /\ At(t, "set_timeout") /\ \A x \in Timers : queue[x] # "none" \/ tRef[x] # 0
    /\ Then(t, <<>>)
    /\ UNCHANGED <<socket, object, timer, calls>>

\* "_pTimer hold additional reference"
Keep(t) ==
    /\ At(t, "keep")
    /\ tRef' = [tRef EXCEPT ![Of(t)] = @ + 1]
    /\ Then(t, <<>>)
    /\ UNCHANGED <<socket, object, isSet, cbExecuted, queue, timeouts, calls>>

SetNewTimer(t) ==
    /\ At(t, "swap")
    /\ pTimer' = Of(t)
    /\ Then(t, IF pTimer = None THEN <<>> ELSE << <<"stop", pTimer>>, <<"drop", pTimer>> >>)
    /\ UNCHANGED <<socket, nRef, up, held, hFile, irps, started, timer, calls>>

\* "already fired"
IsSet_NotAsked(t) ==            \* mutant: the fired timer stays
    /\ At(t, "is_set")
    /\ Then(t, <<>>)
    /\ UNCHANGED <<socket, object, timer, calls>>
IsSet(t) ==
    /\ At(t, "is_set")
    /\ Then(t, IF isSet[Of(t)] THEN <<>> ELSE <<Task("swap")>>)
    /\ UNCHANGED <<socket, object, timer, calls>>

Stop(t) ==
    /\ At(t, "stop")
    /\ isSet' = [isSet EXCEPT ![Of(t)] = FALSE]
    /\ Then(t, IF isSet[Of(t)] THEN << <<"delete", Of(t)>> >> ELSE <<>>)
    /\ UNCHANGED <<socket, object, tRef, cbExecuted, queue, timeouts, calls>>

\* DeleteTimerQueueTimer fails while the callback runs; else the timer was
\* never called, or its callback has done the work.
DeleteTimer_NotAsked(t) ==      \* mutant: _cbExecuted not asked
    LET x == Of(t) IN
    /\ At(t, "delete")
    /\ queue' = [queue EXCEPT ![x] = IF @ = "armed" THEN "deleted" ELSE @]
    /\ Then(t, IF queue[x] # "running" THEN << <<"on_timer", x>>, <<"drop", x>> >> ELSE <<>>)
    /\ UNCHANGED <<socket, object, tRef, isSet, cbExecuted, timeouts, calls>>
DeleteTimer(t) ==
    LET x == Of(t) IN
    /\ At(t, "delete")
    /\ queue' = [queue EXCEPT ![x] = IF @ = "armed" THEN "deleted" ELSE @]
    /\ Then(t, IF queue[x] # "running" /\ ~cbExecuted[x]
               THEN << <<"on_timer", x>>, <<"drop", x>> >> ELSE <<>>)
    /\ UNCHANGED <<socket, object, tRef, isSet, cbExecuted, timeouts, calls>>

\* OnTimer does not look at bCanceled: a timer that is stopped closes, too.
OnTimer(t) ==
    /\ At(t, "on_timer")
    /\ timeouts' = [timeouts EXCEPT ![Of(t)] = @ + 1]
    /\ Then(t, <<Task("swap"), Task("close")>>)
    /\ UNCHANGED <<socket, object, tRef, isSet, cbExecuted, queue, calls>>

\* RtlTimer::Release; the timer's destructor releases the object.
Drop(t) ==
    /\ At(t, "drop")
    /\ tRef' = [tRef EXCEPT ![Of(t)] = @ - 1]
    /\ Then(t, IF tRef[Of(t)] = 1 THEN <<Task("release")>> ELSE <<>>)
    /\ UNCHANGED <<socket, object, isSet, cbExecuted, queue, timeouts, calls>>

\* TimerCallback.
Fire ==
    /\ todo[Clock] = <<>>
    /\ \E x \in Timers :
        /\ queue[x] = "armed"
        /\ queue' = [queue EXCEPT ![x] = "running"]
        /\ todo' = [todo EXCEPT ![Clock] =
            << <<"executed", x>>, <<"stop", x>>, <<"on_timer", x>>, <<"drop", x>>, <<"returned", x>> >>]
    /\ UNCHANGED <<socket, object, tRef, isSet, cbExecuted, timeouts, calls>>

Executed(t) ==
    /\ At(t, "executed")
    /\ cbExecuted' = [cbExecuted EXCEPT ![Of(t)] = TRUE]
    /\ Then(t, <<>>)
    /\ UNCHANGED <<socket, object, tRef, isSet, queue, timeouts, calls>>

Returned(t) ==
    /\ At(t, "returned")
    /\ queue' = [queue EXCEPT ![Of(t)] = "returned"]
    /\ Then(t, <<>>)
    /\ UNCHANGED <<socket, object, tRef, isSet, cbExecuted, timeouts, calls>>

Step(t) ==
    \/ Call(t) \/ NewIrp(t) \/ LockHandle(t) \/ SystemCall(t) \/ CancelIo(t) \/ Release(t)
    \/ Close(t) \/ Rundown(t) \/ UnlockHandle(t) \/ CloseObjectHandle(t)
    \/ SetTimeout(t) \/ NoTimerLeft(t) \/ Keep(t) \/ SetNewTimer(t) \/ IsSet(t)
    \/ Stop(t) \/ DeleteTimer(t) \/ OnTimer(t) \/ Drop(t) \/ Executed(t) \/ Returned(t)

Next == Fire \/ \E t \in Workers : Step(t) \/ (t \in Pool /\ OnIoComplete(t))

Spec == Init /\ [][Next]_vars

\* Workers run, timers fire, and the requests of a closed handle complete.
FairSpec ==
    /\ Spec
    /\ \A t \in Workers : WF_vars(Step(t))
    /\ WF_vars(Fire)
    /\ WF_vars(hFile = "closed" /\ \E w \in Pool : OnIoComplete(w))

-----------------------------------------------------------------------------
OnHandle == {"irp", "lock", "io", "cancel", "release", "close", "rundown", "unlock",
             "close_handle", "set_timeout", "swap"}
OnTimer_ == {"keep", "is_set", "stop", "delete", "on_timer", "drop", "executed"}

\* Whatever a thread does next, the object, the timer and the handle it does it
\* to are there, and the object goes with no request, timer or protection left:
\* the closing of the handle, the requests and a timeout, which fires, is
\* stopped and replaced at once, may come in any order.
NothingUsedAfterFree ==
    /\ \A t \in Workers :
        /\ \A a \in OnHandle : At(t, a) => nRef > 0
        /\ \A a \in OnTimer_ : At(t, a) => tRef[Of(t)] > 0
        /\ At(t, "io") => hFile = "open"
    /\ nRef = 0 => held = 0 /\ irps = 0 /\ started = 0 /\ pTimer = None /\ \A x \in Timers : tRef[x] = 0

\* The callback of a timer and who stops it agree on one call of OnTimer: a
\* timeout is not lost, and does not come twice.
OneTimeout ==
    \A x \in Timers : timeouts[x] <= 1 /\ (tRef[x] = 0 /\ queue[x] # "none" => timeouts[x] = 1)

\* The object and its timers, which refer to each other, are freed when nobody
\* uses them any more.
Unused == (\A u \in Users : todo[u] = <<>>) /\ (hFile = "closed" \/ irps = 0)
ObjectIsFreed == Unused ~> nRef = 0
=============================================================================
