------------------------------- MODULE MCAsio -------------------------------
(***************************************************************************)
(* Two machines of the asio library for TLC, which have nothing to do with *)
(* each other; a behaviour is of one of them, the other stands still.      *)
(*   tight  (the configuration's constants) the ring with the largest      *)
(*          minima that Start allows: a read or a write is in flight       *)
(*   roomy  the ring with smaller minima: both may be                      *)
(*   object an object with its handle, requests and timeouts               *)
(***************************************************************************)
EXTENDS RingBuffer

CONSTANTS RoomyRead, RoomyWrite,                \* of the roomy ring
          Users, Pool, Clock, MaxTimers, MaxCalls   \* of IoObject

ASSUME ObjectAssumption ==
    /\ IsFiniteSet(Users) /\ IsFiniteSet(Pool) /\ Users \cap Pool = {}
    /\ Clock \notin Users \cup Pool
    /\ MaxTimers \in Nat /\ MaxCalls \in Nat

VARIABLES mode, socket, nRef, up, held, hFile, irps, started, pTimer, tRef, isSet,
          cbExecuted, queue, timeouts, todo, calls

objectVars == <<socket, nRef, up, held, hFile, irps, started, pTimer, tRef, isSet,
                cbExecuted, queue, timeouts, todo, calls>>

Roomy == INSTANCE RingBuffer WITH MinRead <- RoomyRead, MinWrite <- RoomyWrite
Object == INSTANCE IoObject

\* The invariants of RingBuffer are those of both rings: what NeverStalls says with
\* the larger minima holds with the smaller ones too.  The threads are alike, so it
\* does not matter which one calls Start.
MCInit ==
    /\ mode \in {"tight", "roomy", "object"}
    /\ Init /\ pc[CHOOSE t \in Threads : TRUE] = "Start"
    /\ Object!Init

MCNext ==
    /\ UNCHANGED mode
    /\ \/ mode = "tight" /\ Next /\ UNCHANGED objectVars
       \/ mode = "roomy" /\ Roomy!Next /\ UNCHANGED objectVars
       \/ mode = "object" /\ Object!Next /\ UNCHANGED vars

\* The fairness of IoObject; nothing is assumed of the ring.
MCSpec ==
    /\ MCInit /\ [][MCNext]_<<mode, vars, objectVars>>
    /\ \A t \in Object!Workers : WF_objectVars(mode = "object" /\ Object!Step(t))
    /\ WF_objectVars(mode = "object" /\ Object!Fire)
    /\ WF_objectVars(mode = "object" /\ hFile = "closed" /\ \E w \in Pool : Object!OnIoComplete(w))

\* The object, its handle and its timers outlive their use, a timeout comes once,
\* and all of it is freed.
NothingUsedAfterFree == Object!NothingUsedAfterFree
OneTimeout == Object!OneTimeout
ObjectIsFreed == mode = "object" => Object!ObjectIsFreed
=============================================================================
