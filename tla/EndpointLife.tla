---------------------------- MODULE EndpointLife ----------------------------
(***************************************************************************)
(* The life of one UDP Endpoint object, on either side: its place in the   *)
(* connection list of CClientServerR, its reference count, its rundown     *)
(* lock and the threads that meet in it: the receives (OnRecv, OnData), the *)
(* server's timer (OnTimer) and the owner, which is the receive that runs  *)
(* OnConnect on the server and the dialog's thread on the client.          *)
(*                                                                         *)
(* The rundown lock is used as module RundownSpec describes it (Rundown is *)
(* shown to implement that).  The list operations run under m_lock and are *)
(* one step each; every interlocked operation is one step.  Packets are    *)
(* only told apart by what OnData does with them.  Memory that was freed   *)
(* must not be used; a behaviour stops where the object is deleted.        *)
(***************************************************************************)
EXTENDS Integers, FiniteSets

CONSTANTS Recv,         \* the receives outstanding
          Timer, Owner, \* the two other threads
          Server,       \* TRUE: a server's endpoint, FALSE: the client's
          MaxConnect,   \* bound on the sessions of the client's endpoint
          MaxPackets    \* bound on the packets the peer sends

ASSUME RecvAssumption == IsFiniteSet(Recv) /\ Recv # {}
ASSUME ThreadsAssumption == Timer # Owner /\ Timer \notin Recv /\ Owner \notin Recv
ASSUME ServerAssumption == Server \in BOOLEAN
ASSUME BoundsAssumption == MaxConnect \in Nat /\ MaxPackets \in Nat

Threads == Recv \cup {Timer, Owner}

VARIABLES
    phase, users,   \* m_rp: "off", "live" or "closing"; who protects
    linked,         \* the endpoint is in the connection list
    refs,           \* m_dwRefCount
    rcookie,        \* m_rcookie is not 0: the hello was seen
    fresh,          \* m_tick is not yet in the past
    known,          \* the peer has been sent the cookie
    packets,        \* packets received
    pc, after,      \* per thread: place; where RemoveConnection returns to
    bad,            \* bad[t]: the local variable status is an error
    ui,             \* the dialog: may it connect, is it connected
    freed,          \* the destructor ran
    inits, ended,   \* history: sessions begun; sessions OnDisconnect was told of
    era,            \* era[t]: history: the session t protects, or ends
    owned,          \* history: the creator has its reference
    claim,          \* history: the threads that took the endpoint out of the
                    \* list, and with it the list's reference
    twice           \* history: RemoveConnection was called for an endpoint
                    \* that was not in the list any more

rundown  == <<phase, users, era>>
refVars  == <<refs, freed, owned, claim, twice>>
peerVars == <<rcookie, fresh, known, packets>>
vars == <<rundown, refVars, peerVars, linked, pc, after, bad, ui, inits, ended>>

TypeOK ==
    /\ phase \in {"off", "live", "closing"} /\ users \subseteq Threads
    /\ linked \in BOOLEAN /\ refs \in Int /\ rcookie \in BOOLEAN /\ fresh \in BOOLEAN
    /\ known \in BOOLEAN /\ packets \in 0 .. MaxPackets
    /\ pc \in [Threads -> {"idle", "dead", "found", "inside", "callback", "leave",
                           "told", "status", "release", "add", "init", "send",
                           "unlink", "notify", "rundown", "unprotect", "endtold", "drop"}]
    /\ after \in [Threads -> {"idle", "dead", "release"}] /\ bad \in [Threads -> BOOLEAN]
    /\ ui \in {"ready", "connected", "waiting"} /\ freed \in BOOLEAN
    /\ inits \in Nat /\ ended \in 0 .. inits /\ era \in [Threads -> Nat]
    /\ owned \in BOOLEAN /\ claim \subseteq Threads /\ twice \in BOOLEAN

\* The server's endpoint is about to be created by OnConnect, the client's was
\* created by CreateClient and belongs to the dialog.
Init ==
    /\ phase = "off" /\ users = {} /\ linked = FALSE /\ refs = 1
    /\ rcookie = FALSE /\ fresh = TRUE /\ known = FALSE /\ packets = 0
    /\ pc = [t \in Threads |-> IF t = Owner /\ Server THEN "add" ELSE "idle"]
    /\ after = [t \in Threads |-> "idle"] /\ bad = [t \in Threads |-> FALSE]
    /\ ui = "ready" /\ freed = FALSE /\ inits = 0 /\ ended = 0
    /\ era = [t \in Threads |-> 0]
    /\ owned = TRUE /\ claim = {} /\ twice = FALSE

Goto(t, l) == pc' = [pc EXCEPT ![t] = l]

\* m_rp.Acquire, as seen by thread t.
Protect(t) ==
    /\ users' = users \cup {t}
    /\ era' = [era EXCEPT ![t] = inits]
    /\ UNCHANGED phase

\* m_rp.Release: the last one out ends the session and goes on to OnDisconnect.
Unprotect_Early(t, told, next) ==   \* mutant: OnDisconnect as soon as rundown began
    /\ users' = users \ {t}
    /\ IF phase = "closing"
       THEN phase' = "off" /\ ended' = ended + 1 /\ Goto(t, told)
       ELSE Goto(t, next) /\ UNCHANGED <<phase, ended>>
    /\ UNCHANGED era

Unprotect_NotExact(t, told, next) == \* mutant: and not by the last one only
    /\ users' = users \ {t}
    /\ IF phase # "live"
       THEN phase' = "off" /\ ended' = ended + 1 /\ Goto(t, told)
       ELSE Goto(t, next) /\ UNCHANGED <<phase, ended>>
    /\ UNCHANGED era

Unprotect(t, told, next) ==
    /\ users' = users \ {t}
    /\ IF phase = "closing" /\ users = {t}
       THEN phase' = "off" /\ ended' = ended + 1 /\ Goto(t, told)
       ELSE Goto(t, next) /\ UNCHANGED <<phase, ended>>
    /\ UNCHANGED era

\* Endpoint::Release: at 0 the object is deleted.
ReleaseRef ==
    /\ refs' = refs - 1
    /\ freed' = (refs = 1)

-----------------------------------------------------------------------------
\* Set-up.  The server adds the endpoint to the list before Init, the client
\* after it.
InitDone(next) ==
    /\ phase = "off"
    /\ phase' = "live"
    /\ inits' = inits + 1
    /\ rcookie' = Server
    /\ Goto(Owner, next)

ServerInit ==
    /\ pc[Owner] = "init" /\ Server
    /\ \E next \in {"send", "unlink"} : InitDone(next)  \* unlink: no memory
    /\ after' = [after EXCEPT ![Owner] = "release"]
    /\ UNCHANGED <<users, era, refVars, fresh, known, packets, linked, bad, ui, ended>>

\* Connect: on an endpoint that is still in use it fails at once.  The first time
\* Init may find no memory for the message buffers: the lock stays alive then, with
\* the endpoint in no list, and every Connect after it fails.
ClientConnect ==
    /\ pc[Owner] = "idle" /\ ~Server /\ owned /\ ui = "ready" /\ inits < MaxConnect
    /\ \E next \in {"add", "idle"} : (next = "idle" => inits = 0) /\ InitDone(next)
    /\ fresh' = TRUE
    /\ after' = [after EXCEPT ![Owner] = "idle"]
    /\ UNCHANGED <<users, era, refVars, known, packets, linked, bad, ui, ended>>

AddConnection_NoRef == linked' = TRUE /\ UNCHANGED refs  \* mutant: no AddRef
AddConnection ==
    /\ refs' = refs + 1
    /\ linked' = TRUE

Add ==
    /\ pc[Owner] = "add"
    /\ AddConnection
    /\ Goto(Owner, IF Server THEN "init" ELSE "send")
    /\ UNCHANGED <<rundown, peerVars, after, bad, ui, freed, inits, ended, owned, claim, twice>>

\* The hello, or the client's C_PACKET, is sent; an error undoes everything.
SendFails ==
    /\ pc[Owner] = "send"
    /\ Goto(Owner, "unlink")
    /\ UNCHANGED <<rundown, refVars, peerVars, linked, after, bad, ui, inits, ended>>

AfterSend_Keeps == "idle"   \* mutant: OnConnect does not release the endpoint
AfterSend == IF Server THEN "release" ELSE "idle"

SendOk ==
    /\ pc[Owner] = "send"
    /\ known' = TRUE
    /\ Goto(Owner, AfterSend)
    /\ ui' = "connected"
    /\ UNCHANGED <<rundown, refVars, rcookie, fresh, packets, linked, after, bad, inits, ended>>

\* The dialog: the Disconnect button; e_disconnected, which OnDisconnect
\* posted; and WM_DESTROY, which drops the creator's reference.
ClientDisconnect ==
    /\ pc[Owner] = "idle" /\ ~Server /\ ui = "connected"
    /\ ui' = "waiting"
    /\ Goto(Owner, "unlink")
    /\ UNCHANGED <<rundown, refVars, peerVars, linked, after, bad, inits, ended>>

ClientTold ==
    /\ pc[Owner] = "idle" /\ ~Server /\ ui # "ready" /\ ended = inits
    /\ ui' = "ready"
    /\ UNCHANGED <<rundown, refVars, peerVars, linked, pc, after, bad, inits, ended>>

ClientDestroy ==
    /\ pc[Owner] = "idle" /\ ~Server /\ owned
    /\ Goto(Owner, "release")
    /\ ui' = "waiting"
    /\ UNCHANGED <<rundown, refVars, peerVars, linked, after, bad, inits, ended>>

-----------------------------------------------------------------------------
\* A receive.  OnData finds the endpoint by its cookie and takes a reference.
FindRef == refs' = refs + 1

Find(t) ==
    /\ pc[t] = "idle" /\ known /\ linked /\ packets < MaxPackets
    /\ packets' = packets + 1
    /\ FindRef
    /\ Goto(t, "found")
    /\ UNCHANGED <<rundown, rcookie, fresh, known, linked, after, bad, ui, freed, inits, ended,
                   owned, claim, twice>>

\* 8 bytes from the peer's address: OnDisconnect.
OnBye(t) ==
    /\ pc[t] = "found"
    /\ Goto(t, "unlink")
    /\ after' = [after EXCEPT ![t] = "release"]
    /\ UNCHANGED <<rundown, refVars, peerVars, linked, bad, ui, inits, ended>>

\* 16 bytes: OnPing; or any packet from a foreign address, which is ignored.
OnPing(t) ==
    /\ pc[t] = "found"
    /\ fresh' \in {TRUE, fresh}
    /\ Goto(t, "release")
    /\ UNCHANGED <<rundown, refVars, rcookie, known, packets, linked, after, bad, ui, inits, ended>>

\* Anything else is for this session: its protection is taken, or it is too late.
EnterData(t) ==
    /\ bad' = [bad EXCEPT ![t] = TRUE]      \* status = STATUS_TOO_LATE
    /\ IF phase = "live"
       THEN Protect(t) /\ Goto(t, "inside")
       ELSE Goto(t, "status") /\ UNCHANGED rundown

OnData(t) ==
    /\ pc[t] = "found"
    /\ EnterData(t)
    /\ UNCHANGED <<refVars, peerVars, linked, after, ui, inits, ended>>

\* The packet cannot be decoded: status stays STATUS_TOO_LATE.
Undecoded(t) ==
    /\ pc[t] = "inside"
    /\ Goto(t, "leave")
    /\ UNCHANGED <<rundown, refVars, peerVars, linked, after, bad, ui, inits, ended>>

\* Endpoint::OnData without a complete message.
Fragment(t) ==
    /\ pc[t] = "inside" /\ rcookie
    /\ fresh' = TRUE
    /\ \E e \in BOOLEAN : bad' = [bad EXCEPT ![t] = e]
    /\ Goto(t, "leave")
    /\ UNCHANGED <<rundown, refVars, rcookie, known, packets, linked, after, ui, inits, ended>>

\* Endpoint::OnData calls OnUserData; or the client sees the hello and calls
\* OnConnect.
Callback(t) ==
    /\ pc[t] = "inside"
    /\ fresh' = (fresh \/ rcookie)
    /\ rcookie' = TRUE
    /\ Goto(t, "callback")
    /\ UNCHANGED <<rundown, refVars, known, packets, linked, after, bad, ui, inits, ended>>

CallbackEnd(t) ==
    /\ pc[t] = "callback"
    /\ \E e \in BOOLEAN : bad' = [bad EXCEPT ![t] = e]
    /\ Goto(t, "leave")
    /\ UNCHANGED <<rundown, refVars, peerVars, linked, after, ui, inits, ended>>

Leave(t) ==
    /\ pc[t] = "leave"
    /\ Unprotect(t, "told", "status")
    /\ UNCHANGED <<refVars, peerVars, linked, after, bad, ui, inits>>

\* OnDisconnect returns.
Told(t) ==
    /\ pc[t] = "told"
    /\ Goto(t, "status")
    /\ UNCHANGED <<rundown, refVars, peerVars, linked, after, bad, ui, inits, ended>>

Status(t) ==
    /\ pc[t] = "status"
    /\ Goto(t, IF bad[t] THEN "unlink" ELSE "release")
    /\ after' = [after EXCEPT ![t] = "release"]
    /\ bad' = [bad EXCEPT ![t] = FALSE]
    /\ UNCHANGED <<rundown, refVars, peerVars, linked, ui, inits, ended>>

\* p->Release(): what get took, or what the creator had; OnTimer releases once
\* more what Disconnect released already.
Release(t) ==
    /\ pc[t] = "release"
    /\ ReleaseRef
    /\ owned' = (owned /\ t # Owner)
    /\ Goto(t, "idle")
    /\ UNCHANGED <<rundown, peerVars, linked, after, bad, ui, inits, ended, claim, twice>>

-----------------------------------------------------------------------------
\* RemoveConnection: unlink (whether linked or not), notify_disconnect, Release.
TakeOut_Forgets(t) == UNCHANGED <<linked, claim, twice>>    \* mutant
TakeOut(t) ==
    /\ linked' = FALSE
    /\ claim' = IF linked THEN claim \cup {t} ELSE claim
    /\ twice' = (twice \/ ~linked)

Unlink(t) ==
    /\ pc[t] = "unlink"
    /\ TakeOut(t)
    /\ Goto(t, "notify")
    /\ UNCHANGED <<rundown, peerVars, refs, freed, owned, after, bad, ui, inits, ended>>

Notify(t) ==
    /\ pc[t] = "notify"
    /\ IF phase = "live"
       THEN Protect(t) /\ Goto(t, "rundown")
       ELSE Goto(t, "drop") /\ UNCHANGED rundown
    /\ UNCHANGED <<refVars, peerVars, linked, after, bad, ui, inits, ended>>

Rundown_l(t) ==
    /\ pc[t] = "rundown"
    /\ phase' = "closing"
    /\ Goto(t, "unprotect")
    /\ UNCHANGED <<users, era, refVars, peerVars, linked, after, bad, ui, inits, ended>>

NotifyEnd(t) ==
    /\ pc[t] = "unprotect"
    /\ Unprotect(t, "endtold", "drop")
    /\ UNCHANGED <<refVars, peerVars, linked, after, bad, ui, inits>>

EndTold(t) ==
    /\ pc[t] = "endtold"
    /\ Goto(t, "drop")
    /\ UNCHANGED <<rundown, refVars, peerVars, linked, after, bad, ui, inits, ended>>

Drop(t) ==
    /\ pc[t] = "drop"
    /\ ReleaseRef
    /\ claim' = claim \ {t}
    /\ Goto(t, after[t])
    /\ UNCHANGED <<rundown, peerVars, linked, after, bad, ui, inits, ended, owned, twice>>

\* OnTimer: an endpoint whose time is up is unlinked, disconnected (which is
\* RemoveConnection) and released.  Only the server starts the timer.
Expired == linked /\ ~fresh

OnTimer ==
    /\ pc[Timer] = "idle" /\ Server
    /\ Expired
    /\ linked' = FALSE
    /\ claim' = claim \cup {Timer}
    /\ Goto(Timer, "unlink")
    /\ after' = [after EXCEPT ![Timer] = "release"]
    /\ UNCHANGED <<rundown, peerVars, refs, freed, owned, twice, bad, ui, inits, ended>>

\* 15 s without a packet pass.
Silence ==
    /\ fresh
    /\ fresh' = FALSE
    /\ UNCHANGED <<rundown, refVars, rcookie, known, packets, linked, pc, after, bad, ui, inits, ended>>

\* A receive fails for good; the last one calls Stop, which empties the list.
RecvError(t) ==
    /\ pc[t] = "idle"
    /\ IF \A u \in Recv \ {t} : pc[u] = "dead"
       THEN /\ linked' = FALSE
            /\ claim' = IF linked THEN claim \cup {t} ELSE claim
            /\ Goto(t, IF linked THEN "notify" ELSE "dead")
       ELSE Goto(t, "dead") /\ UNCHANGED <<linked, claim>>
    /\ after' = [after EXCEPT ![t] = "dead"]
    /\ UNCHANGED <<rundown, peerVars, refs, freed, owned, twice, bad, ui, inits, ended>>

Remove(t) == Unlink(t) \/ Notify(t) \/ Rundown_l(t) \/ NotifyEnd(t) \/ EndTold(t) \/ Drop(t)
RecvStep(t) ==
    \/ OnBye(t) \/ OnPing(t) \/ OnData(t) \/ Undecoded(t) \/ Fragment(t) \/ Callback(t)
    \/ CallbackEnd(t) \/ Leave(t) \/ Told(t) \/ Status(t)
OwnerStep == ServerInit \/ Add \/ SendFails \/ SendOk

Next ==
    /\ ~freed
    /\ \/ OwnerStep \/ ClientConnect \/ ClientDisconnect \/ ClientTold \/ ClientDestroy
       \/ OnTimer \/ Silence
       \/ \E t \in Recv : Find(t) \/ RecvStep(t) \/ RecvError(t)
       \/ \E t \in Threads : Remove(t) \/ Release(t)

Spec == Init /\ [][Next]_vars

\* Threads go on, time passes, the timer is periodic; packets need not come.
Fairness ==
    /\ WF_vars(~freed /\ OwnerStep) /\ WF_vars(~freed /\ OnTimer) /\ WF_vars(~freed /\ Silence)
    /\ \A t \in Recv : WF_vars(~freed /\ RecvStep(t))
    /\ \A t \in Threads : WF_vars(~freed /\ Remove(t)) /\ WF_vars(~freed /\ Release(t))

-----------------------------------------------------------------------------
\* OnUserData and OnConnect never run for a session that OnDisconnect was told
\* of, nor after a later session began: the rundown lock is taken around each.
NoCallbackAfterDisconnect ==
    \A t \in Recv : pc[t] \in {"inside", "callback"} =>
        era[t] = inits /\ ended < era[t]

\* Every session that began ends in exactly one OnDisconnect, whoever notices
\* first: the peer's goodbye, a packet that fails, the timer or the dialog.
OneDisconnectPerSession ==
    ended = IF phase = "off" THEN inits ELSE inits - 1

\* Who still has a pointer it will use.
InReach ==
    \/ linked \/ owned
    \/ \E t \in Threads : pc[t] \notin {"idle", "dead"}

\* The object is not deleted under anybody's feet ...
FreedWhenUnused == freed /\ ~twice => ~InReach

\* ... and the dialog cannot connect an endpoint that is still in the list, which
\* would tie the list into a knot ...
NotLinkedTwice == pc[Owner] = "add" /\ ~twice => ~linked

\* ... as long as RemoveConnection is called once for each AddConnection: its
\* Release gives back the list's reference whether or not the endpoint still is
\* in the list.
ListIsSane == FreedWhenUnused /\ NotLinkedTwice

\* An endpoint whose peer falls silent is dropped and deleted: no reference is
\* forgotten, and a client that died does not keep the camera.
EndpointIsFreed == <>freed
=============================================================================
