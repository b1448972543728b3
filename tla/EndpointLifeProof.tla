------------------------- MODULE EndpointLifeProof -------------------------
(***************************************************************************)
(* Proofs about EndpointLife for any finite set of receives, both sides;   *)
(* about the rundown lock that guards an endpoint; and that Connection,    *)
(* the endpoint over TCP or a pipe, implements ConnectionSpec.             *)
(*                                                                         *)
(* The inductive invariant of EndpointLife has four parts.  Session: who is inside the     *)
(* rundown lock and for which session.  Places: which thread can be where. *)
(* Refs: as long as nobody removed the endpoint twice, the reference count *)
(* is the creator's, the list's, one for each receive that found the       *)
(* object, and one for each thread that took it out of the list and has    *)
(* not dropped it.  OneRemover: on the client, while it can be connected   *)
(* again, at most one thread ends the session; without it the dialog could *)
(* link an endpoint that is still linked, and Refs would not be inductive. *)
(***************************************************************************)
EXTENDS EndpointLife, MCRundown, Connection, FiniteSetTheorems, SequenceTheorems, TLAPS

InsidePlaces   == {"inside", "callback", "leave", "rundown", "unprotect"}
RecvPlaces     == {"found", "inside", "callback", "leave", "told", "status"}
RemovingPlaces == {"notify", "rundown", "unprotect", "endtold", "drop"}

Session ==
    /\ users = {t \in Threads : pc[t] \in InsidePlaces}
    /\ phase = "off" => users = {}
    /\ \A t \in users : era[t] = inits
    /\ OneDisconnectPerSession

RecvPlaced ==
    \A t \in Recv :
        /\ pc[t] \in {"idle", "dead", "release", "unlink"} \cup RecvPlaces \cup RemovingPlaces
        /\ pc[t] = "unlink" => after[t] = "release"
        /\ pc[t] \in RemovingPlaces => after[t] \in {"dead", "release"}

OwnerPlaced ==
    /\ pc[Owner] \in {"idle", "add", "init", "send", "unlink", "release"} \cup RemovingPlaces
    /\ after[Owner] \in {"idle", "release"}
    /\ pc[Owner] # "idle" => owned
    /\ ~Server => after[Owner] = "idle"
    /\ ~Server /\ pc[Owner] = "release" => ui # "connected"
    /\ ~Server /\ ui = "connected" => owned
    /\ Server /\ pc[Owner] = "add" => ~linked /\ pc[Timer] = "idle"

TimerPlaced ==
    /\ pc[Timer] \in {"idle", "unlink", "release"} \cup RemovingPlaces
    /\ after[Timer] \in {"idle", "release"}
    /\ ~Server => pc[Timer] = "idle"

Places == RecvPlaced /\ OwnerPlaced /\ TimerPlaced

Holds(t) ==
    \/ pc[t] \in RecvPlaces \cup {"release"}
    \/ pc[t] \in RemovingPlaces \cup {"unlink"} /\ after[t] = "release"
Holding == {t \in Recv : Holds(t)}
One(b) == IF b THEN 1 ELSE 0

Claims ==
    /\ \A t \in Threads :
        t \in claim <=> pc[t] \in RemovingPlaces \/ (t = Timer /\ pc[t] = "unlink")
    /\ pc[Timer] \in {"idle", "unlink"}
    /\ pc[Timer] = "unlink" => ~linked
RefCount == refs = One(owned) + One(linked) + Cardinality(claim) + Cardinality(Holding)

Ending(t) == pc[t] \in {"notify", "rundown"}
OneRemover ==
    /\ linked => phase = "live"
    /\ \A t \in Threads : Ending(t) => phase = "live" /\ ~linked /\ pc[Owner] # "add"
    /\ \A t, u \in Threads : Ending(t) /\ Ending(u) => t = u
    /\ pc[Owner] = "add" => phase = "live" /\ ~linked

Refs ==
    /\ refs \in Nat /\ (freed <=> refs = 0)
    /\ ~twice => Claims /\ RefCount
    /\ ~twice /\ ~Server => OneRemover

IInv == TypeOK /\ Session /\ Places /\ Refs

-----------------------------------------------------------------------------
\* Types.
PcPlaces == {"idle", "dead", "found", "inside", "callback", "leave", "told", "status",
             "release", "add", "init", "send", "unlink", "notify", "rundown",
             "unprotect", "endtold", "drop"}

LEMMA InitType == Init => TypeOK
<1> SUFFICES ASSUME Init PROVE TypeOK
  OBVIOUS
<1>1. /\ pc \in [Threads -> {"idle", "add"}]
      /\ after \in [Threads -> {"idle"}]
      /\ bad \in [Threads -> BOOLEAN]
      /\ era \in [Threads -> Nat]
  BY DEF Init
<1>2. pc \in [Threads -> PcPlaces]
  BY <1>1 DEF PcPlaces
<1>3. packets \in 0 .. MaxPackets /\ ended \in 0 .. inits /\ inits \in Nat /\ refs \in Int
  BY BoundsAssumption DEF Init
<1>4. after \in [Threads -> {"idle", "dead", "release"}]
  BY <1>1
<1>5. /\ phase = "off" /\ users = {} /\ linked = FALSE /\ rcookie = FALSE /\ fresh = TRUE
      /\ known = FALSE /\ ui = "ready" /\ freed = FALSE /\ owned = TRUE /\ claim = {}
      /\ twice = FALSE
  BY DEF Init
<1> QED
  BY <1>1, <1>2, <1>3, <1>4, <1>5 DEF TypeOK, PcPlaces

\* A move of one thread, the effect every action has on pc.
LEMMA GotoType ==
    ASSUME TypeOK, NEW t \in Threads, NEW l \in PcPlaces, Goto(t, l)
    PROVE  /\ pc' \in [Threads -> PcPlaces]
           /\ pc'[t] = l
           /\ \A u \in Threads : u # t => pc'[u] = pc[u]
BY DEF TypeOK, Goto, PcPlaces

\* Entering and leaving the rundown lock keep its types.
LEMMA UnprotectType ==
    ASSUME TypeOK, Session, NEW t \in Threads, NEW told \in PcPlaces, NEW next \in PcPlaces,
           Unprotect(t, told, next), inits' = inits
    PROVE  /\ phase' \in {"off", "live", "closing"}
           /\ users' \subseteq Threads
           /\ era' \in [Threads -> Nat]
           /\ ended' \in 0 .. inits'
           /\ pc' \in [Threads -> PcPlaces]
<1>1. CASE phase = "closing" /\ users = {t}
  <2>1. ended = inits - 1 /\ ended \in Nat /\ inits \in Nat
    BY <1>1 DEF Session, OneDisconnectPerSession, TypeOK
  <2>2. phase' = "off" /\ ended' = ended + 1 /\ Goto(t, told) /\ users' = users \ {t} /\ era' = era
    BY <1>1 DEF Unprotect
  <2>3. pc' \in [Threads -> PcPlaces]
    BY <2>2, GotoType
  <2> QED
    BY <2>1, <2>2, <2>3 DEF TypeOK
<1>2. CASE ~(phase = "closing" /\ users = {t})
  <2>1. Goto(t, next) /\ UNCHANGED <<phase, ended, era>> /\ users' = users \ {t}
    BY <1>2 DEF Unprotect
  <2>2. pc' \in [Threads -> PcPlaces]
    BY <2>1, GotoType
  <2> QED
    BY <2>1, <2>2 DEF TypeOK
<1> QED
  BY <1>1, <1>2

LEMMA RecvTypeStep ==
    ASSUME TypeOK, Session, NEW t \in Recv, RecvStep(t)
    PROVE  TypeOK'
<1>0. t \in Threads
  BY DEF Threads
<1>1. CASE OnBye(t)
  BY <1>0, <1>1 DEF OnBye, Goto, TypeOK, rundown, refVars, peerVars
<1>2. CASE OnPing(t)
  BY <1>0, <1>2 DEF OnPing, Goto, TypeOK, rundown, refVars
<1>3. CASE OnData(t)
  BY <1>0, <1>3 DEF OnData, EnterData, Protect, Goto, TypeOK, rundown, refVars, peerVars
<1>4. CASE Undecoded(t)
  BY <1>0, <1>4 DEF Undecoded, Goto, TypeOK, rundown, refVars, peerVars
<1>5. CASE Fragment(t)
  BY <1>0, <1>5 DEF Fragment, Goto, TypeOK, rundown, refVars
<1>6. CASE Callback(t)
  BY <1>0, <1>6 DEF Callback, Goto, TypeOK, rundown, refVars
<1>7. CASE CallbackEnd(t)
  BY <1>0, <1>7 DEF CallbackEnd, Goto, TypeOK, rundown, refVars, peerVars
<1>8. CASE Leave(t)
  <2>1. Unprotect(t, "told", "status") /\ UNCHANGED <<refVars, peerVars, linked, after, bad, ui, inits>>
    BY <1>8 DEF Leave
  <2>2. /\ phase' \in {"off", "live", "closing"}
        /\ users' \subseteq Threads
        /\ era' \in [Threads -> Nat]
        /\ ended' \in 0 .. inits'
        /\ pc' \in [Threads -> PcPlaces]
    BY <1>0, <2>1, UnprotectType DEF PcPlaces
  <2> QED
    BY <2>1, <2>2 DEF TypeOK, PcPlaces, refVars, peerVars
<1>9. CASE Told(t)
  BY <1>0, <1>9 DEF Told, Goto, TypeOK, rundown, refVars, peerVars
<1>10. CASE Status(t)
  BY <1>0, <1>10 DEF Status, Goto, TypeOK, rundown, refVars, peerVars
<1> QED
  BY <1>1, <1>2, <1>3, <1>4, <1>5, <1>6, <1>7, <1>8, <1>9, <1>10 DEF RecvStep

LEMMA RemoveTypeStep ==
    ASSUME TypeOK, Session, NEW t \in Threads, Remove(t)
    PROVE  TypeOK'
<1>1. CASE Unlink(t)
  BY <1>1 DEF Unlink, TakeOut, Goto, TypeOK, rundown, peerVars
<1>2. CASE Notify(t)
  BY <1>2 DEF Notify, Protect, Goto, TypeOK, rundown, refVars, peerVars
<1>3. CASE Rundown_l(t)
  BY <1>3 DEF Rundown_l, Goto, TypeOK, refVars, peerVars
<1>4. CASE NotifyEnd(t)
  <2>1. Unprotect(t, "endtold", "drop") /\ UNCHANGED <<refVars, peerVars, linked, after, bad, ui, inits>>
    BY <1>4 DEF NotifyEnd
  <2>2. /\ phase' \in {"off", "live", "closing"}
        /\ users' \subseteq Threads
        /\ era' \in [Threads -> Nat]
        /\ ended' \in 0 .. inits'
        /\ pc' \in [Threads -> PcPlaces]
    BY <2>1, UnprotectType DEF PcPlaces
  <2> QED
    BY <2>1, <2>2 DEF TypeOK, PcPlaces, refVars, peerVars
<1>5. CASE EndTold(t)
  BY <1>5 DEF EndTold, Goto, TypeOK, rundown, refVars, peerVars
<1>6. CASE Drop(t)
  BY <1>6 DEF Drop, ReleaseRef, Goto, TypeOK, rundown, peerVars
<1> QED
  BY <1>1, <1>2, <1>3, <1>4, <1>5, <1>6 DEF Remove

LEMMA TypeStep == TypeOK /\ Session /\ [Next]_vars => TypeOK'
<1> SUFFICES ASSUME TypeOK, Session, [Next]_vars PROVE TypeOK'
  OBVIOUS
<1>0. Owner \in Threads /\ Timer \in Threads /\ Recv \subseteq Threads
  BY DEF Threads
<1>1. CASE ServerInit
  BY <1>0, <1>1, ServerAssumption DEF ServerInit, InitDone, Goto, TypeOK, refVars
<1>2. CASE ClientConnect
  BY <1>0, <1>2, ServerAssumption DEF ClientConnect, InitDone, Goto, TypeOK, refVars
<1>3. CASE Add
  BY <1>0, <1>3 DEF Add, AddConnection, Goto, TypeOK, rundown, peerVars
<1>4. CASE SendFails
  BY <1>0, <1>4 DEF SendFails, Goto, TypeOK, rundown, refVars, peerVars
<1>5. CASE SendOk
  BY <1>0, <1>5 DEF SendOk, AfterSend, Goto, TypeOK, rundown, refVars
<1>6. CASE ClientDisconnect
  BY <1>0, <1>6 DEF ClientDisconnect, Goto, TypeOK, rundown, refVars, peerVars
<1>7. CASE ClientTold
  BY <1>7 DEF ClientTold, TypeOK, rundown, refVars, peerVars
<1>8. CASE ClientDestroy
  BY <1>0, <1>8 DEF ClientDestroy, Goto, TypeOK, rundown, refVars, peerVars
<1>9. CASE OnTimer
  BY <1>0, <1>9 DEF OnTimer, Goto, TypeOK, rundown, peerVars
<1>10. CASE Silence
  BY <1>10 DEF Silence, TypeOK, rundown, refVars
<1>11. ASSUME NEW t \in Recv, Find(t) PROVE TypeOK'
  BY <1>0, <1>11, BoundsAssumption DEF Find, FindRef, Goto, TypeOK, rundown
<1>12. ASSUME NEW t \in Recv, RecvStep(t) PROVE TypeOK'
  BY <1>12, RecvTypeStep
<1>13. ASSUME NEW t \in Recv, RecvError(t) PROVE TypeOK'
  <2>1. /\ linked' \in BOOLEAN /\ claim' \subseteq Threads
        /\ \E l \in {"notify", "dead"} : Goto(t, l)
        /\ after' = [after EXCEPT ![t] = "dead"]
        /\ UNCHANGED <<rundown, peerVars, refs, freed, owned, twice, bad, ui, inits, ended>>
    BY <1>0, <1>13 DEF RecvError, TypeOK
  <2>2. pc' \in [Threads -> PcPlaces]
    BY <1>0, <2>1, GotoType DEF PcPlaces
  <2>3. after' \in [Threads -> {"idle", "dead", "release"}]
    BY <2>1 DEF TypeOK
  <2> QED
    BY <2>1, <2>2, <2>3 DEF TypeOK, PcPlaces, rundown, peerVars
<1>14. ASSUME NEW t \in Threads, Remove(t) PROVE TypeOK'
  BY <1>14, RemoveTypeStep
<1>15. ASSUME NEW t \in Threads, Release(t) PROVE TypeOK'
  BY <1>15 DEF Release, ReleaseRef, Goto, TypeOK, rundown, peerVars
<1>16. CASE UNCHANGED vars
  BY <1>16 DEF vars, TypeOK, rundown, refVars, peerVars
<1> QED
  BY <1>1, <1>2, <1>3, <1>4, <1>5, <1>6, <1>7, <1>8, <1>9, <1>10, <1>11, <1>12, <1>13,
     <1>14, <1>15, <1>16 DEF Next, OwnerStep

-----------------------------------------------------------------------------
\* Sessions: four ways an action can touch the rundown lock.
LEMMA SessionQuiet ==
    ASSUME TypeOK, Session, NEW t \in Threads, NEW l \in PcPlaces, Goto(t, l),
           pc[t] \in InsidePlaces <=> l \in InsidePlaces,
           UNCHANGED <<phase, users, era, inits, ended>>
    PROVE  Session'
<1>1. pc'[t] = l /\ \A u \in Threads : u # t => pc'[u] = pc[u]
  BY GotoType
<1>2. users' = {u \in Threads : pc'[u] \in InsidePlaces}
  BY <1>1 DEF Session
<1> QED
  BY <1>2 DEF Session, OneDisconnectPerSession

LEMMA SessionEnter ==
    ASSUME TypeOK, Session, NEW t \in Threads, NEW l \in InsidePlaces, Goto(t, l),
           phase = "live", Protect(t), UNCHANGED <<inits, ended>>
    PROVE  Session'
<1>1. pc'[t] = l /\ \A u \in Threads : u # t => pc'[u] = pc[u]
  BY GotoType DEF InsidePlaces, PcPlaces
<1>2. users' = {u \in Threads : pc'[u] \in InsidePlaces}
  BY <1>1 DEF Session, Protect
<1>3. \A u \in users' : era'[u] = inits'
  BY DEF Session, Protect, TypeOK
<1> QED
  BY <1>2, <1>3 DEF Session, Protect, OneDisconnectPerSession

LEMMA SessionExit ==
    ASSUME TypeOK, Session, NEW t \in Threads, pc[t] \in InsidePlaces,
           NEW told \in PcPlaces \ InsidePlaces, NEW next \in PcPlaces \ InsidePlaces,
           Unprotect(t, told, next), inits' = inits
    PROVE  Session'
<1>1. t \in users /\ phase # "off"
  BY DEF Session
<1>2. \E l \in PcPlaces \ InsidePlaces : Goto(t, l)
  BY DEF Unprotect
<1>3. pc'[t] \notin InsidePlaces /\ \A u \in Threads : u # t => pc'[u] = pc[u]
  BY <1>2, GotoType
<1>4. users' = {u \in Threads : pc'[u] \in InsidePlaces}
  BY <1>3 DEF Session, Unprotect
<1>5. users' = users \ {t} /\ era' = era
  BY DEF Unprotect
<1>6. CASE phase = "closing" /\ users = {t}
  <2>1. phase' = "off" /\ ended' = ended + 1
    BY <1>6 DEF Unprotect
  <2>2. ended = inits - 1
    BY <1>1 DEF Session, OneDisconnectPerSession
  <2> QED
    BY <1>4, <1>5, <1>6, <2>1, <2>2 DEF Session, OneDisconnectPerSession, TypeOK
<1>7. CASE ~(phase = "closing" /\ users = {t})
  <2>1. phase' = phase /\ ended' = ended
    BY <1>7 DEF Unprotect
  <2> QED
    BY <1>1, <1>4, <1>5, <2>1 DEF Session, OneDisconnectPerSession
<1> QED
  BY <1>6, <1>7

LEMMA SessionStart ==
    ASSUME TypeOK, Session, NEW l \in PcPlaces \ InsidePlaces, InitDone(l),
           pc[Owner] \notin InsidePlaces, UNCHANGED <<users, era, ended>>
    PROVE  Session'
<1>1. Owner \in Threads
  BY DEF Threads
<1>2. pc'[Owner] = l /\ \A u \in Threads : u # Owner => pc'[u] = pc[u]
  BY <1>1, GotoType DEF InitDone
<1>3. users' = {u \in Threads : pc'[u] \in InsidePlaces}
  BY <1>2 DEF Session
<1>4. users' = {} /\ ended' = inits' - 1 /\ phase' = "live"
  BY DEF Session, InitDone, OneDisconnectPerSession, TypeOK
<1> QED
  BY <1>3, <1>4 DEF Session, OneDisconnectPerSession

LEMMA SessionRecv ==
    ASSUME TypeOK, Session, NEW t \in Recv, RecvStep(t)
    PROVE  Session'
<1>0. t \in Threads
  BY DEF Threads
<1>1. CASE OnBye(t) \/ OnPing(t)
  BY <1>0, <1>1, SessionQuiet DEF OnBye, OnPing, rundown, InsidePlaces, PcPlaces
<1>2. CASE OnData(t)
  <2>1. CASE phase = "live"
    <3>1. Protect(t) /\ Goto(t, "inside") /\ UNCHANGED <<inits, ended>>
      BY <1>2, <2>1 DEF OnData, EnterData
    <3> QED
      BY <1>0, <2>1, <3>1, SessionEnter DEF InsidePlaces
  <2>2. CASE phase # "live"
    <3>1. Goto(t, "status") /\ UNCHANGED <<phase, users, era, inits, ended>> /\ pc[t] = "found"
      BY <1>2, <2>2 DEF OnData, EnterData, rundown
    <3> QED
      BY <1>0, <3>1, SessionQuiet DEF InsidePlaces, PcPlaces
  <2> QED
    BY <2>1, <2>2
<1>3. CASE Undecoded(t) \/ Fragment(t)
  <2>1. Goto(t, "leave") /\ UNCHANGED <<phase, users, era, inits, ended>> /\ pc[t] = "inside"
    BY <1>3 DEF Undecoded, Fragment, rundown
  <2> QED
    BY <1>0, <2>1, SessionQuiet DEF InsidePlaces, PcPlaces
<1>4. CASE Callback(t) \/ CallbackEnd(t)
  <2>1. \E l \in {"callback", "leave"} :
           Goto(t, l) /\ UNCHANGED <<phase, users, era, inits, ended>>
    BY <1>4 DEF Callback, CallbackEnd, rundown
  <2>2. pc[t] \in {"inside", "callback"}
    BY <1>4 DEF Callback, CallbackEnd
  <2> QED
    BY <1>0, <2>1, <2>2, SessionQuiet DEF InsidePlaces, PcPlaces
<1>5. CASE Leave(t)
  <2>1. Unprotect(t, "told", "status") /\ inits' = inits /\ pc[t] = "leave"
    BY <1>5 DEF Leave
  <2> QED
    BY <1>0, <2>1, SessionExit DEF InsidePlaces, PcPlaces
<1>6. CASE Told(t) \/ Status(t)
  <2>1. \E l \in {"status", "unlink", "release"} :
           Goto(t, l) /\ UNCHANGED <<phase, users, era, inits, ended>>
    BY <1>6 DEF Told, Status, rundown
  <2>2. pc[t] \in {"told", "status"}
    BY <1>6 DEF Told, Status
  <2> QED
    BY <1>0, <2>1, <2>2, SessionQuiet DEF InsidePlaces, PcPlaces
<1> QED
  BY <1>1, <1>2, <1>3, <1>4, <1>5, <1>6 DEF RecvStep

LEMMA SessionRemove ==
    ASSUME TypeOK, Session, NEW t \in Threads, Remove(t)
    PROVE  Session'
<1>1. CASE Unlink(t)
  <2>1. Goto(t, "notify") /\ UNCHANGED <<phase, users, era, inits, ended>> /\ pc[t] = "unlink"
    BY <1>1 DEF Unlink, rundown
  <2> QED
    BY <2>1, SessionQuiet DEF InsidePlaces, PcPlaces
<1>2. CASE Notify(t)
  <2>1. CASE phase = "live"
    <3>1. Protect(t) /\ Goto(t, "rundown") /\ UNCHANGED <<inits, ended>>
      BY <1>2, <2>1 DEF Notify
    <3> QED
      BY <2>1, <3>1, SessionEnter DEF InsidePlaces
  <2>2. CASE phase # "live"
    <3>1. Goto(t, "drop") /\ UNCHANGED <<phase, users, era, inits, ended>> /\ pc[t] = "notify"
      BY <1>2, <2>2 DEF Notify, rundown
    <3> QED
      BY <3>1, SessionQuiet DEF InsidePlaces, PcPlaces
  <2> QED
    BY <2>1, <2>2
<1>3. CASE Rundown_l(t)
  <2>1. pc[t] = "rundown" /\ Goto(t, "unprotect") /\ phase' = "closing"
        /\ UNCHANGED <<users, era, inits, ended>>
    BY <1>3 DEF Rundown_l
  <2>2. pc'[t] = "unprotect" /\ \A u \in Threads : u # t => pc'[u] = pc[u]
    BY <2>1, GotoType DEF PcPlaces
  <2>3. users' = {u \in Threads : pc'[u] \in InsidePlaces}
    BY <2>1, <2>2 DEF Session, InsidePlaces
  <2>4. phase # "off"
    BY <2>1 DEF Session, InsidePlaces
  <2> QED
    BY <2>1, <2>3, <2>4 DEF Session, OneDisconnectPerSession
<1>4. CASE NotifyEnd(t)
  <2>1. Unprotect(t, "endtold", "drop") /\ inits' = inits /\ pc[t] = "unprotect"
    BY <1>4 DEF NotifyEnd
  <2> QED
    BY <2>1, SessionExit DEF InsidePlaces, PcPlaces
<1>5. CASE EndTold(t)
  <2>1. Goto(t, "drop") /\ UNCHANGED <<phase, users, era, inits, ended>> /\ pc[t] = "endtold"
    BY <1>5 DEF EndTold, rundown
  <2> QED
    BY <2>1, SessionQuiet DEF InsidePlaces, PcPlaces
<1>6. CASE Drop(t)
  <2>1. Goto(t, after[t]) /\ UNCHANGED <<phase, users, era, inits, ended>> /\ pc[t] = "drop"
    BY <1>6 DEF Drop, rundown
  <2>2. after[t] \in {"idle", "dead", "release"}
    BY DEF TypeOK
  <2> QED
    BY <2>1, <2>2, SessionQuiet DEF InsidePlaces, PcPlaces
<1> QED
  BY <1>1, <1>2, <1>3, <1>4, <1>5, <1>6 DEF Remove

LEMMA SessionStep == TypeOK /\ Session /\ [Next]_vars => Session'
<1> SUFFICES ASSUME TypeOK, Session, [Next]_vars PROVE Session'
  OBVIOUS
<1>0. Owner \in Threads /\ Timer \in Threads /\ Recv \subseteq Threads
  BY DEF Threads
<1>1. CASE ServerInit
  <2>1. PICK l \in {"send", "unlink"} : InitDone(l)
    BY <1>1 DEF ServerInit
  <2>2. pc[Owner] = "init" /\ UNCHANGED <<users, era, ended>>
    BY <1>1 DEF ServerInit
  <2> QED
    BY <2>1, <2>2, SessionStart DEF InsidePlaces, PcPlaces
<1>2. CASE ClientConnect
  <2>1. PICK next \in {"add", "idle"} : InitDone(next)
    BY <1>2 DEF ClientConnect
  <2>2. pc[Owner] = "idle" /\ UNCHANGED <<users, era, ended>>
    BY <1>2 DEF ClientConnect
  <2> QED
    BY <2>1, <2>2, SessionStart DEF InsidePlaces, PcPlaces
<1>3. CASE Add
  <2>1. /\ \E l \in {"init", "send"} : Goto(Owner, l)
        /\ UNCHANGED <<phase, users, era, inits, ended>> /\ pc[Owner] = "add"
    BY <1>3 DEF Add, rundown
  <2> QED
    BY <1>0, <2>1, SessionQuiet DEF InsidePlaces, PcPlaces
<1>4. CASE SendFails \/ SendOk
  <2>1. /\ \E l \in {"unlink", "release", "idle"} : Goto(Owner, l)
        /\ UNCHANGED <<phase, users, era, inits, ended>> /\ pc[Owner] = "send"
    BY <1>4 DEF SendFails, SendOk, AfterSend, rundown
  <2> QED
    BY <1>0, <2>1, SessionQuiet DEF InsidePlaces, PcPlaces
<1>5. CASE ClientDisconnect \/ ClientDestroy
  <2>1. /\ \E l \in {"unlink", "release"} : Goto(Owner, l)
        /\ UNCHANGED <<phase, users, era, inits, ended>> /\ pc[Owner] = "idle"
    BY <1>5 DEF ClientDisconnect, ClientDestroy, rundown
  <2> QED
    BY <1>0, <2>1, SessionQuiet DEF InsidePlaces, PcPlaces
<1>6. CASE OnTimer
  <2>1. Goto(Timer, "unlink") /\ UNCHANGED <<phase, users, era, inits, ended>> /\ pc[Timer] = "idle"
    BY <1>6 DEF OnTimer, rundown
  <2> QED
    BY <1>0, <2>1, SessionQuiet DEF InsidePlaces, PcPlaces
<1>7. CASE ClientTold \/ Silence \/ UNCHANGED vars
  BY <1>7 DEF ClientTold, Silence, vars, rundown, Session, OneDisconnectPerSession
<1>8. ASSUME NEW t \in Recv, Find(t) PROVE Session'
  <2>1. Goto(t, "found") /\ UNCHANGED <<phase, users, era, inits, ended>> /\ pc[t] = "idle"
    BY <1>8 DEF Find, rundown
  <2> QED
    BY <1>0, <2>1, SessionQuiet DEF InsidePlaces, PcPlaces
<1>9. ASSUME NEW t \in Recv, RecvStep(t) PROVE Session'
  BY <1>9, SessionRecv
<1>10. ASSUME NEW t \in Recv, RecvError(t) PROVE Session'
  <2>1. /\ \E l \in {"notify", "dead"} : Goto(t, l)
        /\ UNCHANGED <<phase, users, era, inits, ended>> /\ pc[t] = "idle"
    BY <1>10 DEF RecvError, rundown
  <2> QED
    BY <1>0, <2>1, SessionQuiet DEF InsidePlaces, PcPlaces
<1>11. ASSUME NEW t \in Threads, Remove(t) PROVE Session'
  BY <1>11, SessionRemove
<1>12. ASSUME NEW t \in Threads, Release(t) PROVE Session'
  <2>1. Goto(t, "idle") /\ UNCHANGED <<phase, users, era, inits, ended>> /\ pc[t] = "release"
    BY <1>12 DEF Release, rundown
  <2> QED
    BY <2>1, SessionQuiet DEF InsidePlaces, PcPlaces
<1> QED
  BY <1>1, <1>2, <1>3, <1>4, <1>5, <1>6, <1>7, <1>8, <1>9, <1>10, <1>11, <1>12
     DEF Next, OwnerStep

LEMMA InitSession == Init => Session
BY DEF Init, Session, InsidePlaces, OneDisconnectPerSession, Threads

LEMMA SessionInvariant == Spec => [](TypeOK /\ Session)
<1>1. Init => TypeOK /\ Session
  BY InitType, InitSession
<1>2. TypeOK /\ Session /\ [Next]_vars => (TypeOK /\ Session)'
  BY TypeStep, SessionStep
<1> QED
  BY <1>1, <1>2, PTL DEF Spec

\* Type correctness.
THEOREM TypeCorrect == Spec => []TypeOK
BY SessionInvariant, PTL

\* However the receives, the timer, the owner and Stop interleave, a callback
\* runs only while its own session is alive: whoever is in it protects it.
THEOREM CallbacksAreProtected == Spec => []NoCallbackAfterDisconnect
<1>1. TypeOK /\ Session => NoCallbackAfterDisconnect
  <2> SUFFICES ASSUME TypeOK, Session, NEW t \in Recv, pc[t] \in {"inside", "callback"}
               PROVE  era[t] = inits /\ ended < era[t]
    BY DEF NoCallbackAfterDisconnect
  <2>1. t \in users /\ era[t] = inits
    BY DEF Session, InsidePlaces, Threads
  <2>2. phase # "off" /\ ended = inits - 1
    BY <2>1 DEF Session, OneDisconnectPerSession
  <2> QED
    BY <2>1, <2>2 DEF TypeOK
<1> QED
  BY <1>1, SessionInvariant, PTL

\* Every session gets exactly one OnDisconnect.
THEOREM DisconnectOnce == Spec => []OneDisconnectPerSession
<1>1. TypeOK /\ Session => OneDisconnectPerSession
  BY DEF Session
<1> QED
  BY <1>1, SessionInvariant, PTL

-----------------------------------------------------------------------------
\* Places: a move of a receive, of the owner, of the timer.
LEMMA Distinct == /\ Owner \in Threads /\ Timer \in Threads /\ Recv \subseteq Threads
                  /\ Owner # Timer /\ Owner \notin Recv /\ Timer \notin Recv
                  /\ \A t \in Threads : t \in Recv \/ t = Owner \/ t = Timer
BY ThreadsAssumption DEF Threads

RecvGoal(l, a) ==
    /\ l \in {"idle", "dead", "release", "unlink"} \cup RecvPlaces \cup RemovingPlaces
    /\ l = "unlink" => a = "release"
    /\ l \in RemovingPlaces => a \in {"dead", "release"}

LEMMA PlacesRecv ==
    ASSUME TypeOK, Places, NEW t \in Recv, NEW l \in PcPlaces, Goto(t, l),
           RecvGoal(l, after'[t]), \A u \in Threads : u # t => after'[u] = after[u],
           UNCHANGED <<owned, ui>>, linked' => linked
    PROVE  Places'
<1>1. pc'[t] = l /\ \A u \in Threads : u # t => pc'[u] = pc[u]
  BY GotoType, Distinct
<1>2. RecvPlaced'
  BY <1>1, Distinct DEF Places, RecvPlaced, RecvGoal
<1>3. OwnerPlaced' /\ TimerPlaced'
  BY <1>1, Distinct DEF Places, OwnerPlaced, TimerPlaced
<1> QED
  BY <1>2, <1>3 DEF Places

LEMMA PlacesOther ==
    ASSUME TypeOK, Places, NEW t \in {Owner, Timer}, NEW l \in PcPlaces, Goto(t, l),
           \A u \in Threads : u # t => after'[u] = after[u],
           OwnerPlaced', TimerPlaced'
    PROVE  Places'
<1>1. \A u \in Threads : u # t => pc'[u] = pc[u]
  BY GotoType, Distinct
<1>2. RecvPlaced'
  BY <1>1, Distinct DEF Places, RecvPlaced
<1> QED
  BY <1>2 DEF Places

LEMMA PlacesRecvStep ==
    ASSUME TypeOK, Places, NEW t \in Recv, RecvStep(t) \/ Find(t) \/ RecvError(t)
    PROVE  Places'
<1>0. t \in Threads
  BY Distinct
<1>1. UNCHANGED <<owned, ui>> /\ (linked' => linked)
  BY DEF RecvStep, OnBye, OnPing, OnData, Undecoded, Fragment, Callback, CallbackEnd, Leave,
         Told, Status, Find, RecvError, refVars, TypeOK
<1>2. CASE OnBye(t) \/ Status(t)
  <2>1. after' = [after EXCEPT ![t] = "release"]
    BY <1>2 DEF OnBye, Status
  <2>2. after'[t] = "release" /\ \A u \in Threads : u # t => after'[u] = after[u]
    BY <1>0, <2>1 DEF TypeOK
  <2>3. \E l \in {"unlink", "release"} : Goto(t, l)
    BY <1>2 DEF OnBye, Status
  <2>4. \A l \in {"unlink", "release"} : RecvGoal(l, after'[t]) /\ l \in PcPlaces
    BY <2>2 DEF RecvGoal, RemovingPlaces, PcPlaces
  <2> QED
    BY <1>1, <2>2, <2>3, <2>4, PlacesRecv
<1>3. CASE RecvError(t)
  <2>1. after' = [after EXCEPT ![t] = "dead"]
    BY <1>3 DEF RecvError
  <2>2. after'[t] = "dead" /\ \A u \in Threads : u # t => after'[u] = after[u]
    BY <1>0, <2>1 DEF TypeOK
  <2>3. \E l \in {"notify", "dead"} : Goto(t, l)
    BY <1>3 DEF RecvError
  <2>4. \A l \in {"notify", "dead"} : RecvGoal(l, after'[t]) /\ l \in PcPlaces
    BY <2>2 DEF RecvGoal, RemovingPlaces, PcPlaces
  <2> QED
    BY <1>1, <2>2, <2>3, <2>4, PlacesRecv
<1>4. CASE OnPing(t) \/ OnData(t) \/ Undecoded(t) \/ Fragment(t) \/ Callback(t) \/ CallbackEnd(t)
           \/ Leave(t) \/ Told(t) \/ Find(t)
  <2>1. after' = after
    BY <1>4 DEF OnPing, OnData, Undecoded, Fragment, Callback, CallbackEnd, Leave, Told, Find
  <2>2. \E l \in {"release"} \cup RecvPlaces : Goto(t, l)
    BY <1>4 DEF OnPing, OnData, EnterData, Undecoded, Fragment, Callback, CallbackEnd, Leave,
                Unprotect, Told, Find, RecvPlaces
  <2>3. \A l \in {"release"} \cup RecvPlaces : RecvGoal(l, after'[t]) /\ l \in PcPlaces
    BY DEF RecvGoal, RemovingPlaces, RecvPlaces, PcPlaces
  <2> QED
    BY <1>1, <2>1, <2>2, <2>3, PlacesRecv
<1> QED
  BY <1>2, <1>3, <1>4 DEF RecvStep

LEMMA PlacesRemove ==
    ASSUME TypeOK, Places, NEW t \in Threads, Remove(t) \/ Release(t)
    PROVE  Places'
<1>1. after' = after /\ ui' = ui /\ (linked' => linked)
  BY DEF Remove, Unlink, TakeOut, Notify, Rundown_l, NotifyEnd, EndTold, Drop, Release, TypeOK
<1>2. \/ /\ pc[t] \in {"unlink"} \cup RemovingPlaces /\ owned' = owned
         /\ \E l \in RemovingPlaces : Goto(t, l)
      \/ pc[t] = "drop" /\ Goto(t, after[t]) /\ owned' = owned
      \/ pc[t] = "release" /\ Goto(t, "idle") /\ owned' = (owned /\ t # Owner)
  BY DEF Remove, Unlink, Notify, Rundown_l, NotifyEnd, Unprotect, EndTold, Drop, Release,
         RemovingPlaces, refVars
<1>3. PICK l \in PcPlaces : Goto(t, l)
  BY <1>2 DEF RemovingPlaces, PcPlaces, TypeOK
<1>4. pc'[t] = l /\ \A u \in Threads : u # t => pc'[u] = pc[u]
  BY <1>3, GotoType
<1>5. \/ l \in RemovingPlaces /\ pc[t] \in {"unlink"} \cup RemovingPlaces /\ owned' = owned
      \/ l = after[t] /\ pc[t] = "drop" /\ owned' = owned
      \/ l = "idle" /\ pc[t] = "release" /\ owned' = (owned /\ t # Owner)
  BY <1>2, <1>4, GotoType DEF RemovingPlaces, PcPlaces, TypeOK
<1>6. CASE t \in Recv
  <2>1. RecvGoal(l, after[t])
    BY <1>5, <1>6 DEF Places, RecvPlaced, RecvGoal, RemovingPlaces
  <2>2. owned' = owned
    BY <1>5, <1>6, Distinct DEF TypeOK
  <2> QED
    BY <1>1, <1>3, <1>6, <2>1, <2>2, PlacesRecv
<1>7. CASE t = Owner
  <2>1. TimerPlaced' /\ pc'[Timer] = pc[Timer]
    BY <1>1, <1>4, <1>7, Distinct DEF Places, TimerPlaced
  <2>2. OwnerPlaced'
    BY <1>1, <1>4, <1>5, <1>7, <2>1 DEF Places, OwnerPlaced, RemovingPlaces
  <2> QED
    BY <1>1, <1>3, <1>7, <2>1, <2>2, PlacesOther
<1>8. CASE t = Timer
  <2>1. OwnerPlaced'
    BY <1>1, <1>4, <1>5, <1>8, Distinct DEF Places, OwnerPlaced, TypeOK, RemovingPlaces
  <2>2. TimerPlaced'
    BY <1>1, <1>4, <1>5, <1>8 DEF Places, TimerPlaced, RemovingPlaces
  <2> QED
    BY <1>1, <1>3, <1>8, <2>1, <2>2, PlacesOther
<1> QED
  BY <1>6, <1>7, <1>8, Distinct

LEMMA PlacesStep == TypeOK /\ Places /\ [Next]_vars => Places'
<1> SUFFICES ASSUME TypeOK, Places, [Next]_vars PROVE Places'
  OBVIOUS
<1>1. CASE ServerInit \/ ClientConnect \/ Add \/ SendFails \/ SendOk \/ ClientDisconnect \/ ClientDestroy
  <2>1. PICK l \in PcPlaces : Goto(Owner, l)
    BY <1>1 DEF ServerInit, ClientConnect, InitDone, Add, SendFails, SendOk, AfterSend,
                ClientDisconnect, ClientDestroy, PcPlaces
  <2>2. pc'[Owner] = l /\ \A u \in Threads : u # Owner => pc'[u] = pc[u]
    BY <2>1, Distinct, GotoType
  <2>3. after' \in {after, [after EXCEPT ![Owner] = "release"], [after EXCEPT ![Owner] = "idle"]}
    BY <1>1 DEF ServerInit, ClientConnect, Add, SendFails, SendOk, ClientDisconnect, ClientDestroy
  <2>4. \A u \in Threads : u # Owner => after'[u] = after[u]
    BY <2>3 DEF TypeOK
  <2>5. TimerPlaced'
    BY <2>2, <2>4, Distinct DEF Places, TimerPlaced
  <2>6. OwnerPlaced'
    <3>1. CASE ServerInit
      <4>1. /\ Server /\ pc[Owner] = "init" /\ after' = [after EXCEPT ![Owner] = "release"]
            /\ owned' = owned /\ ui' = ui /\ linked' = linked
            /\ \E next \in {"send", "unlink"} : Goto(Owner, next)
        BY <3>1 DEF ServerInit, InitDone, refVars
      <4>2. after'[Owner] = "release" /\ pc'[Owner] \in {"send", "unlink"}
        BY <4>1, Distinct DEF TypeOK, Goto
      <4> QED
        BY <4>1, <4>2 DEF Places, OwnerPlaced
    <3>2. CASE ClientConnect
      <4>1. /\ ~Server /\ pc[Owner] = "idle" /\ after' = [after EXCEPT ![Owner] = "idle"]
            /\ owned /\ owned' = owned /\ ui' = ui /\ ui = "ready"
            /\ \E next \in {"add", "idle"} : Goto(Owner, next)
        BY <3>2 DEF ClientConnect, InitDone, refVars
      <4>2. after'[Owner] = "idle" /\ pc'[Owner] \in {"add", "idle"}
        BY <4>1, Distinct DEF TypeOK, Goto
      <4> QED
        BY <4>1, <4>2 DEF Places, OwnerPlaced
    <3>3. CASE Add
      <4>1. /\ pc[Owner] = "add" /\ after' = after /\ owned' = owned /\ ui' = ui
            /\ Goto(Owner, IF Server THEN "init" ELSE "send")
        BY <3>3 DEF Add
      <4>2. pc'[Owner] = IF Server THEN "init" ELSE "send"
        BY <4>1, Distinct DEF TypeOK, Goto
      <4> QED
        BY <4>1, <4>2 DEF Places, OwnerPlaced
    <3>4. CASE SendFails \/ SendOk
      <4>1. /\ pc[Owner] = "send" /\ after' = after /\ owned' = owned
            /\ \/ Goto(Owner, "unlink") /\ ui' = ui
               \/ Goto(Owner, IF Server THEN "release" ELSE "idle")
        BY <3>4 DEF SendFails, SendOk, AfterSend, refVars
      <4>2. \/ pc'[Owner] = "unlink" /\ ui' = ui
            \/ pc'[Owner] = IF Server THEN "release" ELSE "idle"
        BY <4>1, Distinct DEF TypeOK, Goto
      <4> QED
        BY <4>1, <4>2 DEF Places, OwnerPlaced
    <3>5. CASE ClientDisconnect \/ ClientDestroy
      <4>1. /\ pc[Owner] = "idle" /\ after' = after /\ owned' = owned /\ ~Server
            /\ ui' = "waiting" /\ (owned \/ ui = "connected")
            /\ \E next \in {"unlink", "release"} : Goto(Owner, next)
        BY <3>5 DEF ClientDisconnect, ClientDestroy, refVars
      <4>2. pc'[Owner] \in {"unlink", "release"}
        BY <4>1, Distinct DEF TypeOK, Goto
      <4> QED
        BY <4>1, <4>2 DEF Places, OwnerPlaced
    <3> QED
      BY <1>1, <3>1, <3>2, <3>3, <3>4, <3>5
  <2> QED
    BY <2>1, <2>4, <2>5, <2>6, PlacesOther
<1>2. CASE OnTimer
  <2>1. /\ Goto(Timer, "unlink") /\ Server /\ linked /\ ~linked'
        /\ after' = [after EXCEPT ![Timer] = "release"] /\ UNCHANGED <<owned, ui>>
    BY <1>2 DEF OnTimer, Expired
  <2>2. /\ pc'[Timer] = "unlink" /\ \A u \in Threads : u # Timer => pc'[u] = pc[u]
        /\ after'[Timer] = "release" /\ \A u \in Threads : u # Timer => after'[u] = after[u]
    BY <2>1, Distinct DEF TypeOK, Goto
  <2>3. OwnerPlaced' /\ TimerPlaced'
    BY <2>1, <2>2, Distinct DEF Places, OwnerPlaced, TimerPlaced
  <2> QED
    BY <2>1, <2>2, <2>3, PlacesOther DEF PcPlaces
<1>3. CASE ClientTold
  BY <1>3, Distinct DEF ClientTold, refVars, Places, RecvPlaced, OwnerPlaced, TimerPlaced
<1>4. CASE Silence \/ UNCHANGED vars
  BY <1>4 DEF Silence, vars, refVars, Places, RecvPlaced, OwnerPlaced, TimerPlaced
<1>5. ASSUME NEW t \in Recv, Find(t) \/ RecvStep(t) \/ RecvError(t) PROVE Places'
  BY <1>5, PlacesRecvStep
<1>6. ASSUME NEW t \in Threads, Remove(t) \/ Release(t) PROVE Places'
  BY <1>6, PlacesRemove
<1> QED
  BY <1>1, <1>2, <1>3, <1>4, <1>5, <1>6 DEF Next, OwnerStep

-----------------------------------------------------------------------------
\* References.
LEMMA Finite ==
    ASSUME TypeOK
    PROVE  /\ IsFiniteSet(Holding) /\ Cardinality(Holding) \in Nat
           /\ IsFiniteSet(claim) /\ Cardinality(claim) \in Nat
<1>1. IsFiniteSet(Holding)
  BY RecvAssumption, FS_Subset DEF Holding
<1>2. IsFiniteSet(Recv \cup {Timer}) /\ IsFiniteSet((Recv \cup {Timer}) \cup {Owner})
  BY RecvAssumption, FS_AddElement
<1>3. claim \subseteq ((Recv \cup {Timer}) \cup {Owner})
  BY DEF TypeOK, Threads
<1>4. IsFiniteSet(claim)
  BY <1>2, <1>3, FS_Subset
<1> QED
  BY <1>1, <1>4, FS_CardinalityType

\* What a move of thread t does to the set of receives that hold a reference.
LEMMA HoldingMove ==
    ASSUME TypeOK, NEW t \in Threads, NEW l \in PcPlaces, Goto(t, l),
           \A u \in Threads : u # t => after'[u] = after[u]
    PROVE  /\ t \in Recv /\ Holds(t)' => Holding' = Holding \cup {t}
           /\ t \in Recv /\ ~Holds(t)' => Holding' = Holding \ {t}
           /\ t \notin Recv => Holding' = Holding
<1>1. pc'[t] = l /\ \A u \in Threads : u # t => pc'[u] = pc[u]
  BY GotoType
<1>2. \A u \in Recv : u # t => (Holds(u)' <=> Holds(u))
  BY <1>1, Distinct DEF Holds
<1> QED
  BY <1>2 DEF Holding

\* A move that changes nobody's references.
LEMMA RefsQuiet ==
    ASSUME TypeOK, ~twice, Claims, RefCount, NEW t \in Threads, NEW l \in PcPlaces, Goto(t, l),
           \A u \in Threads : u # t => after'[u] = after[u],
           t \in Recv => (Holds(t)' <=> Holds(t)),
           pc[t] \in RemovingPlaces <=> l \in RemovingPlaces, t # Timer,
           UNCHANGED <<refs, owned, claim, linked>>
    PROVE  Claims' /\ RefCount'
<1>1. pc'[t] = l /\ \A u \in Threads : u # t => pc'[u] = pc[u]
  BY GotoType
<1>2. Holding' = Holding
  BY HoldingMove DEF Holding
<1>3. Claims'
  BY <1>1, Distinct DEF Claims
<1> QED
  BY <1>2, <1>3 DEF RefCount

LEMMA RefsRecvStep ==
    ASSUME TypeOK, Places, Refs, NEW t \in Recv, RecvStep(t)
    PROVE  /\ UNCHANGED <<refs, freed, twice>>
           /\ ~twice' => Claims' /\ RefCount'
<1>0. t \in Threads /\ t # Timer
  BY Distinct
<1>1. UNCHANGED <<refs, freed, owned, claim, twice, linked>> /\ pc[t] \in RecvPlaces
  BY DEF RecvStep, OnBye, OnPing, OnData, Undecoded, Fragment, Callback, CallbackEnd, Leave,
         Told, Status, refVars, RecvPlaces
<1>2. \/ after' = [after EXCEPT ![t] = "release"] /\ \E l \in {"unlink", "release"} : Goto(t, l)
      \/ after' = after /\ \E l \in {"release"} \cup RecvPlaces : Goto(t, l)
  BY DEF RecvStep, OnBye, OnPing, OnData, EnterData, Undecoded, Fragment, Callback, CallbackEnd,
         Leave, Unprotect, Told, Status, RecvPlaces
<1>3. \A u \in Threads : u # t => after'[u] = after[u]
  BY <1>2 DEF TypeOK
<1>4. PICK l \in PcPlaces : Goto(t, l) /\ (l = "unlink" => after'[t] = "release")
                           /\ l \in {"unlink", "release"} \cup RecvPlaces
  BY <1>0, <1>2 DEF TypeOK, PcPlaces, RecvPlaces
<1>5. Holds(t) /\ Holds(t)'
  BY <1>0, <1>1, <1>4, GotoType DEF Holds, RemovingPlaces
<1>6. pc[t] \notin RemovingPlaces /\ l \notin RemovingPlaces
  BY <1>1, <1>4 DEF RecvPlaces, RemovingPlaces
<1> QED
  BY <1>0, <1>1, <1>3, <1>4, <1>5, <1>6, RefsQuiet DEF Refs

\* The steps of RemoveConnection between taking the endpoint out and dropping it.
LEMMA RefsRemoving ==
    ASSUME TypeOK, Places, Refs, NEW t \in Threads,
           Notify(t) \/ Rundown_l(t) \/ NotifyEnd(t) \/ EndTold(t)
    PROVE  /\ UNCHANGED <<refs, freed, twice>>
           /\ ~twice' => Claims' /\ RefCount'
<1>1. UNCHANGED <<refs, freed, owned, claim, twice, linked, after>> /\ pc[t] \in RemovingPlaces
  BY DEF Notify, Rundown_l, NotifyEnd, EndTold, refVars, RemovingPlaces
<1>2. \E l \in RemovingPlaces : Goto(t, l)
  BY DEF Notify, Rundown_l, NotifyEnd, EndTold, Unprotect, RemovingPlaces
<1>3. PICK l \in PcPlaces : Goto(t, l) /\ l \in RemovingPlaces
  BY <1>2 DEF RemovingPlaces, PcPlaces
<1>4. Holds(t)' <=> Holds(t)
  BY <1>1, <1>3, GotoType DEF Holds, RemovingPlaces, RecvPlaces
<1>5. ~twice => t # Timer
  BY <1>1 DEF Refs, Claims, RemovingPlaces
<1> QED
  BY <1>1, <1>3, <1>4, <1>5, RefsQuiet DEF Refs

LEMMA RefsUnlink ==
    ASSUME TypeOK, Places, Refs, NEW t \in Threads, Unlink(t)
    PROVE  /\ UNCHANGED <<refs, freed>>
           /\ ~twice' => Claims' /\ RefCount'
<1>1. /\ UNCHANGED <<refs, freed, owned, after>> /\ pc[t] = "unlink" /\ Goto(t, "notify")
      /\ linked' = FALSE /\ claim' = (IF linked THEN claim \cup {t} ELSE claim)
      /\ twice' = (twice \/ ~linked)
  BY DEF Unlink, TakeOut
<1> SUFFICES ASSUME ~twice, linked PROVE Claims' /\ RefCount'
  BY <1>1 DEF TypeOK
<1>2. t # Timer /\ t \notin claim /\ pc[Timer] = "idle"
  BY <1>1 DEF Refs, Claims, RemovingPlaces
<1>3. pc'[t] = "notify" /\ \A u \in Threads : u # t => pc'[u] = pc[u]
  BY <1>1, GotoType DEF PcPlaces
<1>4. Holding' = Holding
  <2>1. t \in Recv => Holds(t) /\ Holds(t)'
    BY <1>1, <1>3 DEF Places, RecvPlaced, Holds, RemovingPlaces
  <2>2. "notify" \in PcPlaces
    BY DEF PcPlaces
  <2> QED
    BY <1>1, <2>1, <2>2, HoldingMove DEF Holding
<1>5. Cardinality(claim') = Cardinality(claim) + 1
  BY <1>1, <1>2, Finite, FS_AddElement
<1>6. Claims'
  BY <1>1, <1>2, <1>3, Distinct DEF Refs, Claims, RemovingPlaces
<1>7. RefCount'
  BY <1>1, <1>4, <1>5, Finite DEF Refs, RefCount, One, TypeOK
<1> QED
  BY <1>6, <1>7

LEMMA RefsDrop ==
    ASSUME TypeOK, Places, Refs, ~freed, NEW t \in Threads, Drop(t)
    PROVE  /\ refs' \in Nat /\ (freed' <=> refs' = 0)
           /\ ~twice' => Claims' /\ RefCount'
<1>1. /\ UNCHANGED <<owned, twice, linked, after>> /\ pc[t] = "drop" /\ Goto(t, after[t])
      /\ refs' = refs - 1 /\ freed' = (refs = 1) /\ claim' = claim \ {t}
  BY DEF Drop, ReleaseRef
<1>2. refs' \in Nat /\ (freed' <=> refs' = 0)
  <2>1. refs \in Nat /\ refs # 0
    BY DEF Refs
  <2>2. refs' \in Nat /\ (refs = 1 <=> refs' = 0)
    BY <1>1, <2>1
  <2> QED
    BY <1>1, <2>2
<1> SUFFICES ASSUME ~twice PROVE Claims' /\ RefCount'
  BY <1>1, <1>2
<1>3. t # Timer /\ t \in claim
  BY <1>1 DEF Refs, Claims, RemovingPlaces
<1>4. after[t] \in {"idle", "dead", "release"} /\ after[t] \in PcPlaces
  BY DEF TypeOK, PcPlaces
<1>5. pc'[t] = after[t] /\ \A u \in Threads : u # t => pc'[u] = pc[u]
  BY <1>1, <1>4, GotoType
<1>6. Holding' = Holding
  <2>1. t \in Recv => (Holds(t) <=> Holds(t)')
    BY <1>1, <1>4, <1>5 DEF Places, RecvPlaced, Holds, RemovingPlaces, RecvPlaces
  <2> QED
    BY <1>1, <1>4, <2>1, HoldingMove DEF Holding
<1>7. Cardinality(claim') = Cardinality(claim) - 1
  BY <1>1, <1>3, Finite, FS_RemoveElement
<1>8. Claims'
  BY <1>1, <1>3, <1>4, <1>5, Distinct DEF Refs, Claims, RemovingPlaces
<1>9. RefCount'
  BY <1>1, <1>6, <1>7, Finite DEF Refs, RefCount, One, TypeOK
<1> QED
  BY <1>8, <1>9

LEMMA RefsRelease ==
    ASSUME TypeOK, Places, Refs, ~freed, NEW t \in Threads, Release(t)
    PROVE  /\ refs' \in Nat /\ (freed' <=> refs' = 0)
           /\ ~twice' => Claims' /\ RefCount'
<1>1. /\ UNCHANGED <<claim, twice, linked, after>> /\ pc[t] = "release" /\ Goto(t, "idle")
      /\ refs' = refs - 1 /\ freed' = (refs = 1) /\ owned' = (owned /\ t # Owner)
  BY DEF Release, ReleaseRef
<1>2. refs' \in Nat /\ (freed' <=> refs' = 0)
  <2>1. refs \in Nat /\ refs # 0
    BY DEF Refs
  <2>2. refs' \in Nat /\ (refs = 1 <=> refs' = 0)
    BY <1>1, <2>1
  <2> QED
    BY <1>1, <2>2
<1> SUFFICES ASSUME ~twice PROVE Claims' /\ RefCount'
  BY <1>1, <1>2
<1>3. t # Timer
  BY <1>1 DEF Refs, Claims
<1>4. "idle" \in PcPlaces
  BY DEF PcPlaces
<1>5. pc'[t] = "idle" /\ \A u \in Threads : u # t => pc'[u] = pc[u]
  BY <1>1, <1>4, GotoType
<1>6. Claims'
  BY <1>1, <1>3, <1>5, Distinct DEF Refs, Claims, RemovingPlaces
<1>7. CASE t = Owner
  <2>1. Holding' = Holding
    BY <1>1, <1>4, <1>7, Distinct, HoldingMove
  <2>2. owned /\ ~owned'
    BY <1>1, <1>7 DEF Places, OwnerPlaced
  <2> QED
    BY <1>1, <1>6, <2>1, <2>2, Finite DEF Refs, RefCount, One, TypeOK
<1>8. CASE t \in Recv
  <2>1. Holds(t) /\ ~Holds(t)'
    BY <1>1, <1>5 DEF Holds, RecvPlaces, RemovingPlaces
  <2>2. Holding' = Holding \ {t} /\ t \in Holding
    BY <1>1, <1>4, <1>8, <2>1, HoldingMove DEF Holding
  <2>3. Cardinality(Holding') = Cardinality(Holding) - 1
    BY <2>2, Finite, FS_RemoveElement
  <2>4. owned' = owned
    BY <1>1, <1>8, Distinct DEF TypeOK
  <2> QED
    BY <1>1, <1>6, <2>3, <2>4, Finite DEF Refs, RefCount, One, TypeOK
<1> QED
  BY <1>3, <1>7, <1>8, Distinct

LEMMA RefsFind ==
    ASSUME TypeOK, Places, Refs, NEW t \in Recv, Find(t)
    PROVE  /\ refs' = refs + 1 /\ UNCHANGED <<freed, twice>>
           /\ ~twice' => Claims' /\ RefCount'
<1>1. /\ UNCHANGED <<freed, owned, claim, twice, linked, after>> /\ pc[t] = "idle" /\ Goto(t, "found")
      /\ refs' = refs + 1
  BY DEF Find, FindRef
<1> SUFFICES ASSUME ~twice PROVE Claims' /\ RefCount'
  BY <1>1
<1>2. "found" \in PcPlaces /\ t \in Threads
  BY Distinct DEF PcPlaces
<1>3. pc'[t] = "found" /\ \A u \in Threads : u # t => pc'[u] = pc[u]
  BY <1>1, <1>2, GotoType
<1>4. ~Holds(t) /\ Holds(t)'
  BY <1>1, <1>3 DEF Holds, RecvPlaces, RemovingPlaces
<1>5. Holding' = Holding \cup {t} /\ t \notin Holding
  BY <1>1, <1>2, <1>4, HoldingMove DEF Holding
<1>6. Cardinality(Holding') = Cardinality(Holding) + 1
  BY <1>5, Finite, FS_AddElement
<1>7. Claims'
  BY <1>1, <1>2, <1>3, Distinct DEF Refs, Claims, RemovingPlaces
<1> QED
  BY <1>1, <1>6, <1>7, Finite DEF Refs, RefCount, One, TypeOK

LEMMA RefsRecvError ==
    ASSUME TypeOK, Places, Refs, NEW t \in Recv, RecvError(t)
    PROVE  /\ UNCHANGED <<refs, freed, twice>>
           /\ ~twice' => Claims' /\ RefCount'
<1>1. /\ UNCHANGED <<refs, freed, owned, twice>> /\ pc[t] = "idle"
      /\ after' = [after EXCEPT ![t] = "dead"]
      /\ \/ /\ linked /\ ~linked' /\ claim' = claim \cup {t} /\ Goto(t, "notify")
         \/ /\ linked' = linked /\ claim' = claim /\ Goto(t, "dead")
  BY DEF RecvError, TypeOK
<1> SUFFICES ASSUME ~twice PROVE Claims' /\ RefCount'
  BY <1>1
<1>2. t \in Threads /\ t # Timer /\ t \notin claim
  BY <1>1, Distinct DEF Refs, Claims, RemovingPlaces
<1>3. after'[t] = "dead" /\ \A u \in Threads : u # t => after'[u] = after[u]
  BY <1>1, <1>2 DEF TypeOK
<1>4. CASE linked /\ ~linked' /\ claim' = claim \cup {t} /\ Goto(t, "notify")
  <2>1. "notify" \in PcPlaces
    BY DEF PcPlaces
  <2>2. pc'[t] = "notify" /\ \A u \in Threads : u # t => pc'[u] = pc[u]
    BY <1>2, <1>4, <2>1, GotoType
  <2>3. ~Holds(t) /\ ~Holds(t)'
    BY <1>1, <1>3, <2>2 DEF Holds, RecvPlaces, RemovingPlaces
  <2>4. Holding' = Holding
    BY <1>2, <1>3, <1>4, <2>1, <2>3, HoldingMove DEF Holding
  <2>5. Cardinality(claim') = Cardinality(claim) + 1
    BY <1>2, <1>4, Finite, FS_AddElement
  <2>6. Claims'
    BY <1>2, <1>4, <2>2, Distinct DEF Refs, Claims, RemovingPlaces
  <2> QED
    BY <1>1, <1>4, <2>4, <2>5, <2>6, Finite DEF Refs, RefCount, One, TypeOK
<1>5. CASE linked' = linked /\ claim' = claim /\ Goto(t, "dead")
  <2>1. "dead" \in PcPlaces /\ "dead" \notin RemovingPlaces /\ pc[t] \notin RemovingPlaces
    BY <1>1 DEF PcPlaces, RemovingPlaces
  <2>2. ~Holds(t) /\ ~Holds(t)'
    BY <1>1, <1>2, <1>3, <1>5, <2>1, GotoType DEF Holds, RecvPlaces, RemovingPlaces
  <2> QED
    BY <1>1, <1>2, <1>3, <1>5, <2>1, <2>2, RefsQuiet DEF Refs
<1> QED
  BY <1>1, <1>4, <1>5

LEMMA RefsTimer ==
    ASSUME TypeOK, Places, Refs, OnTimer
    PROVE  /\ UNCHANGED <<refs, freed, twice>>
           /\ ~twice' => Claims' /\ RefCount'
<1>1. /\ UNCHANGED <<refs, freed, owned, twice>> /\ pc[Timer] = "idle"
      /\ after' = [after EXCEPT ![Timer] = "release"] /\ Goto(Timer, "unlink")
      /\ linked /\ ~linked' /\ claim' = claim \cup {Timer}
  BY DEF OnTimer, Expired
<1> SUFFICES ASSUME ~twice PROVE Claims' /\ RefCount'
  BY <1>1
<1>2. Timer \in Threads /\ Timer \notin Recv /\ Timer \notin claim
  BY <1>1, Distinct DEF Refs, Claims, RemovingPlaces
<1>3. \A u \in Threads : u # Timer => after'[u] = after[u]
  BY <1>1 DEF TypeOK
<1>4. "unlink" \in PcPlaces
  BY DEF PcPlaces
<1>5. pc'[Timer] = "unlink" /\ \A u \in Threads : u # Timer => pc'[u] = pc[u]
  BY <1>1, <1>2, <1>4, GotoType
<1>6. Holding' = Holding
  BY <1>1, <1>2, <1>3, <1>4, HoldingMove
<1>7. Cardinality(claim') = Cardinality(claim) + 1
  BY <1>1, <1>2, Finite, FS_AddElement
<1>8. Claims'
  BY <1>1, <1>2, <1>5, Distinct DEF Refs, Claims, RemovingPlaces
<1> QED
  BY <1>1, <1>6, <1>7, <1>8, Finite DEF Refs, RefCount, One, TypeOK

LEMMA RefsOwner ==
    ASSUME TypeOK, Places, Refs,
           ServerInit \/ ClientConnect \/ SendFails \/ SendOk \/ ClientDisconnect \/ ClientDestroy
    PROVE  /\ UNCHANGED <<refs, freed, twice>>
           /\ ~twice' => Claims' /\ RefCount'
<1>1. UNCHANGED <<refs, freed, owned, claim, twice, linked>> /\ pc[Owner] \in {"init", "idle", "send"}
  BY DEF ServerInit, ClientConnect, SendFails, SendOk, ClientDisconnect, ClientDestroy, refVars
<1>2. \E l \in {"send", "unlink", "add", "release", "idle"} : Goto(Owner, l)
  BY DEF ServerInit, ClientConnect, InitDone, SendFails, SendOk, AfterSend, ClientDisconnect,
         ClientDestroy
<1>3. after' \in {after, [after EXCEPT ![Owner] = "release"], [after EXCEPT ![Owner] = "idle"]}
  BY DEF ServerInit, ClientConnect, SendFails, SendOk, ClientDisconnect, ClientDestroy
<1>4. \A u \in Threads : u # Owner => after'[u] = after[u]
  BY <1>3 DEF TypeOK
<1>5. pc[Owner] \notin RemovingPlaces
  BY <1>1 DEF RemovingPlaces
<1>6. PICK l \in PcPlaces : Goto(Owner, l) /\ l \notin RemovingPlaces
  BY <1>2 DEF PcPlaces, RemovingPlaces
<1> QED
  BY <1>1, <1>4, <1>5, <1>6, Distinct, RefsQuiet DEF Refs

\* Adding the endpoint again needs that it is not in the list: on the server it
\* was just created, on the client OneRemover tells.
LEMMA AddUnlinked ==
    ASSUME TypeOK, Places, Refs, pc[Owner] = "add", ~twice
    PROVE  ~linked
BY ServerAssumption DEF Places, OwnerPlaced, Refs, OneRemover

LEMMA RefsAdd ==
    ASSUME TypeOK, Places, Refs, Add
    PROVE  /\ refs' = refs + 1 /\ UNCHANGED <<freed, twice>>
           /\ ~twice' => Claims' /\ RefCount'
<1>1. /\ UNCHANGED <<freed, owned, claim, twice, after>> /\ pc[Owner] = "add"
      /\ refs' = refs + 1 /\ linked' = TRUE
      /\ \E l \in {"init", "send"} : Goto(Owner, l)
  BY DEF Add, AddConnection
<1> SUFFICES ASSUME ~twice PROVE Claims' /\ RefCount'
  BY <1>1
<1>2. ~linked
  BY <1>1, AddUnlinked
<1>3. PICK l \in PcPlaces : Goto(Owner, l) /\ l \in {"init", "send"}
  BY <1>1 DEF PcPlaces
<1>4. pc'[Owner] = l /\ \A u \in Threads : u # Owner => pc'[u] = pc[u]
  BY <1>3, Distinct, GotoType
<1>5. Holding' = Holding
  BY <1>1, <1>3, Distinct, HoldingMove
<1>6. pc[Timer] = "idle"
  BY <1>1, ServerAssumption DEF Places, OwnerPlaced, TimerPlaced
<1>7. Claims'
  BY <1>1, <1>3, <1>4, <1>6, Distinct DEF Refs, Claims, RemovingPlaces
<1> QED
  BY <1>1, <1>2, <1>5, <1>7, Finite DEF Refs, RefCount, One, TypeOK

-----------------------------------------------------------------------------
\* At most one thread ends a session of the client's endpoint.
Ends(l) == l \in {"notify", "rundown"}

LEMMA OneRemoverQuiet ==
    ASSUME TypeOK, OneRemover, NEW t \in Threads, NEW l \in PcPlaces, Goto(t, l),
           Ends(l) => Ends(pc[t]), l # "add", linked' = linked,
           phase' = phase \/ phase = "closing"
    PROVE  OneRemover'
<1>1. pc'[t] = l /\ \A u \in Threads : u # t => pc'[u] = pc[u]
  BY GotoType
<1>2. \A u \in Threads : Ending(u)' => Ending(u)
  BY <1>1 DEF Ending, Ends
<1>3. pc'[Owner] = "add" => pc[Owner] = "add"
  BY <1>1, Distinct
<1>4. pc[Owner] # "add" => pc'[Owner] # "add"
  BY <1>3
<1> QED
  BY <1>2, <1>3, <1>4 DEF OneRemover

LEMMA OneRemoverRecv ==
    ASSUME TypeOK, OneRemover, NEW t \in Recv, RecvStep(t) \/ Find(t)
    PROVE  OneRemover'
<1>1. linked' = linked /\ t \in Threads
  BY Distinct DEF RecvStep, OnBye, OnPing, OnData, Undecoded, Fragment, Callback, CallbackEnd,
                  Leave, Told, Status, Find
<1>2. phase' = phase \/ phase = "closing"
  BY DEF RecvStep, OnBye, OnPing, OnData, EnterData, Protect, Undecoded, Fragment, Callback,
         CallbackEnd, Leave, Unprotect, Told, Status, Find, rundown
<1>3. \E l \in {"unlink", "release"} \cup RecvPlaces : Goto(t, l)
  BY DEF RecvStep, OnBye, OnPing, OnData, EnterData, Undecoded, Fragment, Callback, CallbackEnd,
         Leave, Unprotect, Told, Status, Find, RecvPlaces
<1>4. PICK l \in PcPlaces : Goto(t, l) /\ ~Ends(l) /\ l # "add"
  BY <1>3 DEF RecvPlaces, PcPlaces, Ends
<1> QED
  BY <1>1, <1>2, <1>4, OneRemoverQuiet

LEMMA OneRemoverRemove ==
    ASSUME TypeOK, Places, OneRemover, ~Server, ~twice, NEW t \in Threads, Remove(t) \/ Release(t),
           ~twice'
    PROVE  OneRemover'
<1>1. CASE Unlink(t)
  <2>1. linked /\ ~linked' /\ phase' = phase /\ Goto(t, "notify") /\ pc[t] = "unlink"
    BY <1>1 DEF Unlink, TakeOut, rundown
  <2>2. pc'[t] = "notify" /\ \A u \in Threads : u # t => pc'[u] = pc[u]
    BY <2>1, GotoType DEF PcPlaces
  <2>3. phase = "live" /\ pc[Owner] # "add" /\ \A u \in Threads : ~Ending(u)
    BY <2>1 DEF OneRemover
  <2>4. \A u \in Threads : Ending(u)' => u = t
    BY <2>2, <2>3 DEF Ending
  <2>5. pc'[Owner] # "add"
    BY <2>2, <2>3, Distinct
  <2> QED
    BY <2>1, <2>3, <2>4, <2>5 DEF OneRemover
<1>2. CASE Rundown_l(t)
  <2>1. linked' = linked /\ phase' = "closing" /\ Goto(t, "unprotect") /\ pc[t] = "rundown"
    BY <1>2 DEF Rundown_l
  <2>2. pc'[t] = "unprotect" /\ \A u \in Threads : u # t => pc'[u] = pc[u]
    BY <2>1, GotoType DEF PcPlaces
  <2>3. ~linked /\ pc[Owner] # "add" /\ \A u \in Threads : u # t => ~Ending(u)
    BY <2>1 DEF OneRemover, Ending
  <2>4. \A u \in Threads : ~Ending(u)'
    BY <2>2, <2>3 DEF Ending
  <2>5. pc'[Owner] # "add"
    BY <2>2, <2>3, Distinct
  <2> QED
    BY <2>1, <2>3, <2>4, <2>5 DEF OneRemover
<1>3. CASE Notify(t)
  <2>1. linked' = linked /\ phase' = phase /\ pc[t] = "notify"
        /\ \E l \in {"rundown", "drop"} : Goto(t, l)
    BY <1>3 DEF Notify, Protect, rundown
  <2> QED
    BY <2>1, OneRemoverQuiet DEF PcPlaces, Ends
<1>4. CASE NotifyEnd(t)
  <2>1. linked' = linked /\ (phase' = phase \/ phase = "closing")
        /\ \E l \in {"endtold", "drop"} : Goto(t, l)
    BY <1>4 DEF NotifyEnd, Unprotect
  <2> QED
    BY <2>1, OneRemoverQuiet DEF PcPlaces, Ends
<1>5. CASE EndTold(t) \/ Drop(t) \/ Release(t)
  <2>1. linked' = linked /\ phase' = phase
    BY <1>5 DEF EndTold, Drop, Release, rundown
  <2>2. \E l \in {"drop", "idle", after[t]} : Goto(t, l)
    BY <1>5 DEF EndTold, Drop, Release
  <2>3. after[t] \in {"idle", "dead", "release"}
    BY DEF TypeOK
  <2>4. PICK l \in PcPlaces : Goto(t, l) /\ ~Ends(l) /\ l # "add"
    BY <2>2, <2>3 DEF PcPlaces, Ends
  <2> QED
    BY <2>1, <2>4, OneRemoverQuiet
<1> QED
  BY <1>1, <1>2, <1>3, <1>4, <1>5 DEF Remove

LEMMA OneRemoverOther ==
    ASSUME TypeOK, Places, OneRemover, ~Server,
           \/ ClientConnect \/ Add \/ SendFails \/ SendOk \/ ClientDisconnect \/ ClientDestroy
           \/ \E t \in Recv : RecvError(t)
    PROVE  OneRemover'
<1>1. CASE ClientConnect
  <2>1. phase = "off" /\ phase' = "live" /\ linked' = linked
        /\ \E next \in {"add", "idle"} : Goto(Owner, next)
    BY <1>1 DEF ClientConnect, InitDone
  <2>2. ~linked /\ \A u \in Threads : ~Ending(u)
    BY <2>1 DEF OneRemover
  <2>3. pc'[Owner] \in {"add", "idle"} /\ \A u \in Threads : u # Owner => pc'[u] = pc[u]
    BY <2>1, Distinct, GotoType DEF PcPlaces
  <2>4. \A u \in Threads : ~Ending(u)'
    BY <2>2, <2>3 DEF Ending
  <2> QED
    BY <2>1, <2>2, <2>4 DEF OneRemover
<1>2. CASE Add
  <2>1. pc[Owner] = "add" /\ phase' = phase /\ Goto(Owner, "send")
    BY <1>2 DEF Add, rundown
  <2>2. phase = "live" /\ \A u \in Threads : ~Ending(u)
    BY <2>1 DEF OneRemover
  <2>3. pc'[Owner] = "send" /\ \A u \in Threads : u # Owner => pc'[u] = pc[u]
    BY <2>1, Distinct, GotoType DEF PcPlaces
  <2>4. \A u \in Threads : ~Ending(u)'
    BY <2>2, <2>3 DEF Ending
  <2> QED
    BY <2>1, <2>2, <2>3, <2>4 DEF OneRemover
<1>3. CASE SendFails \/ SendOk \/ ClientDisconnect \/ ClientDestroy
  <2>1. phase' = phase /\ linked' = linked /\ \E l \in {"unlink", "release", "idle"} : Goto(Owner, l)
    BY <1>3 DEF SendFails, SendOk, AfterSend, ClientDisconnect, ClientDestroy, rundown
  <2> QED
    BY <2>1, Distinct, OneRemoverQuiet DEF PcPlaces, Ends
<1>4. ASSUME NEW t \in Recv, RecvError(t) PROVE OneRemover'
  <2>0. t \in Threads /\ t # Owner
    BY Distinct
  <2>1. /\ phase' = phase
        /\ \/ linked /\ ~linked' /\ Goto(t, "notify")
           \/ linked' = linked /\ Goto(t, "dead")
    BY <1>4 DEF RecvError, rundown, TypeOK
  <2>2. CASE linked' = linked /\ Goto(t, "dead")
    BY <2>0, <2>1, <2>2, OneRemoverQuiet DEF PcPlaces, Ends
  <2>3. CASE linked /\ ~linked' /\ Goto(t, "notify")
    <3>1. pc'[t] = "notify" /\ \A u \in Threads : u # t => pc'[u] = pc[u]
      BY <2>0, <2>3, GotoType DEF PcPlaces
    <3>2. phase = "live" /\ pc[Owner] # "add" /\ \A u \in Threads : ~Ending(u)
      BY <2>3 DEF OneRemover
    <3>3. \A u \in Threads : Ending(u)' => u = t
      BY <3>1, <3>2 DEF Ending
    <3>4. pc'[Owner] # "add"
      BY <3>1, <3>2, <2>0, Distinct
    <3> QED
      BY <2>1, <2>3, <3>2, <3>3, <3>4 DEF OneRemover
  <2> QED
    BY <2>1, <2>2, <2>3
<1> QED
  BY <1>1, <1>2, <1>3, <1>4

-----------------------------------------------------------------------------
LEMMA RefsStep == TypeOK /\ Places /\ Refs /\ [Next]_vars => Refs'
<1> SUFFICES ASSUME TypeOK, Places, Refs, [Next]_vars PROVE Refs'
  OBVIOUS
<1>1. CASE ServerInit
  <2>1. UNCHANGED <<refs, freed, twice>> /\ (~twice' => Claims' /\ RefCount')
    BY <1>1, RefsOwner
  <2>2. Server
    BY <1>1 DEF ServerInit
  <2> QED
    BY <2>1, <2>2 DEF Refs
<1>2. CASE ClientConnect \/ SendFails \/ SendOk \/ ClientDisconnect \/ ClientDestroy
  <2>1. UNCHANGED <<refs, freed, twice>> /\ (~twice' => Claims' /\ RefCount')
    BY <1>2, RefsOwner
  <2>2. ~twice /\ ~Server => OneRemover'
    BY <1>2, OneRemoverOther DEF Refs
  <2> QED
    BY <2>1, <2>2 DEF Refs
<1>3. ASSUME Add, ~freed PROVE Refs'
  <2>1. refs' = refs + 1 /\ UNCHANGED <<freed, twice>> /\ (~twice' => Claims' /\ RefCount')
    BY <1>3, RefsAdd
  <2>2. ~twice /\ ~Server => OneRemover'
    BY <1>3, OneRemoverOther DEF Refs
  <2>3. refs' \in Nat /\ refs' # 0
    BY <2>1 DEF Refs
  <2> QED
    BY <1>3, <2>1, <2>2, <2>3 DEF Refs
<1>4. CASE OnTimer
  <2>1. UNCHANGED <<refs, freed, twice>> /\ (~twice' => Claims' /\ RefCount') /\ Server
    BY <1>4, RefsTimer DEF OnTimer
  <2> QED
    BY <2>1 DEF Refs
<1>5. CASE ClientTold \/ Silence \/ UNCHANGED vars
  <2>1. UNCHANGED <<refs, freed, owned, claim, twice, linked, phase, pc, after>>
    BY <1>5 DEF ClientTold, Silence, vars, rundown, refVars
  <2>2. Holding' = Holding
    BY <2>1 DEF Holding, Holds
  <2> QED
    BY <2>1, <2>2 DEF Refs, Claims, RefCount, OneRemover, Ending
<1>6. ASSUME NEW t \in Recv, RecvStep(t) PROVE Refs'
  <2>1. UNCHANGED <<refs, freed, twice>> /\ (~twice' => Claims' /\ RefCount')
    BY <1>6, RefsRecvStep
  <2>2. ~twice /\ ~Server => OneRemover'
    BY <1>6, OneRemoverRecv DEF Refs
  <2> QED
    BY <2>1, <2>2 DEF Refs
<1>7. ASSUME NEW t \in Recv, Find(t), ~freed PROVE Refs'
  <2>1. refs' = refs + 1 /\ UNCHANGED <<freed, twice>> /\ (~twice' => Claims' /\ RefCount')
    BY <1>7, RefsFind
  <2>2. ~twice /\ ~Server => OneRemover'
    BY <1>7, OneRemoverRecv DEF Refs
  <2>3. refs' \in Nat /\ refs' # 0
    BY <2>1 DEF Refs
  <2> QED
    BY <1>7, <2>1, <2>2, <2>3 DEF Refs
<1>8. ASSUME NEW t \in Recv, RecvError(t) PROVE Refs'
  <2>1. UNCHANGED <<refs, freed, twice>> /\ (~twice' => Claims' /\ RefCount')
    BY <1>8, RefsRecvError
  <2>2. ~twice /\ ~Server => OneRemover'
    BY <1>8, OneRemoverOther DEF Refs
  <2> QED
    BY <2>1, <2>2 DEF Refs
<1>9. ASSUME NEW t \in Threads, Remove(t) \/ Release(t), ~freed PROVE Refs'
  <2>1. twice => twice'
    BY <1>9 DEF Remove, Unlink, TakeOut, Notify, Rundown_l, NotifyEnd, EndTold, Drop, Release, refVars
  <2>2. ~twice' /\ ~Server => OneRemover'
    BY <1>9, <2>1, OneRemoverRemove DEF Refs
  <2>3. refs' \in Nat /\ (freed' <=> refs' = 0) /\ (~twice' => Claims' /\ RefCount')
    <3>1. CASE Unlink(t)
      BY <3>1, RefsUnlink DEF Refs
    <3>2. CASE Notify(t) \/ Rundown_l(t) \/ NotifyEnd(t) \/ EndTold(t)
      BY <3>2, RefsRemoving DEF Refs
    <3>3. CASE Drop(t)
      BY <1>9, <3>3, RefsDrop
    <3>4. CASE Release(t)
      BY <1>9, <3>4, RefsRelease
    <3> QED
      BY <1>9, <3>1, <3>2, <3>3, <3>4 DEF Remove
  <2> QED
    BY <2>2, <2>3 DEF Refs
<1> QED
  BY <1>1, <1>2, <1>3, <1>4, <1>5, <1>6, <1>7, <1>8, <1>9 DEF Next, OwnerStep

LEMMA InitPlaces == Init => Places
<1> SUFFICES ASSUME Init PROVE Places
  OBVIOUS
<1>1. /\ \A t \in Recv : pc[t] = "idle" /\ after[t] = "idle"
      /\ pc[Timer] = "idle" /\ after[Timer] = "idle" /\ after[Owner] = "idle"
      /\ pc[Owner] = IF Server THEN "add" ELSE "idle"
      /\ owned /\ ui = "ready" /\ ~linked
  BY Distinct DEF Init
<1> QED
  BY <1>1 DEF Places, RecvPlaced, OwnerPlaced, TimerPlaced, RemovingPlaces

LEMMA InitRefs == Init => Refs
<1> SUFFICES ASSUME Init PROVE Refs
  OBVIOUS
<1>1. /\ \A t \in Threads : pc[t] \in {"idle", "add"} /\ after[t] = "idle"
      /\ pc[Timer] = "idle" /\ ~Server => pc[Owner] = "idle"
      /\ owned = TRUE /\ linked = FALSE /\ claim = {} /\ refs = 1 /\ freed = FALSE
  BY Distinct DEF Init
<1>2. pc[Timer] = "idle" /\ (~Server => pc[Owner] # "add")
  BY Distinct DEF Init
<1>3. Holding = {}
  BY Distinct, <1>1 DEF Holding, Holds, RecvPlaces, RemovingPlaces, Init
<1>4. Cardinality(Holding) = 0 /\ Cardinality(claim) = 0
  BY <1>1, <1>3, FS_EmptySet
<1>5. Claims
  BY <1>1, <1>2 DEF Claims, RemovingPlaces
<1>6. RefCount
  BY <1>1, <1>4 DEF RefCount, One
<1>7. ~Server => OneRemover
  BY <1>1, <1>2 DEF OneRemover, Ending
<1>8. refs \in Nat /\ (freed <=> refs = 0)
  BY <1>1
<1> QED
  BY <1>5, <1>6, <1>7, <1>8 DEF Refs

LEMMA Invariant == Spec => []IInv
<1>1. Init => IInv
  BY InitType, InitSession, InitPlaces, InitRefs DEF IInv
<1>2. IInv /\ [Next]_vars => IInv'
  BY TypeStep, SessionStep, PlacesStep, RefsStep DEF IInv
<1> QED
  BY <1>1, <1>2, PTL DEF Spec

\* For any number of receives: unless the endpoint was removed twice, it is never
\* linked while it is in the list (AddConnection after notify_disconnect), and it is
\* deleted only when nobody can reach it, neither the list, nor its owner, nor
\* a thread that works on it.
THEOREM NoUseAfterFree == Spec => []ListIsSane
<1>1. IInv => FreedWhenUnused
  <2> SUFFICES ASSUME TypeOK, Places, Refs, freed, ~twice PROVE ~InReach
    BY DEF IInv, FreedWhenUnused
  <2>1. One(owned) \in {0, 1} /\ One(linked) \in {0, 1} /\ refs = 0
    BY DEF One, Refs
  <2>2. One(owned) = 0 /\ One(linked) = 0 /\ Cardinality(claim) = 0 /\ Cardinality(Holding) = 0
    BY <2>1, Finite DEF Refs, RefCount
  <2>3. ~owned /\ ~linked
    BY <2>2 DEF One
  <2>4. claim = {} /\ Holding = {}
    BY <2>2, Finite, FS_EmptySet
  <2>5. \A t \in Recv : pc[t] \in {"idle", "dead"}
    BY <2>4, Distinct DEF Places, RecvPlaced, Holding, Holds, Refs, Claims
  <2>6. pc[Owner] = "idle" /\ pc[Timer] = "idle"
    BY <2>3, <2>4, Distinct DEF Places, OwnerPlaced, Refs, Claims
  <2> QED
    BY <2>3, <2>5, <2>6, Distinct DEF InReach
<1>2. IInv => NotLinkedTwice
  BY AddUnlinked DEF IInv, NotLinkedTwice
<1> QED
  BY <1>1, <1>2, Invariant, PTL DEF ListIsSane
-----------------------------------------------------------------------------
(***************************************************************************)
(* The rundown lock itself.  Above it is used as RundownSpec describes it; *)
(* here module Rundown, the word and its five instructions, is shown to    *)
(* implement RundownSpec, for every finite set of users and every word     *)
(* width that can count them.                                              *)
(*                                                                         *)
(* The inductive invariant is LockInv: the type, the count, "held means    *)
(* current" and "one callback each".  Each of the last two needs the       *)
(* count, because only the count tells that a word at v_complete has no    *)
(* holder and that a word one above it has exactly one.                    *)
(***************************************************************************)

\* Rundown counts with the same operator as this module.
LEMMA SameCount == \A S : Lock!Cardinality(S) = Cardinality(S)
BY DEF Lock!Cardinality, Cardinality

LockInv == Lock!TypeOK /\ Lock!CountsHolders /\ Lock!HeldIsCurrent /\ Lock!OneCallbackPerIncarnation

\* The holders are finitely many and fewer than Bias.
LEMMA HoldersFinite ==
    ASSUME Lock!TypeOK
    PROVE  /\ IsFiniteSet(Lock!Holders)
           /\ Cardinality(Lock!Holders) \in Nat
           /\ Cardinality(Lock!Holders) <= Cardinality(Users)
           /\ Cardinality(Users) \in Nat
           /\ Cardinality(Lock!Holders) < Bias
<1>1. Lock!Holders \subseteq Users
  BY DEF Lock!Holders
<1>2. /\ IsFiniteSet(Lock!Holders) 
      /\ Cardinality(Lock!Holders) <= Cardinality(Users)
  BY <1>1, FS_Subset, LockSizes
<1>3. Cardinality(Lock!Holders) \in Nat /\ Cardinality(Users) \in Nat
  BY <1>2, FS_CardinalityType, LockSizes
<1> QED
  BY <1>2, <1>3, LockSizes

\* A user that starts to hold adds one to the count.
LEMMA HolderJoins ==
    ASSUME Lock!TypeOK, NEW u \in Users, at[u] # "held", Lock!Goto(u, "held")
    PROVE  /\ Lock!Holders' = Lock!Holders \cup {u}
           /\ Cardinality(Lock!Holders') = Cardinality(Lock!Holders) + 1
           /\ IsFiniteSet(Lock!Holders')
           /\ Cardinality(Lock!Holders') <= Cardinality(Users)
<1>1. Lock!Holders' = Lock!Holders \cup {u} /\ u \notin Lock!Holders
  BY SameCount DEF Lock!Holders, Lock!Goto, Lock!TypeOK
<1>2. Cardinality(Lock!Holders') = Cardinality(Lock!Holders) + 1 /\ IsFiniteSet(Lock!Holders')
  BY <1>1, HoldersFinite, FS_AddElement
<1>3. Cardinality(Lock!Holders') <= Cardinality(Users)
  <2>1. Lock!Holders' \subseteq Users
    BY DEF Lock!Holders
  <2> QED
    BY <2>1, FS_Subset, LockSizes
<1> QED
  BY <1>1, <1>2, <1>3

\* A user that stops holding takes one from the count.
LEMMA HolderLeaves ==
    ASSUME Lock!TypeOK, NEW u \in Users, NEW l \in {"idle", "callback"}, at[u] = "held", Lock!Goto(u, l)
    PROVE  /\ Lock!Holders' = Lock!Holders \ {u}
           /\ u \in Lock!Holders
           /\ Cardinality(Lock!Holders') = Cardinality(Lock!Holders) - 1
           /\ Cardinality(Lock!Holders) >= 1
<1>1. Lock!Holders' = Lock!Holders \ {u} /\ u \in Lock!Holders
  BY SameCount DEF Lock!Holders, Lock!Goto, Lock!TypeOK
<1>2. Cardinality(Lock!Holders') = Cardinality(Lock!Holders) - 1
  BY <1>1, HoldersFinite, FS_RemoveElement
<1>3. Cardinality(Lock!Holders) >= 1
  <2>1. Lock!Holders # {}
    BY <1>1
  <2> QED
    BY <2>1, HoldersFinite, FS_EmptySet
<1> QED
  BY <1>1, <1>2, <1>3

\* A step that makes nobody hold or stop holding leaves the set of holders alone.
LEMMA HoldersStay ==
    ASSUME Lock!TypeOK, NEW u \in Users, NEW l \in {"idle", "trying", "callback"},
           at[u] # "held", Lock!Goto(u, l)
    PROVE  Lock!Holders' = Lock!Holders
BY SameCount DEF Lock!Holders, Lock!Goto, Lock!TypeOK

LEMMA LockInitInv == Lock!Init => LockInv
<1> SUFFICES ASSUME Lock!Init PROVE LockInv
  OBVIOUS
<1>1. Lock!Holders = {}
  BY DEF Lock!Init, Lock!Holders
<1>2. Cardinality(Lock!Holders) = 0 /\ Cardinality(Users) \in Nat
  BY <1>1, FS_EmptySet, FS_CardinalityType, LockSizes
<1>3. Lock!TypeOK
  BY <1>2, LockSizes, SameCount DEF Lock!Init, Lock!TypeOK, Lock!v_init, Lock!v_complete
<1>4. Lock!CountsHolders
  BY <1>2, SameCount DEF Lock!Init, Lock!CountsHolders, Lock!v_complete
<1>5. Lock!HeldIsCurrent
  BY <1>1 DEF Lock!HeldIsCurrent
<1>6. Lock!OneCallbackPerIncarnation
  BY DEF Lock!Init, Lock!OneCallbackPerIncarnation
<1> QED
  BY <1>3, <1>4, <1>5, <1>6 DEF LockInv

LEMMA LockStepInv == LockInv /\ [Lock!Next]_(Lock!vars) => LockInv'
<1> SUFFICES ASSUME LockInv, [Lock!Next]_(Lock!vars) PROVE LockInv'
  OBVIOUS
<1> USE DEF Lock!v_init, Lock!v_complete
<1>0. /\ Lock!TypeOK /\ Lock!CountsHolders /\ Lock!HeldIsCurrent /\ Lock!OneCallbackPerIncarnation
      /\ Cardinality(Lock!Holders) \in Nat /\ Cardinality(Lock!Holders) < Bias
      /\ Cardinality(Users) \in Nat /\ Cardinality(Lock!Holders) <= Cardinality(Users)
      /\ Bias \in Nat
  BY HoldersFinite, LockSizes DEF LockInv
<1>1. ASSUME NEW u \in Users, Lock!Start(u) PROVE LockInv'
  <2>1. Lock!Holders' = Lock!Holders /\ Cardinality(Lock!Holders) = 0
    BY <1>0, <1>1, SameCount DEF Lock!Start, Lock!Holders, Lock!CountsHolders
  <2>2. Lock!Holders = {}
    BY <2>1, HoldersFinite, <1>0, FS_EmptySet
  <2>3. Lock!TypeOK'
    BY <1>0, <1>1, SameCount DEF Lock!Start, Lock!TypeOK
  <2>4. Lock!CountsHolders'
    BY <1>0, <1>1, <2>1, SameCount DEF Lock!Start, Lock!CountsHolders
  <2>5. Lock!HeldIsCurrent'
    BY <2>1, <2>2 DEF Lock!HeldIsCurrent
  <2>6. Lock!OneCallbackPerIncarnation'
    BY <1>0, <1>1, SameCount DEF Lock!Start, Lock!OneCallbackPerIncarnation, Lock!TypeOK
  <2> QED
    BY <2>3, <2>4, <2>5, <2>6 DEF LockInv
<1>2. ASSUME NEW u \in Users, Lock!AcquireBegin(u) PROVE LockInv'
  <2>1. Lock!Holders' = Lock!Holders
    BY <1>0, <1>2, HoldersStay DEF Lock!AcquireBegin
  <2>2. Lock!TypeOK'
    BY <1>0, <1>2, SameCount DEF Lock!AcquireBegin, Lock!TypeOK, Lock!Goto
  <2>3. Lock!CountsHolders' /\ Lock!HeldIsCurrent' /\ Lock!OneCallbackPerIncarnation'
    BY <1>0, <1>2, <2>1, SameCount
    DEF Lock!AcquireBegin, Lock!CountsHolders, Lock!HeldIsCurrent, Lock!OneCallbackPerIncarnation
  <2> QED
    BY <2>2, <2>3 DEF LockInv
<1>3. ASSUME NEW u \in Users, Lock!AcquireWin(u) PROVE LockInv'
  <2>1. /\ Lock!Holders' = Lock!Holders \cup {u}
        /\ Cardinality(Lock!Holders') = Cardinality(Lock!Holders) + 1
        /\ Cardinality(Lock!Holders') <= Cardinality(Users)
    BY <1>0, <1>3, HolderJoins DEF Lock!AcquireWin
  <2>2. value < 0 /\ value' = value + 1
    BY <1>0, <1>3, SameCount DEF Lock!AcquireWin, Lock!TypeOK
  <2>3. value' = Cardinality(Lock!Holders') - Bias /\ value' < 0
    BY <1>0, <2>1, <2>2, LockSizes, SameCount DEF Lock!CountsHolders, Lock!TypeOK
  <2>4. Lock!TypeOK'
    BY <1>0, <1>3, <2>1, <2>3, SameCount DEF Lock!AcquireWin, Lock!TypeOK, Lock!Goto
  <2>5. Lock!CountsHolders'
    BY <2>3, SameCount DEF Lock!CountsHolders
  <2>6. Lock!HeldIsCurrent'
    BY <1>0, <1>3, <2>1, <2>3, SameCount DEF Lock!AcquireWin, Lock!HeldIsCurrent, Lock!TypeOK, Lock!Holders
  <2>7. Lock!OneCallbackPerIncarnation'
    BY <1>0, <1>3, <2>2, <2>3 DEF Lock!AcquireWin, Lock!OneCallbackPerIncarnation
  <2> QED
    BY <2>4, <2>5, <2>6, <2>7 DEF LockInv
<1>4. ASSUME NEW u \in Users, Lock!AcquireRetry(u) PROVE LockInv'
  <2>1. Lock!Holders' = Lock!Holders
    BY <1>4 DEF Lock!AcquireRetry, Lock!Holders
  <2>2. Lock!TypeOK'
    BY <1>0, <1>4, SameCount DEF Lock!AcquireRetry, Lock!TypeOK
  <2>3. Lock!CountsHolders' /\ Lock!HeldIsCurrent' /\ Lock!OneCallbackPerIncarnation'
    BY <1>0, <1>4, <2>1, SameCount
    DEF Lock!AcquireRetry, Lock!CountsHolders, Lock!HeldIsCurrent, Lock!OneCallbackPerIncarnation
  <2> QED
    BY <2>2, <2>3 DEF LockInv
<1>5. ASSUME NEW u \in Users, Lock!AcquireFail(u) PROVE LockInv'
  <2>1. Lock!Holders' = Lock!Holders
    BY <1>0, <1>5, HoldersStay DEF Lock!AcquireFail
  <2>2. Lock!TypeOK'
    BY <1>0, <1>5, SameCount DEF Lock!AcquireFail, Lock!TypeOK, Lock!Goto
  <2>3. Lock!CountsHolders' /\ Lock!HeldIsCurrent' /\ Lock!OneCallbackPerIncarnation'
    BY <1>0, <1>5, <2>1, SameCount
    DEF Lock!AcquireFail, Lock!CountsHolders, Lock!HeldIsCurrent, Lock!OneCallbackPerIncarnation
  <2> QED
    BY <2>2, <2>3 DEF LockInv
<1>6. ASSUME NEW u \in Users, Lock!Rundown_l(u) PROVE LockInv'
  <2>1. Lock!Holders' = Lock!Holders /\ u \in Lock!Holders
    BY <1>6 DEF Lock!Rundown_l, Lock!Holders
  <2>2. Cardinality(Lock!Holders) >= 1
    BY <1>0, <2>1, HoldersFinite, FS_EmptySet
  <2>3. value' = Cardinality(Lock!Holders) /\ value # 0 /\ value' > 0
    BY <1>0, <1>6, <2>2, SameCount DEF Lock!Rundown_l, Lock!ClearTopBit, Lock!CountsHolders, Lock!TypeOK
  <2>4. Lock!TypeOK'
    BY <1>0, <1>6, <2>3, SameCount DEF Lock!Rundown_l, Lock!TypeOK
  <2>5. Lock!CountsHolders'
    BY <1>0, <2>1, <2>3, SameCount DEF Lock!CountsHolders
  <2>6. Lock!HeldIsCurrent'
    BY <1>0, <1>6, <2>1, <2>3 DEF Lock!Rundown_l, Lock!HeldIsCurrent
  <2>7. Lock!OneCallbackPerIncarnation'
    BY <1>0, <1>6, <2>3 DEF Lock!Rundown_l, Lock!OneCallbackPerIncarnation
  <2> QED
    BY <2>4, <2>5, <2>6, <2>7 DEF LockInv
<1>7. ASSUME NEW u \in Users, Lock!Release(u) PROVE LockInv'
  <2>1. /\ Lock!Holders' = Lock!Holders \ {u}
        /\ u \in Lock!Holders
        /\ Cardinality(Lock!Holders') = Cardinality(Lock!Holders) - 1
        /\ Cardinality(Lock!Holders) >= 1
    BY <1>0, <1>7, HolderLeaves DEF Lock!Release
  <2>2. /\ value # 0 /\ value' = value - 1
        /\ value < 0 => value' < 0 /\ value' >= -Bias
        /\ value > 0 => value' >= 0
    BY <1>0, <1>7, <2>1, SameCount DEF Lock!Release, Lock!CountsHolders, Lock!TypeOK
  <2>3. Lock!TypeOK'
    BY <1>0, <1>7, <2>2, SameCount DEF Lock!Release, Lock!TypeOK, Lock!Goto
  <2>4. Lock!CountsHolders'
    BY <1>0, <2>1, <2>2, SameCount DEF Lock!CountsHolders, Lock!TypeOK
  <2>5. Lock!HeldIsCurrent'
    <3> SUFFICES ASSUME NEW h \in Lock!Holders' PROVE value' # 0 /\ of'[h] = begun'
      BY DEF Lock!HeldIsCurrent
    <3>1. Cardinality(Lock!Holders') # 0
      BY <1>0, <2>1, FS_EmptySet, FS_RemoveElement, HoldersFinite
    <3>2. value' # 0
      BY <1>0, <2>4, <3>1, <2>1, <2>2, SameCount DEF Lock!CountsHolders, Lock!TypeOK
    <3> QED
      BY <1>0, <1>7, <2>1, <3>2 DEF Lock!Release, Lock!HeldIsCurrent
  <2>6. Lock!OneCallbackPerIncarnation'
    BY <1>0, <1>7, <2>2, SameCount DEF Lock!Release, Lock!OneCallbackPerIncarnation, Lock!TypeOK
  <2> QED
    BY <2>3, <2>4, <2>5, <2>6 DEF LockInv
<1>8. ASSUME NEW u \in Users, Lock!CallbackEnd(u) PROVE LockInv'
  <2>1. Lock!Holders' = Lock!Holders
    BY <1>0, <1>8, HoldersStay DEF Lock!CallbackEnd
  <2>2. Lock!TypeOK'
    BY <1>0, <1>8, SameCount DEF Lock!CallbackEnd, Lock!TypeOK, Lock!Goto
  <2>3. Lock!CountsHolders' /\ Lock!HeldIsCurrent' /\ Lock!OneCallbackPerIncarnation'
    BY <1>0, <1>8, <2>1, SameCount
    DEF Lock!CallbackEnd, Lock!CountsHolders, Lock!HeldIsCurrent, Lock!OneCallbackPerIncarnation
  <2> QED
    BY <2>2, <2>3 DEF LockInv
<1>9. CASE UNCHANGED Lock!vars
  BY <1>9, <1>0, SameCount DEF Lock!vars, LockInv, Lock!TypeOK, Lock!CountsHolders, Lock!HeldIsCurrent,
                    Lock!OneCallbackPerIncarnation, Lock!Holders
<1> QED
  BY <1>1, <1>2, <1>3, <1>4, <1>5, <1>6, <1>7, <1>8, <1>9 DEF Lock!Next, Lock!UserStep

LEMMA LockInvariant == Lock!Spec => []LockInv
<1> QED
  BY LockInitInv, LockStepInv, PTL DEF Lock!Spec

\* Every variable keeps its type: in particular the word never overflows into
\* the flag, and no Acquire ever guesses a value without it.
THEOREM LockTypeCorrect == Lock!Spec => []Lock!TypeOK
<1>1. LockInv => Lock!TypeOK
  BY DEF LockInv
<1> QED
  BY <1>1, LockInvariant, PTL

\* In every interleaving the word counts exactly the users that hold protection.
THEOREM WordCountsHolders == Lock!Spec => []Lock!CountsHolders
<1>1. LockInv => Lock!CountsHolders
  BY DEF LockInv
<1> QED
  BY <1>1, LockInvariant, PTL

\* No completion callback and no new incarnation while somebody holds protection.
THEOREM NoCallbackUnderAHolder == Lock!Spec => []Lock!HeldIsCurrent
<1>1. LockInv => Lock!HeldIsCurrent
  BY DEF LockInv
<1> QED
  BY <1>1, LockInvariant, PTL

\* Every incarnation gets exactly one completion callback.
THEOREM ExactlyOneCallback == Lock!Spec => []Lock!OneCallbackPerIncarnation
<1>1. LockInv => Lock!OneCallbackPerIncarnation
  BY DEF LockInv
<1> QED
  BY <1>1, LockInvariant, PTL

\* After the rundown has begun nobody new is protected, and the word does not
\* become negative again before it was complete.
THEOREM RundownStaysFinal == Lock!Spec => Lock!RundownIsFinal
<1>1. ASSUME LockInv, [Lock!Next]_(Lock!vars), value > 0
      PROVE  value' >= 0 /\ Lock!Holders' \subseteq Lock!Holders
  <2> USE DEF Lock!v_init, Lock!v_complete
  <2>0. Lock!TypeOK /\ Bias \in Nat
    BY <1>1, LockSizes DEF LockInv
  <2>1. CASE UNCHANGED Lock!vars
    BY <1>1, <2>0, <2>1, SameCount DEF Lock!vars, Lock!Holders, Lock!TypeOK
  <2>2. ASSUME NEW u \in Users, 
               Lock!Start(u) \/ Lock!AcquireWin(u)
        PROVE  FALSE
    BY <1>1, <2>0, <2>2, SameCount DEF Lock!Start, Lock!AcquireWin, Lock!TypeOK
  <2>3. ASSUME NEW u \in Users, Lock!AcquireBegin(u) \/ Lock!AcquireRetry(u) \/ Lock!AcquireFail(u)
        PROVE  value' >= 0 /\ Lock!Holders' \subseteq Lock!Holders
    BY <1>1, <2>0, <2>3, SameCount DEF Lock!AcquireBegin, Lock!AcquireRetry, Lock!AcquireFail, Lock!TypeOK, Lock!Holders, Lock!Goto
  <2>4. ASSUME NEW u \in Users, Lock!Rundown_l(u) \/ Lock!Release(u) \/ Lock!CallbackEnd(u)
        PROVE  value' >= 0 /\ Lock!Holders' \subseteq Lock!Holders
    BY <1>1, <2>0, <2>4, SameCount
    DEF Lock!Rundown_l, Lock!ClearTopBit, Lock!Release, Lock!CallbackEnd, Lock!TypeOK, Lock!Holders, Lock!Goto
  <2> QED
    BY <1>1, <2>1, <2>2, <2>3, <2>4 DEF Lock!Next, Lock!UserStep
<1> QED
  BY <1>1, LockInvariant, PTL DEF Lock!Spec, Lock!RundownIsFinal

\* The word and its five instructions implement the abstract rundown lock.
THEOREM LockImplements == Lock!Spec => LockIsKept
<1>1. Lock!Init => Lock!Abs!Init
  BY DEF Lock!Init, Lock!Abs!Init, Lock!Holders, Lock!Owing, Lock!v_complete
<1>2. ASSUME LockInv, LockInv', [Lock!Next]_(Lock!vars)
      PROVE  [Lock!Abs!Next]_(Lock!Abs!svars)
  <2> DEFINE ph == IF value < 0 THEN "live" ELSE IF value = Lock!v_complete THEN "off" ELSE "closing"
  <2> USE DEF Lock!v_init, Lock!v_complete
  <2>0. /\ Lock!TypeOK /\ Lock!CountsHolders /\ Lock!HeldIsCurrent /\ Bias \in Nat /\ Bias > 0
        /\ Cardinality(Lock!Holders) \in Nat /\ Cardinality(Lock!Holders) < Bias
    BY <1>2, HoldersFinite, LockSizes DEF LockInv
  <2>1. ASSUME NEW u \in Users, Lock!Start(u) PROVE Lock!Abs!Next
    <3>1. Lock!Holders' = Lock!Holders /\ Lock!Owing' = Lock!Owing /\ ph = "off" /\ ph' = "live"
      BY <2>0, <2>1 DEF Lock!Start, Lock!Holders, Lock!Owing
    <3>2. Lock!Abs!Start(u)
      BY <2>1, <3>1 DEF Lock!Start, Lock!Abs!Start, Lock!Abs!Idle, Lock!Holders, Lock!Owing
    <3> QED
      BY <3>2 DEF Lock!Abs!Next
  <2>2. ASSUME NEW u \in Users, Lock!AcquireBegin(u) \/ Lock!AcquireRetry(u) \/ Lock!AcquireFail(u)
        PROVE  UNCHANGED Lock!Abs!svars
    BY <2>0, <2>2, SameCount
    DEF Lock!AcquireBegin, Lock!AcquireRetry, Lock!AcquireFail, Lock!TypeOK, Lock!Goto, Lock!Abs!svars, Lock!Holders, Lock!Owing
  <2>3. ASSUME NEW u \in Users, Lock!AcquireWin(u) PROVE Lock!Abs!Next
    <3>1. Lock!Holders' = Lock!Holders \cup {u} /\ Lock!Owing' = Lock!Owing
      BY <2>0, <2>3, SameCount DEF Lock!AcquireWin, Lock!TypeOK, Lock!Goto, Lock!Holders, Lock!Owing
    <3>2. value < 0 /\ value' < 0
      <4>1. Cardinality(Lock!Holders') = Cardinality(Lock!Holders) + 1 /\ Cardinality(Lock!Holders') < Bias
        BY <2>0, <2>3, HolderJoins, LockSizes, HoldersFinite DEF Lock!AcquireWin
      <4> QED
        BY <2>0, <2>3, <4>1, SameCount DEF Lock!AcquireWin, Lock!TypeOK, Lock!CountsHolders
    <3>3. Lock!Abs!Protect(u)
      BY <2>3, <3>1, <3>2 DEF Lock!AcquireWin, Lock!Abs!Protect, Lock!Abs!Idle, Lock!Holders, Lock!Owing
    <3> QED
      BY <3>3 DEF Lock!Abs!Next
  <2>4. ASSUME NEW u \in Users, Lock!Rundown_l(u) PROVE Lock!Abs!Next \/ UNCHANGED Lock!Abs!svars
    <3>1. Lock!Holders' = Lock!Holders /\ Lock!Owing' = Lock!Owing /\ u \in Lock!Holders
      BY <2>4 DEF Lock!Rundown_l, Lock!Holders, Lock!Owing
    <3>2. CASE value < 0
      <4>1. value' \in Int /\ value' > 0
        <5>1. Cardinality(Lock!Holders) # 0
          BY <2>0, <3>1, HoldersFinite, FS_EmptySet
        <5> QED
          BY <2>0, <2>4, <3>2, <5>1, SameCount DEF Lock!Rundown_l, Lock!ClearTopBit, Lock!CountsHolders, Lock!TypeOK
      <4>2. Lock!Abs!BeginRundown(u)
        BY <2>0, <3>1, <3>2, <4>1, SameCount DEF Lock!Abs!BeginRundown, Lock!TypeOK
      <4> QED
        BY <4>2 DEF Lock!Abs!Next
    <3>3. CASE ~(value < 0)
      BY <2>4, <3>1, <3>3 DEF Lock!Rundown_l, Lock!ClearTopBit, Lock!Abs!svars
    <3> QED
      BY <3>2, <3>3
  <2>5. ASSUME NEW u \in Users, Lock!Release(u) PROVE Lock!Abs!Next
    <3>1. /\ Lock!Holders' = Lock!Holders \ {u} /\ u \in Lock!Holders
          /\ Cardinality(Lock!Holders') = Cardinality(Lock!Holders) - 1
          /\ Cardinality(Lock!Holders) >= 1
      BY <2>0, <2>5, HolderLeaves DEF Lock!Release
    <3>2. /\ value' = value - 1
          /\ value < 0 => value' < 0
          /\ value >= 0 => value > 0 /\ value' >= 0
      BY <2>0, <2>5, <3>1, SameCount DEF Lock!Release, Lock!CountsHolders, Lock!TypeOK
    <3>3. value > 0 => (value' = 0 <=> Lock!Holders = {u})
      <4>1. value > 0 => (value' = 0 <=> Cardinality(Lock!Holders) = 1)
        BY <2>0, <3>1, <3>2, SameCount DEF Lock!CountsHolders, Lock!TypeOK
      <4>2. Cardinality(Lock!Holders) = 1 <=> Lock!Holders = {u}
        BY <3>1, <2>0, HoldersFinite, FS_Singleton
      <4> QED
        BY <4>1, <4>2
    <3>4. value' = 0 => Lock!Owing' = Lock!Owing \cup {u}
      BY <2>0, <2>5, <3>2, SameCount DEF Lock!Release, Lock!TypeOK, Lock!Goto, Lock!Owing
    <3>5. value' # 0 => Lock!Owing' = Lock!Owing
      BY <2>0, <2>5, <3>2, SameCount DEF Lock!Release, Lock!TypeOK, Lock!Goto, Lock!Owing
    <3>6. Lock!Abs!Unprotect(u)
      <4>1. CASE value < 0
        BY <2>0, <3>1, <3>2, <3>5, <4>1, SameCount DEF Lock!Abs!Unprotect, Lock!TypeOK
      <4>2. CASE ~(value < 0)
        BY <2>0, <3>1, <3>2, <3>3, <3>4, <3>5, <4>2, SameCount DEF Lock!Abs!Unprotect, Lock!TypeOK
      <4> QED
        BY <4>1, <4>2
    <3> QED
      BY <3>6 DEF Lock!Abs!Next
  <2>6. ASSUME NEW u \in Users, Lock!CallbackEnd(u) PROVE Lock!Abs!Next
    <3>1. Lock!Holders' = Lock!Holders /\ Lock!Owing' = Lock!Owing \ {u} /\ u \in Lock!Owing
      BY <2>0, <2>6, SameCount DEF Lock!CallbackEnd, Lock!TypeOK, Lock!Goto, Lock!Holders, Lock!Owing
    <3>2. Lock!Abs!Complete(u)
      BY <2>6, <3>1 DEF Lock!CallbackEnd, Lock!Abs!Complete
    <3> QED
      BY <3>2 DEF Lock!Abs!Next
  <2>7. CASE UNCHANGED Lock!vars
    BY <2>7 DEF Lock!vars, Lock!Abs!svars, Lock!Holders, Lock!Owing
  <2> QED
    BY <1>2, <2>1, <2>2, <2>3, <2>4, <2>5, <2>6, <2>7 DEF Lock!Next, Lock!UserStep
<1> QED
  BY <1>1, <1>2, LockInvariant, PTL DEF Lock!Spec, LockIsKept, Lock!AbsSpec, Lock!Abs!Spec

-----------------------------------------------------------------------------
(***************************************************************************)
(* Connection implements ConnectionSpec, for any finite set of workers.    *)
(***************************************************************************)
\* The tasks that a thread may have.
Tasks == {"listen", "connect", "read", "write", "end", "disconnect", "rundown", "once", "init", "not_connected",
          "onconnect", "onread", "onwrite", "ondisconnect", "disconnected", "unlock", "last_out", "close_handle",
          "post_listen", "post_read", "post_write", "post_disc"}

\* A stack's height; its tasks are numbered from below, so that a step keeps the numbers
\* of the tasks that it leaves.
Height(f, t)  == Len(f[t])
Item(f, t, h) == f[t][Len(f[t]) + 1 - h]

\* Where the tasks of kind K are, and how many there are.
PlacesOf(f, T, K) == UNION {{t} \X {h \in 1 .. Height(f, t) : Item(f, t, h) \in K} : t \in T}
Number(f, T, K) == Cardinality(PlacesOf(f, T, K))

\* A task of HoldTasks holds the connection; one of WaitTasks is part of a request for
\* the next one; one of AskTasks may make such a request.
HoldTasks == {"unlock", "once", "post_read", "post_write", "post_disc"}
WaitTasks == {"init", "post_listen", "not_connected"}
AskTasks  == {"listen", "connect", "post_listen", "not_connected"}
HoldCount == Number(todo, ConnThreads, HoldTasks)
WaitCount == Number(todo, ConnThreads, WaitTasks)
InitCount == Number(todo, ConnThreads, {"init"})
LastCount == Number(todo, ConnThreads, {"last_out"})
AskCount  == Number(todo, ConnThreads, AskTasks)

ConnTypes ==
    /\ kind \in {"tcp", "server", "client"} /\ up \in BOOLEAN /\ held \in Nat
    /\ listenActive \in BOOLEAN /\ discActive \in BOOLEAN
    /\ handle \in {"open", "closing", "closed"} /\ link \in {"none", "up", "dead"}
    /\ irps \in [Requests -> Nat] /\ todo \in [ConnThreads -> Seq(Tasks)]
    /\ connections \in Nat /\ disconnects \in Nat

\* The holders of the connection are counted.
Holders == held = HoldCount + irps["read"] + irps["write"] + irps["disc"] + irps["got"]

\* There is a connection as long as the lock is up, held, or about to be told so.
Between ==
    /\ connections = disconnects \/ connections = disconnects + 1
    /\ connections = disconnects => up = FALSE /\ held = 0 /\ LastCount = 0
    /\ LastCount = 0 \/ (LastCount = 1 /\ up = FALSE /\ held = 0)

\* Nobody waits for a connection while there is one, and one request at a time does.
Waiting ==
    /\ InitCount + irps["accepted"] + One(Open) <= 1
    /\ kind # "client" /\ handle # "closed" =>
           WaitCount + irps["listen"] + irps["accepted"] + One(Open) <= One(listenActive)
    /\ kind = "client" => AskCount = 0 /\ irps["listen"] = 0

\* OnRecv and OnSend run above the task that releases the connection.
OnTasks == {"onread", "onwrite"}
Above == \A t \in ConnThreads : \A h \in 1 .. Height(todo, t) : Item(todo, t, h) \in OnTasks =>
    /\ h = Height(todo, t)
    /\ \E k \in 1 .. h - 1 : Item(todo, t, k) = "unlock"

ConnInv == ConnTypes /\ Holders /\ Between /\ Waiting /\ Above

\* t keeps the lowest b of its tasks and has these on top of them; the others have theirs.
Pushed(f, g, T, t, b, tasks) ==
    /\ \A u \in T \ {t} : g[u] = f[u]
    /\ b \in 0 .. Height(f, t) /\ Height(g, t) = b + Len(tasks)
    /\ \A h \in 1 .. b : Item(g, t, h) = Item(f, t, h)
    /\ \A i \in 1 .. Len(tasks) : Item(g, t, b + Len(tasks) + 1 - i) = tasks[i]

\* What is taken off the stack of t counts so much, and what is put there.
Dropped(f, t, b, K) == Cardinality({h \in b + 1 .. Height(f, t) : Item(f, t, h) \in K})
Given(tasks, K) == Cardinality({i \in 1 .. Len(tasks) : tasks[i] \in K})

\* A stack's height, and its tasks.
LEMMA HeightIsNat ==
    ASSUME NEW T, NEW E, NEW f \in [T -> Seq(E)], NEW t \in T
    PROVE  /\ Height(f, t) \in Nat
           /\ \A h \in 1 .. Height(f, t) : Item(f, t, h) \in E
           /\ f[t] = <<>> <=> Height(f, t) = 0
           /\ f[t] # <<>> => Item(f, t, Height(f, t)) = Head(f[t])
<1>1. f[t] \in Seq(E)
  OBVIOUS
<1>2. ASSUME NEW s \in Seq(E)
      PROVE  /\ Len(s) \in Nat
             /\ \A h \in 1 .. Len(s) : s[Len(s) + 1 - h] \in E
             /\ s = <<>> <=> Len(s) = 0
             /\ s # <<>> => s[Len(s) + 1 - Len(s)] = Head(s)
  <2>1. \A h \in 1 .. Len(s) : Len(s) + 1 - h \in 1 .. Len(s)
    OBVIOUS
  <2>2. Len(s) + 1 - Len(s) = 1
    OBVIOUS
  <2> QED
    BY <2>1, <2>2, EmptySeq
<1> QED
  BY <1>1, <1>2 DEF Height, Item

\* The first task is taken, and makes others.
LEMMA DoPushes ==
    ASSUME NEW T, NEW E, NEW f \in [T -> Seq(E)], NEW t \in T, f[t] # <<>>,
           NEW tasks \in Seq(E), NEW g, g = [f EXCEPT ![t] = tasks \o Tail(f[t])]
    PROVE  g \in [T -> Seq(E)] /\ Pushed(f, g, T, t, Height(f, t) - 1, tasks)
<1> DEFINE s == f[t]
           r == tasks \o Tail(s)
           n == Len(s)
           k == Len(tasks)
<1>1. s \in Seq(E) /\ n \in Nat /\ n > 0 /\ k \in Nat
  BY EmptySeq
<1>2. Tail(s) \in Seq(E) /\ Len(Tail(s)) = n - 1
  BY <1>1, HeadTailProperties
<1>3. r \in Seq(E) /\ Len(r) = k + (n - 1)
  BY <1>1, <1>2, ConcatProperties
<1>4. g \in [T -> Seq(E)] /\ g[t] = r /\ \A u \in T \ {t} : g[u] = f[u]
  BY <1>3
<1>5. ASSUME NEW h \in 1 .. n - 1 PROVE r[Len(r) + 1 - h] = s[n + 1 - h]
  <2>1. Len(r) + 1 - h \in k + 1 .. k + Len(Tail(s)) /\ Len(r) + 1 - h - k = n - h
    BY <1>1, <1>2, <1>3
  <2>2. r[Len(r) + 1 - h] = Tail(s)[n - h]
    BY <1>1, <1>2, <2>1, ConcatProperties
  <2>3. n - h \in 1 .. n - 1 /\ n - h + 1 = n + 1 - h
    BY <1>1
  <2> QED
    BY <2>2, <2>3, <1>1, <1>2, HeadTailProperties
<1>6. ASSUME NEW i \in 1 .. k PROVE r[Len(r) + 1 - (n - 1 + k + 1 - i)] = tasks[i]
  <2>1. Len(r) + 1 - (n - 1 + k + 1 - i) = i
    BY <1>1, <1>3
  <2> QED
    BY <2>1, <1>1, <1>2, ConcatProperties
<1> HIDE DEF r, s, n, k
<1>7. Height(f, t) = n /\ Height(g, t) = Len(r)
  BY <1>4 DEF Height, n, s
<1>8. /\ \A h \in 1 .. n - 1 : Item(g, t, h) = Item(f, t, h)
      /\ \A i \in 1 .. k : Item(g, t, n - 1 + k + 1 - i) = tasks[i]
  BY <1>4, <1>5, <1>6 DEF Item, n, s
<1>9. n - 1 \in 0 .. n /\ Len(r) = n - 1 + k
  BY <1>1, <1>3
<1>10. Pushed(f, g, T, t, n - 1, tasks)
  BY <1>4, <1>7, <1>8, <1>9 DEF Pushed, k
<1> QED
  BY <1>4, <1>7, <1>10

\* All that t had to do is replaced; or it had nothing to do.
LEMMA NewPushes ==
    ASSUME NEW T, NEW E, NEW f \in [T -> Seq(E)], NEW t \in T,
           NEW tasks \in Seq(E), NEW g, g = [f EXCEPT ![t] = tasks]
    PROVE  g \in [T -> Seq(E)] /\ Pushed(f, g, T, t, 0, tasks)
<1>1. g \in [T -> Seq(E)] /\ g[t] = tasks /\ \A u \in T \ {t} : g[u] = f[u]
  OBVIOUS
<1>2. Len(tasks) \in Nat /\ Height(f, t) \in Nat /\ Height(g, t) = Len(tasks)
  BY <1>1, HeightIsNat DEF Height
<1>3. ASSUME NEW i \in 1 .. Len(tasks) PROVE Item(g, t, 0 + Len(tasks) + 1 - i) = tasks[i]
  <2>1. Len(tasks) + 1 - (0 + Len(tasks) + 1 - i) = i
    BY <1>2
  <2> QED
    BY <2>1, <1>1 DEF Item
<1>4. 0 \in 0 .. Height(f, t) /\ Height(g, t) = 0 + Len(tasks) /\ 1 .. 0 = {}
  BY <1>2
<1> QED
  BY <1>1, <1>3, <1>4 DEF Pushed

\* Where the tasks of the new stacks come from; and what becomes of the old ones.
Comes(f, g, T, t, b, tasks) == \A u \in T : \A h \in 1 .. Height(g, u) :
    \/ /\ h \in 1 .. Height(f, u) /\ (u = t => h <= b)
       /\ Item(g, u, h) = Item(f, u, h)
    \/ /\ u = t /\ h > b /\ h \in Nat
       /\ \E i \in 1 .. Len(tasks) : h = b + Len(tasks) + 1 - i /\ Item(g, u, h) = tasks[i]
Stays(f, g, T, t, b) == \A u \in T : \A h \in 1 .. Height(f, u) : (u = t => h <= b) =>
    h \in 1 .. Height(g, u) /\ Item(g, u, h) = Item(f, u, h)

\* Pushed says where each task came from, and that what was kept is still there.
LEMMA Origin ==
    ASSUME NEW T, NEW E, NEW f \in [T -> Seq(E)], NEW g \in [T -> Seq(E)], NEW t \in T,
           NEW b, NEW tasks \in Seq(E), Pushed(f, g, T, t, b, tasks)
    PROVE  Comes(f, g, T, t, b, tasks) /\ Stays(f, g, T, t, b)
<1>1. ASSUME NEW u \in T, NEW h \in 1 .. Height(g, u)
      PROVE  \/ /\ h \in 1 .. Height(f, u) /\ (u = t => h <= b)
                /\ Item(g, u, h) = Item(f, u, h)
             \/ /\ u = t /\ h > b /\ h \in Nat
                /\ \E i \in 1 .. Len(tasks) : h = b + Len(tasks) + 1 - i /\ Item(g, u, h) = tasks[i]
  <2>1. CASE u # t
    BY <2>1 DEF Pushed, Height, Item
  <2>2. CASE u = t /\ h <= b
    BY <2>2, HeightIsNat, SMTT(30) DEF Pushed
  <2>3. CASE u = t /\ ~(h <= b)
    <3> DEFINE i == b + Len(tasks) + 1 - h
    <3>1. Len(tasks) \in Nat /\ b \in Nat /\ h \in Nat /\ h > b /\ h <= b + Len(tasks)
      BY <2>3, HeightIsNat DEF Pushed
    <3>2. i \in 1 .. Len(tasks) /\ h = b + Len(tasks) + 1 - i
      BY <3>1
    <3> HIDE DEF i
    <3>3. Item(g, t, b + Len(tasks) + 1 - i) = tasks[i]
      BY <3>2 DEF Pushed
    <3> QED
      BY <2>3, <3>1, <3>2, <3>3
  <2> QED
    BY <2>1, <2>2, <2>3
<1>2. ASSUME NEW u \in T, NEW h \in 1 .. Height(f, u), u = t => h <= b
      PROVE  h \in 1 .. Height(g, u) /\ Item(g, u, h) = Item(f, u, h)
  <2>1. CASE u # t
    BY <2>1 DEF Pushed, Height, Item
  <2>2. CASE u = t
    BY <1>2, <2>2, HeightIsNat DEF Pushed
  <2> QED
    BY <2>1, <2>2
<1> QED
  BY <1>1, <1>2 DEF Comes, Stays

\* There are finitely many places.
LEMMA PlacesFinite ==
    ASSUME NEW T, IsFiniteSet(T), NEW E, NEW f \in [T -> Seq(E)], NEW K
    PROVE  IsFiniteSet(PlacesOf(f, T, K)) /\ Number(f, T, K) \in Nat
<1> DEFINE R == {1 .. Height(f, t) : t \in T}
           g == [t \in T |-> 1 .. Height(f, t)]
<1>1. g \in Surjection(T, R)
  BY DEF Surjection
<1>2. IsFiniteSet(R)
  BY <1>1, FS_Surjection
<1>3. \A S \in R : IsFiniteSet(S)
  <2>1. \A t \in T : Height(f, t) \in Nat
    BY HeightIsNat
  <2>2. \A n \in Nat : IsFiniteSet(1 .. n)
    BY FS_Interval
  <2> QED
    BY <2>1, <2>2
<1>4. IsFiniteSet(T \X UNION R)
  BY <1>2, <1>3, FS_UNION, FS_Product
<1>5. PlacesOf(f, T, K) \in SUBSET (T \X UNION R)
  BY DEF PlacesOf
<1> QED
  BY <1>4, <1>5, FS_Subset, FS_CardinalityType DEF Number

\* What a place is.
LEMMA InPlaces ==
    ASSUME NEW T, NEW f, NEW K, NEW t, NEW h
    PROVE  <<t, h>> \in PlacesOf(f, T, K)
             <=> t \in T /\ h \in 1 .. Height(f, t) /\ Item(f, t, h) \in K
BY DEF PlacesOf

\* A place is a thread and a height.
LEMMA EachIsPlace ==
    ASSUME NEW T, NEW f, NEW K, NEW x \in PlacesOf(f, T, K)
    PROVE  /\ x = <<x[1], x[2]>> /\ x[1] \in T /\ x[2] \in 1 .. Height(f, x[1])
           /\ Item(f, x[1], x[2]) \in K
BY DEF PlacesOf

\* The number is positive just when there is a place.
LEMMA SomePlace ==
    ASSUME NEW T, IsFiniteSet(T), NEW E, NEW f \in [T -> Seq(E)], NEW K
    PROVE  Number(f, T, K) > 0 <=> \E t \in T : \E h \in 1 .. Height(f, t) : Item(f, t, h) \in K
<1>1. IsFiniteSet(PlacesOf(f, T, K)) /\ Number(f, T, K) \in Nat
  BY PlacesFinite
<1>2. Number(f, T, K) = 0 <=> PlacesOf(f, T, K) = {}
  BY <1>1, FS_EmptySet DEF Number
<1>3. ASSUME NEW x \in PlacesOf(f, T, K)
      PROVE  \E t \in T : \E h \in 1 .. Height(f, t) : Item(f, t, h) \in K
  BY EachIsPlace
<1>4. ASSUME NEW t \in T, NEW h \in 1 .. Height(f, t), Item(f, t, h) \in K
      PROVE  PlacesOf(f, T, K) # {}
  BY <1>4, InPlaces
<1> QED
  BY <1>1, <1>2, <1>3, <1>4

\* The number of pairs with one thread is the number of heights.
LEMMA Slice ==
    ASSUME NEW t, NEW D, IsFiniteSet(D)
    PROVE  IsFiniteSet({t} \X D) /\ Cardinality({t} \X D) = Cardinality(D)
<1> DEFINE g == [h \in D |-> <<t, h>>]
<1>1. /\ g \in [D -> {t} \X D]
      /\ \A x \in {t} \X D : \E h \in D : g[h] = x
      /\ \A h, k \in D : g[h] = g[k] => h = k
  OBVIOUS
<1> HIDE DEF g
<1>2. g \in Injection(D, {t} \X D) /\ g \in Surjection(D, {t} \X D)
  BY <1>1 DEF Injection, Surjection, IsInjective
<1>3. g \in Bijection(D, {t} \X D)
  BY <1>2 DEF Bijection
<1> QED
  BY <1>3, FS_Bijection DEF ExistsBijection

\* The number of heights is the same from either end of a stack.
LEMMA Slided ==
    ASSUME NEW J \in SUBSET Int, IsFiniteSet(J), NEW c \in Int, NEW H, H = {c - i : i \in J}
    PROVE  IsFiniteSet(H) /\ Cardinality(H) = Cardinality(J)
<1> DEFINE g == [i \in J |-> c - i]
<1>1. g \in [J -> H] /\ (\A h \in H : \E i \in J : g[i] = h)
  OBVIOUS
<1>2. \A i, j \in J : g[i] = g[j] => i = j
  OBVIOUS
<1> HIDE DEF g
<1>3. g \in Injection(J, H) /\ g \in Surjection(J, H)
  BY <1>1, <1>2 DEF Injection, Surjection, IsInjective
<1>4. g \in Bijection(J, H)
  BY <1>3 DEF Bijection
<1> QED
  BY <1>4, FS_Bijection DEF ExistsBijection

\* A step takes what it drops and gives what it puts.
LEMMA Counted ==
    ASSUME NEW T, IsFiniteSet(T), NEW E, NEW f \in [T -> Seq(E)], NEW g \in [T -> Seq(E)],
           NEW t \in T, NEW b, NEW tasks \in Seq(E), Pushed(f, g, T, t, b, tasks), NEW K
    PROVE  /\ Number(g, T, K) + Dropped(f, t, b, K) = Number(f, T, K) + Given(tasks, K)
           /\ Number(g, T, K) \in Nat /\ Number(f, T, K) \in Nat
           /\ Dropped(f, t, b, K) \in Nat /\ Given(tasks, K) \in Nat
<1> DEFINE P == PlacesOf(f, T, K)
           Q == PlacesOf(g, T, K)
           A == {x \in P : x[1] = t => x[2] <= b}
           D == {h \in b + 1 .. Height(f, t) : Item(f, t, h) \in K}
           J == {i \in 1 .. Len(tasks) : tasks[i] \in K}
           c == b + Len(tasks) + 1
           H == {c - i : i \in J}
<1>0. Comes(f, g, T, t, b, tasks) /\ Stays(f, g, T, t, b)
  BY Origin
<1>1. IsFiniteSet(P) /\ IsFiniteSet(Q) /\ Number(f, T, K) \in Nat /\ Number(g, T, K) \in Nat
  BY PlacesFinite
<1>2. b \in Nat /\ b <= Height(f, t) /\ Height(f, t) \in Nat /\ Len(tasks) \in Nat /\ c \in Int
  <2>1. Height(f, t) \in Nat /\ Len(tasks) \in Nat
    BY HeightIsNat
  <2>2. b \in 0 .. Height(f, t)
    BY DEF Pushed
  <2> QED
    BY <2>1, <2>2
<1>3. IsFiniteSet(D) /\ IsFiniteSet(J) /\ J \in SUBSET Int
  <2>1. IsFiniteSet(b + 1 .. Height(f, t)) /\ IsFiniteSet(1 .. Len(tasks))
    BY <1>2, FS_Interval
  <2>2. D \in SUBSET (b + 1 .. Height(f, t)) /\ J \in SUBSET (1 .. Len(tasks)) /\ J \in SUBSET Int
    OBVIOUS
  <2> HIDE DEF D, J
  <2> QED
    BY <2>1, <2>2, FS_Subset
<1>4. IsFiniteSet(H) /\ Cardinality(H) = Cardinality(J)
  <2> HIDE DEF J, c
  <2> QED
    BY <1>2, <1>3, Slided, ZenonT(40)
<1>5. P = A \cup ({t} \X D) /\ A \cap ({t} \X D) = {}
  <2>1. ASSUME NEW x \in P PROVE x \in A \/ x \in {t} \X D
    <3>1. CASE x[1] = t => x[2] <= b
      BY <3>1
    <3>2. CASE x[1] = t /\ ~(x[2] <= b)
      <4>1. x = <<t, x[2]>> /\ x[2] \in 1 .. Height(f, t) /\ Item(f, t, x[2]) \in K
        BY <3>2, EachIsPlace
      <4>2. x[2] \in D
        BY <1>2, <3>2, <4>1
      <4> QED
        BY <4>1, <4>2
    <3> QED
      BY <3>1, <3>2
  <2>2. ASSUME NEW h \in D PROVE <<t, h>> \in P /\ ~(h <= b)
    <3>1. h \in 1 .. Height(f, t) /\ ~(h <= b) /\ Item(f, t, h) \in K
      BY <1>2
    <3> QED
      BY <3>1, InPlaces
  <2> QED
    BY <2>1, <2>2
<1>6. Q = A \cup ({t} \X H) /\ A \cap ({t} \X H) = {}
  <2>1. ASSUME NEW x \in Q PROVE x \in A \/ x \in {t} \X H
    <3>1. x = <<x[1], x[2]>> /\ x[1] \in T /\ x[2] \in 1 .. Height(g, x[1]) /\ Item(g, x[1], x[2]) \in K
      BY EachIsPlace
    <3>2. CASE /\ x[2] \in 1 .. Height(f, x[1]) /\ (x[1] = t => x[2] <= b)
               /\ Item(g, x[1], x[2]) = Item(f, x[1], x[2])
      BY <3>1, <3>2, InPlaces
    <3>3. CASE /\ x[1] = t
               /\ \E i \in 1 .. Len(tasks) : x[2] = b + Len(tasks) + 1 - i /\ Item(g, x[1], x[2]) = tasks[i]
      <4>1. PICK i \in 1 .. Len(tasks) : x[2] = b + Len(tasks) + 1 - i /\ Item(g, x[1], x[2]) = tasks[i]
        BY <3>3
      <4>2. i \in J
        BY <3>1, <3>3, <4>1
      <4>4. x[2] = c - i
        BY <1>2, <4>1
      <4>3. x[2] \in H
        BY <4>2, <4>4
      <4> QED
        BY <3>1, <3>3, <4>3
    <3>4. \/ /\ x[2] \in 1 .. Height(f, x[1]) /\ (x[1] = t => x[2] <= b)
             /\ Item(g, x[1], x[2]) = Item(f, x[1], x[2])
          \/ /\ x[1] = t
             /\ \E i \in 1 .. Len(tasks) : x[2] = b + Len(tasks) + 1 - i /\ Item(g, x[1], x[2]) = tasks[i]
      <4> DEFINE u == x[1]
                 h == x[2]
      <4>1. u \in T /\ h \in 1 .. Height(g, u)
        BY <3>1
      <4> HIDE DEF Q, P, A, D, J, H, c, u, h
      <4>2. \/ h \in 1 .. Height(f, u) /\ (u = t => h <= b) /\ Item(g, u, h) = Item(f, u, h)
            \/ /\ u = t
               /\ \E i \in 1 .. Len(tasks) : h = b + Len(tasks) + 1 - i /\ Item(g, u, h) = tasks[i]
        BY <4>1, <1>0 DEF Comes
      <4> QED
        BY <4>2 DEF u, h
    <3> QED
      BY <3>2, <3>3, <3>4
  <2>2. ASSUME NEW x \in A PROVE x \in Q
    <3>1. x = <<x[1], x[2]>> /\ x[1] \in T /\ x[2] \in 1 .. Height(f, x[1]) /\ Item(f, x[1], x[2]) \in K
      BY EachIsPlace
    <3>2. x[1] = t => x[2] <= b
      OBVIOUS
    <3>3. x[2] \in 1 .. Height(g, x[1]) /\ Item(g, x[1], x[2]) = Item(f, x[1], x[2])
      <4> DEFINE u == x[1]
                 h == x[2]
      <4>1. u \in T /\ h \in 1 .. Height(f, u) /\ (u = t => h <= b)
        BY <3>1, <3>2
      <4> HIDE DEF Q, P, A, D, J, H, c, u, h
      <4>2. h \in 1 .. Height(g, u) /\ Item(g, u, h) = Item(f, u, h)
        BY <4>1, <1>0 DEF Stays
      <4> QED
        BY <4>2 DEF u, h
    <3> QED
      BY <3>1, <3>3, InPlaces
  <2>3. ASSUME NEW h \in H PROVE <<t, h>> \in Q /\ ~(h <= b)
    <3>1. PICK i \in 1 .. Len(tasks) : tasks[i] \in K /\ h = c - i
      OBVIOUS
    <3>2. h \in 1 .. Height(g, t) /\ ~(h <= b)
      BY <1>2, <3>1 DEF Pushed
    <3>3. Item(g, t, h) = tasks[i]
      BY <3>1 DEF Pushed
    <3> QED
      BY <3>1, <3>2, <3>3, InPlaces
  <2> QED
    BY <2>1, <2>2, <2>3
<1>7. IsFiniteSet(A)
  BY <1>1, FS_Subset
<1>8. /\ IsFiniteSet({t} \X D) /\ Cardinality({t} \X D) = Cardinality(D)
      /\ IsFiniteSet({t} \X H) /\ Cardinality({t} \X H) = Cardinality(H)
  <2> HIDE DEF D, H
  <2> QED
    BY <1>3, <1>4, Slice
<1>9. Cardinality({}) = 0
  BY FS_EmptySet
<1>10. /\ Cardinality(A) \in Nat /\ Cardinality(D) \in Nat /\ Cardinality(H) \in Nat
       /\ Cardinality(J) \in Nat
  BY <1>3, <1>4, <1>7, FS_CardinalityType
<1>11. Cardinality(P) = Cardinality(A) + Cardinality(D)
  <2> DEFINE S == {t} \X D
  <2>1. P = A \cup S /\ A \cap S = {} /\ IsFiniteSet(S) /\ Cardinality(S) = Cardinality(D)
    BY <1>5, <1>8
  <2> HIDE DEF P, A, D, S
  <2>2. Cardinality(A \cup S) = Cardinality(A) + Cardinality(S) - Cardinality(A \cap S)
    BY <1>7, <2>1, FS_Union
  <2>3. Cardinality(A \cap S) = 0
    BY <2>1, <1>9
  <2> QED
    BY <2>1, <2>2, <2>3, <1>10
<1>12. Cardinality(Q) = Cardinality(A) + Cardinality(H)
  <2> DEFINE S == {t} \X H
  <2>1. Q = A \cup S /\ A \cap S = {} /\ IsFiniteSet(S) /\ Cardinality(S) = Cardinality(H)
    BY <1>6, <1>8
  <2> HIDE DEF Q, A, H, S
  <2>2. Cardinality(A \cup S) = Cardinality(A) + Cardinality(S) - Cardinality(A \cap S)
    BY <1>7, <2>1, FS_Union
  <2>3. Cardinality(A \cap S) = 0
    BY <2>1, <1>9
  <2> QED
    BY <2>1, <2>2, <2>3, <1>10
<1>13. /\ Number(f, T, K) = Cardinality(P) /\ Number(g, T, K) = Cardinality(Q)
       /\ Dropped(f, t, b, K) = Cardinality(D) /\ Given(tasks, K) = Cardinality(J)
  BY DEF Number, Dropped, Given
<1> HIDE DEF P, Q, A, D, J, H
<1> QED
  BY <1>1, <1>4, <1>10, <1>11, <1>12, <1>13

\* No task of the kind is given,
LEMMA GivenNone ==
    ASSUME NEW tasks, NEW K, \A i \in 1 .. Len(tasks) : tasks[i] \notin K
    PROVE  Given(tasks, K) = 0
<1>1. {i \in 1 .. Len(tasks) : tasks[i] \in K} = {}
  OBVIOUS
<1> QED
  BY <1>1, FS_EmptySet DEF Given

\* or exactly one.
LEMMA GivenOne ==
    ASSUME NEW tasks, NEW K, NEW j \in 1 .. Len(tasks), tasks[j] \in K,
           \A i \in 1 .. Len(tasks) : i # j => tasks[i] \notin K
    PROVE  Given(tasks, K) = 1
<1>1. {i \in 1 .. Len(tasks) : tasks[i] \in K} = {j}
  OBVIOUS
<1> QED
  BY <1>1, FS_Singleton DEF Given

\* Of the first task alone,
LEMMA DroppedTop ==
    ASSUME NEW T, NEW E, NEW f \in [T -> Seq(E)], NEW t \in T, f[t] # <<>>, NEW K
    PROVE  Dropped(f, t, Height(f, t) - 1, K) = One(Item(f, t, Height(f, t)) \in K)
<1>1. Height(f, t) \in Nat /\ Height(f, t) > 0
  BY HeightIsNat
<1>2. Height(f, t) - 1 + 1 .. Height(f, t) = {Height(f, t)}
  BY <1>1
<1>3. {h \in Height(f, t) - 1 + 1 .. Height(f, t) : Item(f, t, h) \in K}
        = IF Item(f, t, Height(f, t)) \in K THEN {Height(f, t)} ELSE {}
  BY <1>2
<1> QED
  BY <1>3, FS_Singleton, FS_EmptySet DEF Dropped, One

\* or of nothing of the kind.
LEMMA DroppedNone ==
    ASSUME NEW f, NEW t, NEW b, NEW K, \A h \in b + 1 .. Height(f, t) : Item(f, t, h) \notin K
    PROVE  Dropped(f, t, b, K) = 0
<1>1. {h \in b + 1 .. Height(f, t) : Item(f, t, h) \in K} = {}
  OBVIOUS
<1> QED
  BY <1>1, FS_EmptySet DEF Dropped

-----------------------------------------------------------------------------
\* Thread t has these tasks instead of x; or, when it was idle, instead of nothing.
Replaces(t, x, tasks) ==
    \/ Do(t, x, tasks)
    \/ x = "nothing" /\ todo[t] = <<>> /\ todo' = [todo EXCEPT ![t] = tasks]

LEMMA ThreadsFinite == IsFiniteSet(ConnThreads)
<1>1. IsFiniteSet({User})
  BY FS_Singleton
<1> QED
  BY <1>1, ConnThreadsAssumption, FS_Union DEF ConnThreads

\* The stacks after it.
LEMMA ReplacesPushes ==
    ASSUME todo \in [ConnThreads -> Seq(Tasks)], NEW t \in ConnThreads, NEW x, NEW tasks \in Seq(Tasks),
           Replaces(t, x, tasks)
    PROVE  /\ todo' \in [ConnThreads -> Seq(Tasks)]
           /\ Height(todo, t) \in Nat
           /\ \/ /\ Height(todo, t) > 0 /\ Item(todo, t, Height(todo, t)) = x /\ todo[t] # <<>> /\ x \in Tasks
                 /\ Pushed(todo, todo', ConnThreads, t, Height(todo, t) - 1, tasks)
              \/ /\ Height(todo, t) = 0 /\ x = "nothing"
                 /\ Pushed(todo, todo', ConnThreads, t, 0, tasks)
<1>0. /\ Height(todo, t) \in Nat
      /\ \A h \in 1 .. Height(todo, t) : Item(todo, t, h) \in Tasks
      /\ todo[t] = <<>> <=> Height(todo, t) = 0
      /\ todo[t] # <<>> => Item(todo, t, Height(todo, t)) = Head(todo[t])
  BY HeightIsNat
<1>1. CASE Do(t, x, tasks)
  <2>1. todo[t] # <<>> /\ Head(todo[t]) = x /\ todo' = [todo EXCEPT ![t] = tasks \o Tail(todo[t])]
    BY <1>1 DEF Do
  <2>2. todo' \in [ConnThreads -> Seq(Tasks)] /\ Pushed(todo, todo', ConnThreads, t, Height(todo, t) - 1, tasks)
    BY <2>1, DoPushes
  <2>3. Height(todo, t) > 0 /\ Height(todo, t) \in 1 .. Height(todo, t)
    BY <1>0, <2>1
  <2> QED
    BY <1>0, <2>1, <2>2, <2>3
<1>2. CASE x = "nothing" /\ todo[t] = <<>> /\ todo' = [todo EXCEPT ![t] = tasks]
  <2>1. todo' \in [ConnThreads -> Seq(Tasks)] /\ Pushed(todo, todo', ConnThreads, t, 0, tasks)
    BY <1>2, NewPushes
  <2> QED
    BY <1>0, <1>2, <2>1
<1> QED
  BY <1>1, <1>2 DEF Replaces

\* A step of t leaves the lowest b of its tasks.
Leaves(t, x, tasks, b) ==
    /\ Pushed(todo, todo', ConnThreads, t, b, tasks) /\ todo' \in [ConnThreads -> Seq(Tasks)]
    /\ Height(todo, t) \in Nat
    /\ \/ b = Height(todo, t) - 1 /\ Height(todo, t) > 0 /\ Item(todo, t, Height(todo, t)) = x
       \/ b = 0 /\ Height(todo, t) = 0 /\ x = "nothing"

LEMMA SomeLeft ==
    ASSUME todo \in [ConnThreads -> Seq(Tasks)], NEW t \in ConnThreads, NEW x, NEW tasks \in Seq(Tasks),
           Replaces(t, x, tasks)
    PROVE  \E b \in Nat : Leaves(t, x, tasks, b)
<1>1. CASE Height(todo, t) > 0
  <2>1. Height(todo, t) - 1 \in Nat /\ Height(todo, t) # 0
    BY <1>1, ReplacesPushes
  <2>2. Leaves(t, x, tasks, Height(todo, t) - 1)
    BY <1>1, <2>1, ReplacesPushes DEF Leaves
  <2> QED
    BY <2>1, <2>2
<1>2. CASE ~(Height(todo, t) > 0)
  <2>1. Leaves(t, x, tasks, 0)
    BY <1>2, ReplacesPushes DEF Leaves
  <2> QED
    BY <2>1
<1> QED
  BY <1>1, <1>2

LEMMA Tally ==
    ASSUME todo \in [ConnThreads -> Seq(Tasks)], NEW t \in ConnThreads, NEW b, NEW tasks \in Seq(Tasks),
           Pushed(todo, todo', ConnThreads, t, b, tasks), todo' \in [ConnThreads -> Seq(Tasks)], NEW K
    PROVE  /\ Number(todo', ConnThreads, K) + Dropped(todo, t, b, K) = Number(todo, ConnThreads, K) + Given(tasks, K)
           /\ Number(todo', ConnThreads, K) \in Nat /\ Number(todo, ConnThreads, K) \in Nat
           /\ Dropped(todo, t, b, K) \in Nat /\ Given(tasks, K) \in Nat
<1>1. IsFiniteSet(ConnThreads)
  BY ThreadsFinite
<1> QED
  BY <1>1, Counted

\* Each count changes by what is taken and what is given.
LEMMA ReplacesCounts ==
    ASSUME todo \in [ConnThreads -> Seq(Tasks)], NEW t \in ConnThreads, NEW x, NEW tasks \in Seq(Tasks),
           Replaces(t, x, tasks), NEW K \in SUBSET Tasks
    PROVE  /\ Number(todo', ConnThreads, K) + One(x \in K) = Number(todo, ConnThreads, K) + Given(tasks, K)
           /\ Number(todo', ConnThreads, K) \in Nat /\ Number(todo, ConnThreads, K) \in Nat
<1>1. ASSUME NEW b, Pushed(todo, todo', ConnThreads, t, b, tasks), todo' \in [ConnThreads -> Seq(Tasks)]
      PROVE  /\ Number(todo', ConnThreads, K) + Dropped(todo, t, b, K) = Number(todo, ConnThreads, K) + Given(tasks, K)
             /\ Number(todo', ConnThreads, K) \in Nat /\ Number(todo, ConnThreads, K) \in Nat
  BY <1>1, Tally
<1>2. CASE /\ Height(todo, t) > 0 /\ Item(todo, t, Height(todo, t)) = x /\ todo[t] # <<>>
           /\ Pushed(todo, todo', ConnThreads, t, Height(todo, t) - 1, tasks)
  <2>1. Dropped(todo, t, Height(todo, t) - 1, K) = One(x \in K)
    BY <1>2, DroppedTop
  <2> QED
    BY <1>1, <1>2, <2>1, ReplacesPushes
<1>3. CASE /\ Height(todo, t) = 0 /\ x = "nothing"
           /\ Pushed(todo, todo', ConnThreads, t, 0, tasks)
  <2>1. Dropped(todo, t, 0, K) = 0
    BY <1>3, DroppedNone
  <2>2. One(x \in K) = 0
    BY <1>3 DEF One, Tasks
  <2> QED
    BY <1>1, <1>3, <2>1, <2>2, ReplacesPushes
<1> QED
  BY <1>2, <1>3, ReplacesPushes

\* The tasks that are given count so much.
Gives(tasks, h, w, i, l, a) ==
    /\ Given(tasks, HoldTasks) = h /\ Given(tasks, WaitTasks) = w /\ Given(tasks, {"init"}) = i
    /\ Given(tasks, {"last_out"}) = l /\ Given(tasks, AskTasks) = a

CountedTasks == HoldTasks \cup WaitTasks \cup AskTasks \cup {"last_out"}

LEMMA GivesNothing ==
    ASSUME NEW tasks, \A i \in 1 .. Len(tasks) : tasks[i] \notin CountedTasks
    PROVE  Gives(tasks, 0, 0, 0, 0, 0)
<1>1. \A K \in SUBSET CountedTasks : Given(tasks, K) = 0
  <2>1. ASSUME NEW K \in SUBSET CountedTasks PROVE Given(tasks, K) = 0
    <3>1. \A i \in 1 .. Len(tasks) : tasks[i] \notin K
      OBVIOUS
    <3> QED
      BY <3>1, GivenNone
  <2> QED
    BY <2>1
<1>2. {HoldTasks, WaitTasks, {"init"}, {"last_out"}, AskTasks} \subseteq SUBSET CountedTasks
  BY DEF CountedTasks, WaitTasks
<1> QED
  BY <1>1, <1>2 DEF Gives

\* When one of them is counted, it alone matters.
LEMMA GivesOne ==
    ASSUME NEW tasks, NEW j \in 1 .. Len(tasks), \A i \in 1 .. Len(tasks) : i # j => tasks[i] \notin CountedTasks
    PROVE  Gives(tasks, One(tasks[j] \in HoldTasks), One(tasks[j] \in WaitTasks), One(tasks[j] = "init"),
                 One(tasks[j] = "last_out"), One(tasks[j] \in AskTasks))
<1>1. ASSUME NEW K \in SUBSET CountedTasks PROVE Given(tasks, K) = One(tasks[j] \in K)
  <2>1. \A i \in 1 .. Len(tasks) : i # j => tasks[i] \notin K
    OBVIOUS
  <2>2. CASE tasks[j] \in K
    BY <2>1, <2>2, GivenOne DEF One
  <2>3. CASE tasks[j] \notin K
    <3>1. \A i \in 1 .. Len(tasks) : tasks[i] \notin K
      BY <2>1, <2>3
    <3> QED
      BY <2>3, <3>1, GivenNone DEF One
  <2> QED
    BY <2>2, <2>3
<1>2. /\ HoldTasks \in SUBSET CountedTasks /\ WaitTasks \in SUBSET CountedTasks /\ {"init"} \in SUBSET CountedTasks
      /\ {"last_out"} \in SUBSET CountedTasks /\ AskTasks \in SUBSET CountedTasks
  BY DEF CountedTasks, WaitTasks
<1>3. One(tasks[j] \in {"init"}) = One(tasks[j] = "init") /\ One(tasks[j] \in {"last_out"}) = One(tasks[j] = "last_out")
  BY DEF One
<1> HIDE DEF HoldTasks, WaitTasks, AskTasks, CountedTasks
<1>4. /\ Given(tasks, HoldTasks) = One(tasks[j] \in HoldTasks) /\ Given(tasks, WaitTasks) = One(tasks[j] \in WaitTasks)
      /\ Given(tasks, AskTasks) = One(tasks[j] \in AskTasks)
      /\ Given(tasks, {"init"}) = One(tasks[j] \in {"init"}) /\ Given(tasks, {"last_out"}) = One(tasks[j] \in {"last_out"})
  BY <1>1, <1>2
<1> QED
  BY <1>3, <1>4 DEF Gives

\* What becomes of the counts.
LEMMA Sums ==
    ASSUME ConnTypes, NEW t \in ConnThreads, NEW x, NEW tasks \in Seq(Tasks), Replaces(t, x, tasks),
           NEW h, NEW w, NEW i, NEW l, NEW a, Gives(tasks, h, w, i, l, a)
    PROVE  /\ HoldCount' + One(x \in HoldTasks) = HoldCount + h
           /\ WaitCount' + One(x \in WaitTasks) = WaitCount + w
           /\ InitCount' + One(x = "init") = InitCount + i
           /\ LastCount' + One(x = "last_out") = LastCount + l
           /\ AskCount' + One(x \in AskTasks) = AskCount + a
           /\ {HoldCount, WaitCount, InitCount, LastCount, AskCount} \subseteq Nat
           /\ {HoldCount', WaitCount', InitCount', LastCount', AskCount'} \subseteq Nat
<1>1. todo \in [ConnThreads -> Seq(Tasks)]
  BY DEF ConnTypes
<1>2. /\ HoldTasks \in SUBSET Tasks /\ WaitTasks \in SUBSET Tasks /\ AskTasks \in SUBSET Tasks
      /\ {"init"} \in SUBSET Tasks /\ {"last_out"} \in SUBSET Tasks
  BY DEF HoldTasks, WaitTasks, AskTasks, Tasks
<1>3. ASSUME NEW K \in SUBSET Tasks
      PROVE  /\ Number(todo', ConnThreads, K) + One(x \in K) = Number(todo, ConnThreads, K) + Given(tasks, K)
             /\ Number(todo', ConnThreads, K) \in Nat /\ Number(todo, ConnThreads, K) \in Nat
  BY <1>1, <1>3, ReplacesCounts
<1>4. One(x \in {"init"}) = One(x = "init") /\ One(x \in {"last_out"}) = One(x = "last_out")
  BY DEF One
<1>5. HoldCount' + One(x \in HoldTasks) = HoldCount + h /\ HoldCount \in Nat /\ HoldCount' \in Nat
  BY <1>2, <1>3 DEF HoldCount, Gives
<1>6. WaitCount' + One(x \in WaitTasks) = WaitCount + w /\ WaitCount \in Nat /\ WaitCount' \in Nat
  BY <1>2, <1>3 DEF WaitCount, Gives
<1>7. AskCount' + One(x \in AskTasks) = AskCount + a /\ AskCount \in Nat /\ AskCount' \in Nat
  BY <1>2, <1>3 DEF AskCount, Gives
<1>8. InitCount' + One(x = "init") = InitCount + i /\ InitCount \in Nat /\ InitCount' \in Nat
  BY <1>2, <1>3, <1>4 DEF InitCount, Gives
<1>9. LastCount' + One(x = "last_out") = LastCount + l /\ LastCount \in Nat /\ LastCount' \in Nat
  BY <1>2, <1>3, <1>4 DEF LastCount, Gives
<1> QED
  BY <1>5, <1>6, <1>7, <1>8, <1>9

-----------------------------------------------------------------------------
\* OnRecv and OnSend are the first task, or none.
OnFirst(tasks) == \A i \in 1 .. Len(tasks) : tasks[i] \in OnTasks =>
    i = 1 /\ \E j \in 2 .. Len(tasks) : tasks[j] = "unlock"

LEMMA RunningIs ==
    ASSUME NEW f \in [ConnThreads -> Seq(Tasks)]
    PROVE  {t \in ConnThreads : f[t] # <<>> /\ Head(f[t]) \in OnTasks}
             = {t \in ConnThreads : Height(f, t) > 0 /\ Item(f, t, Height(f, t)) \in OnTasks}
<1>1. ASSUME NEW t \in ConnThreads
      PROVE  f[t] # <<>> /\ Head(f[t]) \in OnTasks <=> Height(f, t) > 0 /\ Item(f, t, Height(f, t)) \in OnTasks
  <2>1. /\ Height(f, t) \in Nat /\ (f[t] = <<>> <=> Height(f, t) = 0)
        /\ f[t] # <<>> => Item(f, t, Height(f, t)) = Head(f[t])
    BY HeightIsNat
  <2> QED
    BY <2>1
<1> QED
  BY <1>1

\* They stay above the task that releases the connection.
LEMMA AboveKept ==
    ASSUME ConnTypes, Above, NEW t \in ConnThreads, NEW x, NEW tasks \in Seq(Tasks), Replaces(t, x, tasks),
           OnFirst(tasks)
    PROVE  Above'
<1>0. PICK b \in Nat : Leaves(t, x, tasks, b)
  BY SomeLeft DEF ConnTypes
<1>1. /\ b \in Nat /\ Pushed(todo, todo', ConnThreads, t, b, tasks) /\ todo' \in [ConnThreads -> Seq(Tasks)]
      /\ Height(todo, t) \in Nat /\ (b = Height(todo, t) - 1 \/ (b = 0 /\ Height(todo, t) = 0))
  BY <1>0 DEF Leaves
<1>2. Comes(todo, todo', ConnThreads, t, b, tasks) /\ Stays(todo, todo', ConnThreads, t, b)
  BY <1>1, Origin DEF ConnTypes
<1>3. ASSUME NEW u \in ConnThreads, NEW h \in 1 .. Height(todo', u), Item(todo', u, h) \in OnTasks
      PROVE  h = Height(todo', u) /\ \E k \in 1 .. h - 1 : Item(todo', u, k) = "unlock"
  <2>1. CASE h \in 1 .. Height(todo, u) /\ (u = t => h <= b) /\ Item(todo', u, h) = Item(todo, u, h)
    <3>1. h = Height(todo, u)
      BY <1>3, <2>1 DEF Above
    <3>2. PICK k \in 1 .. h - 1 : Item(todo, u, k) = "unlock"
      BY <1>3, <2>1 DEF Above
    <3>3. u # t
      BY <1>1, <2>1, <3>1
    <3>4. Height(todo', u) = Height(todo, u) /\ Item(todo', u, k) = Item(todo, u, k)
      BY <1>1, <3>3 DEF Pushed, Height, Item
    <3> QED
      BY <3>1, <3>2, <3>4
  <2>2. CASE u = t /\ h > b /\ h \in Nat
             /\ \E i \in 1 .. Len(tasks) : h = b + Len(tasks) + 1 - i /\ Item(todo', u, h) = tasks[i]
    <3>1. PICK i \in 1 .. Len(tasks) : h = b + Len(tasks) + 1 - i /\ Item(todo', u, h) = tasks[i]
      BY <2>2
    <3>2. i = 1
      BY <1>3, <3>1 DEF OnFirst
    <3>3. PICK j \in 2 .. Len(tasks) : tasks[j] = "unlock"
      BY <1>3, <3>1 DEF OnFirst
    <3>4. Len(tasks) \in Nat /\ j \in 1 .. Len(tasks)
      OBVIOUS
    <3>5. Height(todo', t) = b + Len(tasks) /\ Item(todo', t, b + Len(tasks) + 1 - j) = tasks[j]
      BY <1>1, <3>4 DEF Pushed
    <3>6. b + Len(tasks) + 1 - j \in 1 .. h - 1 /\ h = b + Len(tasks)
      BY <1>1, <3>1, <3>2, <3>4
    <3> QED
      BY <2>2, <3>3, <3>5, <3>6
  <2> QED
    BY <1>2, <2>1, <2>2 DEF Comes
<1> QED
  BY <1>3 DEF Above

\* And they run in the threads where they ran, but for t.
LEMMA RunningKept ==
    ASSUME ConnTypes, Above, NEW t \in ConnThreads, NEW x, NEW tasks \in Seq(Tasks), Replaces(t, x, tasks)
    PROVE  /\ Running' = (Running \ {t}) \cup (IF tasks # <<>> /\ tasks[1] \in OnTasks THEN {t} ELSE {})
           /\ t \in Running <=> x \in OnTasks
<1>0. PICK b \in Nat : Leaves(t, x, tasks, b)
  BY SomeLeft DEF ConnTypes
<1>1. /\ b \in Nat /\ Pushed(todo, todo', ConnThreads, t, b, tasks) /\ todo' \in [ConnThreads -> Seq(Tasks)]
      /\ Height(todo, t) \in Nat
      /\ \/ b = Height(todo, t) - 1 /\ Height(todo, t) > 0 /\ Item(todo, t, Height(todo, t)) = x
         \/ b = 0 /\ Height(todo, t) = 0 /\ x = "nothing"
  BY <1>0 DEF Leaves
<1>2. /\ Running = {u \in ConnThreads : Height(todo, u) > 0 /\ Item(todo, u, Height(todo, u)) \in OnTasks}
      /\ Running' = {u \in ConnThreads : Height(todo', u) > 0 /\ Item(todo', u, Height(todo', u)) \in OnTasks}
  BY <1>1, RunningIs DEF ConnTypes, Running, OnTasks
<1>3. \A u \in ConnThreads \ {t} : Height(todo', u) = Height(todo, u) /\ \A h : Item(todo', u, h) = Item(todo, u, h)
  BY <1>1 DEF Pushed, Height, Item
<1>4. Height(todo', t) > 0 /\ Item(todo', t, Height(todo', t)) \in OnTasks <=> tasks # <<>> /\ tasks[1] \in OnTasks
  <2>1. Height(todo', t) = b + Len(tasks) /\ Len(tasks) \in Nat
    BY <1>1 DEF Pushed
  <2>2. CASE tasks = <<>>
    <3>1. Height(todo', t) = b
      BY <1>1, <2>1, <2>2
    <3>2. ASSUME b > 0 PROVE Item(todo', t, b) = Item(todo, t, b) /\ b \in 1 .. Height(todo, t) /\ b # Height(todo, t)
      BY <1>1, <3>2 DEF Pushed
    <3> QED
      BY <1>1, <2>2, <3>1, <3>2 DEF Above
  <2>3. CASE tasks # <<>>
    <3>1. Len(tasks) > 0 /\ 1 \in 1 .. Len(tasks)
      BY <2>3, <2>1, EmptySeq
    <3>2. Item(todo', t, b + Len(tasks) + 1 - 1) = tasks[1]
      BY <1>1, <3>1 DEF Pushed
    <3>3. b + Len(tasks) + 1 - 1 = Height(todo', t) /\ Height(todo', t) > 0
      BY <1>1, <2>1, <3>1
    <3> QED
      BY <2>3, <3>2, <3>3
  <2> QED
    BY <2>2, <2>3
<1>5. t \in Running <=> x \in OnTasks
  <2>1. x = "nothing" => x \notin OnTasks
    BY DEF OnTasks
  <2> QED
    BY <1>1, <1>2, <2>1
<1> QED
  BY <1>2, <1>3, <1>4, <1>5

\* While OnRecv or OnSend runs, the connection is held.
LEMMA RunningHolds ==
    ASSUME ConnTypes, Above, NEW t \in Running
    PROVE  HoldCount > 0
<1>1. /\ t \in ConnThreads /\ todo \in [ConnThreads -> Seq(Tasks)]
      /\ Height(todo, t) > 0 /\ Item(todo, t, Height(todo, t)) \in OnTasks
  BY RunningIs DEF ConnTypes, Running, OnTasks
<1>2. Height(todo, t) \in 1 .. Height(todo, t) /\ Height(todo, t) \in Nat
  BY <1>1, HeightIsNat
<1>3. PICK k \in 1 .. Height(todo, t) - 1 : Item(todo, t, k) = "unlock"
  BY <1>1, <1>2 DEF Above
<1>4. k \in 1 .. Height(todo, t) /\ Item(todo, t, k) \in HoldTasks
  BY <1>2, <1>3 DEF HoldTasks
<1> QED
  BY <1>1, <1>4, ThreadsFinite, SomePlace DEF HoldCount

-----------------------------------------------------------------------------
\* Nothing that ConnectionSpec sees.
Quiet == Running' = Running /\ connections' = connections /\ disconnects' = disconnects

\* What a task weighs in the counts.
Weighs(x, h, w, i, l, a) ==
    /\ One(x \in HoldTasks) = h /\ One(x \in WaitTasks) = w /\ One(x = "init") = i
    /\ One(x = "last_out") = l /\ One(x \in AskTasks) = a

\* Tasks that a step may give.
Calm(tasks) == tasks = <<>> \/ tasks[1] \notin OnTasks
Fits(tasks, h, w, i, l, a) == tasks \in Seq(Tasks) /\ OnFirst(tasks) /\ Gives(tasks, h, w, i, l, a)

LEMMA Weights ==
    /\ \A x \in {"nothing", "read", "write", "end", "disconnect", "rundown", "onconnect", "onread", "onwrite",
                 "ondisconnect", "disconnected", "close_handle"} : Weighs(x, 0, 0, 0, 0, 0)
    /\ \A x \in HoldTasks : Weighs(x, 1, 0, 0, 0, 0)
    /\ \A x \in {"listen", "connect"} : Weighs(x, 0, 0, 0, 0, 1)
    /\ \A x \in {"post_listen", "not_connected"} : Weighs(x, 0, 1, 0, 0, 1)
    /\ Weighs("init", 0, 1, 1, 0, 0) /\ Weighs("last_out", 0, 0, 0, 1, 0)
BY DEF Weighs, One, HoldTasks, WaitTasks, AskTasks

\* What a step does to the counts.
Moved(h, w, i, l, a) ==
    /\ HoldCount' = HoldCount + h /\ WaitCount' = WaitCount + w /\ InitCount' = InitCount + i
    /\ LastCount' = LastCount + l /\ AskCount' = AskCount + a
    /\ HoldCount \in Nat /\ WaitCount \in Nat /\ InitCount \in Nat /\ LastCount \in Nat /\ AskCount \in Nat
    /\ HoldCount' \in Nat /\ WaitCount' \in Nat /\ InitCount' \in Nat /\ LastCount' \in Nat /\ AskCount' \in Nat

\* All of it together, for a step that replaces x.
LEMMA Replaced ==
    ASSUME ConnInv, NEW t \in ConnThreads, NEW x, NEW tasks, Replaces(t, x, tasks),
           NEW h \in Nat, NEW w \in Nat, NEW i \in Nat, NEW l \in Nat, NEW a \in Nat, Fits(tasks, h, w, i, l, a),
           NEW h0 \in Nat, NEW w0 \in Nat, NEW i0 \in Nat, NEW l0 \in Nat, NEW a0 \in Nat, Weighs(x, h0, w0, i0, l0, a0)
    PROVE  /\ Above' /\ todo' \in [ConnThreads -> Seq(Tasks)] /\ Moved(h - h0, w - w0, i - i0, l - l0, a - a0)
           /\ Running' = (Running \ {t}) \cup (IF Calm(tasks) THEN {} ELSE {t})
           /\ t \in Running <=> x \in OnTasks
<1>1. /\ ConnTypes /\ Above /\ todo \in [ConnThreads -> Seq(Tasks)]
      /\ tasks \in Seq(Tasks) /\ OnFirst(tasks) /\ Gives(tasks, h, w, i, l, a)
  BY DEF ConnInv, ConnTypes, Fits
<1>2. /\ HoldCount' + One(x \in HoldTasks) = HoldCount + h
      /\ WaitCount' + One(x \in WaitTasks) = WaitCount + w
      /\ InitCount' + One(x = "init") = InitCount + i
      /\ LastCount' + One(x = "last_out") = LastCount + l
      /\ AskCount' + One(x \in AskTasks) = AskCount + a
      /\ {HoldCount, WaitCount, InitCount, LastCount, AskCount} \subseteq Nat
      /\ {HoldCount', WaitCount', InitCount', LastCount', AskCount'} \subseteq Nat
  BY <1>1, Sums
<1>3. /\ HoldCount' + h0 = HoldCount + h /\ WaitCount' + w0 = WaitCount + w /\ InitCount' + i0 = InitCount + i
      /\ LastCount' + l0 = LastCount + l /\ AskCount' + a0 = AskCount + a
  BY <1>2 DEF Weighs
<1>4. /\ HoldCount \in Nat /\ WaitCount \in Nat /\ InitCount \in Nat /\ LastCount \in Nat /\ AskCount \in Nat
      /\ HoldCount' \in Nat /\ WaitCount' \in Nat /\ InitCount' \in Nat /\ LastCount' \in Nat /\ AskCount' \in Nat
  BY <1>2
<1> DEFINE p1 == HoldCount'  q1 == HoldCount  p2 == WaitCount'  q2 == WaitCount  p3 == InitCount'  q3 == InitCount
           p4 == LastCount'  q4 == LastCount  p5 == AskCount'   q5 == AskCount
<1>5. /\ p1 \in Nat /\ q1 \in Nat /\ p2 \in Nat /\ q2 \in Nat /\ p3 \in Nat /\ q3 \in Nat
      /\ p4 \in Nat /\ q4 \in Nat /\ p5 \in Nat /\ q5 \in Nat
      /\ p1 + h0 = q1 + h /\ p2 + w0 = q2 + w /\ p3 + i0 = q3 + i /\ p4 + l0 = q4 + l /\ p5 + a0 = q5 + a
  BY <1>3, <1>4
<1> HIDE DEF p1, q1, p2, q2, p3, q3, p4, q4, p5, q5
<1>6. p1 = q1 + (h - h0) /\ p2 = q2 + (w - w0) /\ p3 = q3 + (i - i0) /\ p4 = q4 + (l - l0) /\ p5 = q5 + (a - a0)
  BY <1>5
<1>7. Moved(h - h0, w - w0, i - i0, l - l0, a - a0)
  BY <1>4, <1>6 DEF Moved, p1, q1, p2, q2, p3, q3, p4, q4, p5, q5
<1>8. Above' /\ todo' \in [ConnThreads -> Seq(Tasks)]
  BY <1>1, AboveKept, ReplacesPushes
<1>9. /\ Running' = (Running \ {t}) \cup (IF tasks # <<>> /\ tasks[1] \in OnTasks THEN {t} ELSE {})
      /\ t \in Running <=> x \in OnTasks
  BY <1>1, RunningKept
<1>10. Calm(tasks) <=> ~(tasks # <<>> /\ tasks[1] \in OnTasks)
  BY DEF Calm
<1> QED
  BY <1>7, <1>8, <1>9, <1>10

\* When neither x nor the first new task is OnRecv or OnSend, these run on.
LEMMA RunsOn ==
    ASSUME ConnInv, NEW t \in ConnThreads, NEW x, NEW tasks, Replaces(t, x, tasks), x \notin OnTasks, Calm(tasks),
           NEW h \in Nat, NEW w \in Nat, NEW i \in Nat, NEW l \in Nat, NEW a \in Nat, Fits(tasks, h, w, i, l, a),
           NEW h0 \in Nat, NEW w0 \in Nat, NEW i0 \in Nat, NEW l0 \in Nat, NEW a0 \in Nat, Weighs(x, h0, w0, i0, l0, a0)
    PROVE  /\ Above' /\ todo' \in [ConnThreads -> Seq(Tasks)] /\ Moved(h - h0, w - w0, i - i0, l - l0, a - a0)
           /\ Running' = Running
<1>1. /\ Above' /\ todo' \in [ConnThreads -> Seq(Tasks)] /\ Moved(h - h0, w - w0, i - i0, l - l0, a - a0)
      /\ Running' = (Running \ {t}) \cup (IF Calm(tasks) THEN {} ELSE {t})
      /\ t \in Running <=> x \in OnTasks
  BY Replaced
<1> QED
  BY <1>1

\* No tasks, and a single one.
LEMMA NoTasks == Fits(<<>>, 0, 0, 0, 0, 0) /\ Calm(<<>>)
<1>1. <<>> \in Seq(Tasks) /\ \A i \in 1 .. Len(<<>>) : FALSE
  OBVIOUS
<1>2. Gives(<<>>, 0, 0, 0, 0, 0)
  BY <1>1, GivesNothing
<1> QED
  BY <1>1, <1>2 DEF OnFirst, Calm, Fits

LEMMA OneTask ==
    ASSUME NEW y \in Tasks, y \notin OnTasks, NEW h, NEW w, NEW i, NEW l, NEW a, Weighs(y, h, w, i, l, a)
    PROVE  Fits(<<y>>, h, w, i, l, a) /\ Calm(<<y>>)
<1> DEFINE s == <<y>>
<1>1. s \in Seq(Tasks) /\ Len(s) = 1 /\ s[1] = y /\ 1 \in 1 .. Len(s)
  OBVIOUS
<1> HIDE DEF s
<1>2. \A k \in 1 .. Len(s) : 1 # k => s[k] \notin CountedTasks
  BY <1>1
<1>3. Gives(s, One(s[1] \in HoldTasks), One(s[1] \in WaitTasks), One(s[1] = "init"), One(s[1] = "last_out"), One(s[1] \in AskTasks))
  BY <1>1, <1>2, GivesOne
<1>4. OnFirst(s) /\ Calm(s) /\ Gives(s, h, w, i, l, a)
  BY <1>1, <1>3 DEF OnFirst, Weighs, Calm
<1> QED
  BY <1>1, <1>4 DEF s, Fits

\* The numbers are numbers.
LEMMA IrpsTyped ==
    ASSUME NEW f \in [Requests -> Nat]
    PROVE  /\ f["listen"] \in Nat /\ f["read"] \in Nat /\ f["write"] \in Nat /\ f["disc"] \in Nat
           /\ f["accepted"] \in Nat /\ f["got"] \in Nat
BY DEF Requests

-----------------------------------------------------------------------------
\* The tasks that the functions give.
LEMMA CloseTcp == Fits(<<"end", "close_handle">>, 0, 0, 0, 0, 0) /\ Calm(<<"end", "close_handle">>)
<1> DEFINE s == <<"end", "close_handle">>
<1>1. s \in Seq(Tasks) /\ Len(s) = 2 /\ s[1] = "end" /\ s[2] = "close_handle"
  BY DEF Tasks
<1> HIDE DEF s
<1>2. 1 \in 1 .. Len(s) /\ 2 \in 1 .. Len(s)
  BY <1>1
<1>3. \A k \in 1 .. Len(s) : k = 1 \/ k = 2
  BY <1>1
<1>4. \A k \in 1 .. Len(s) : s[k] \notin CountedTasks
  BY <1>1, <1>3 DEF CountedTasks, HoldTasks, WaitTasks, AskTasks
<1>5. Gives(s, 0, 0, 0, 0, 0)
  BY <1>4, GivesNothing
<1>7. OnFirst(s) /\ Calm(s)
  BY <1>1, <1>3 DEF OnFirst, OnTasks, Calm
<1> QED
  BY <1>1, <1>5, <1>7 DEF Fits, s

LEMMA ClosePipe == Fits(<<"close_handle", "end">>, 0, 0, 0, 0, 0) /\ Calm(<<"close_handle", "end">>)
<1> DEFINE s == <<"close_handle", "end">>
<1>1. s \in Seq(Tasks) /\ Len(s) = 2 /\ s[1] = "close_handle" /\ s[2] = "end"
  BY DEF Tasks
<1> HIDE DEF s
<1>2. 1 \in 1 .. Len(s) /\ 2 \in 1 .. Len(s)
  BY <1>1
<1>3. \A k \in 1 .. Len(s) : k = 1 \/ k = 2
  BY <1>1
<1>4. \A k \in 1 .. Len(s) : s[k] \notin CountedTasks
  BY <1>1, <1>3 DEF CountedTasks, HoldTasks, WaitTasks, AskTasks
<1>5. Gives(s, 0, 0, 0, 0, 0)
  BY <1>4, GivesNothing
<1>7. OnFirst(s) /\ Calm(s)
  BY <1>1, <1>3 DEF OnFirst, OnTasks, Calm
<1> QED
  BY <1>1, <1>5, <1>7 DEF Fits, s

LEMMA EndTasks == Fits(<<"rundown", "unlock">>, 1, 0, 0, 0, 0) /\ Calm(<<"rundown", "unlock">>)
<1> DEFINE s == <<"rundown", "unlock">>
<1>1. s \in Seq(Tasks) /\ Len(s) = 2 /\ s[1] = "rundown" /\ s[2] = "unlock"
  BY DEF Tasks
<1> HIDE DEF s
<1>2. 1 \in 1 .. Len(s) /\ 2 \in 1 .. Len(s)
  BY <1>1
<1>3. \A k \in 1 .. Len(s) : k = 1 \/ k = 2
  BY <1>1
<1>4. \A k \in 1 .. Len(s) : 2 # k => s[k] \notin CountedTasks
  BY <1>1, <1>3 DEF CountedTasks, HoldTasks, WaitTasks, AskTasks
<1>5. Gives(s, One(s[2] \in HoldTasks), One(s[2] \in WaitTasks), One(s[2] = "init"), One(s[2] = "last_out"), One(s[2] \in AskTasks))
  BY <1>2, <1>4, GivesOne
<1>6. Weighs(s[2], 1, 0, 0, 0, 0)
  BY <1>1, Weights DEF HoldTasks
<1>7. OnFirst(s) /\ Calm(s)
  BY <1>1, <1>3 DEF OnFirst, OnTasks, Calm
<1> QED
  BY <1>1, <1>5, <1>6, <1>7 DEF Fits, Gives, Weighs, s

LEMMA OnceTasks == Fits(<<"rundown", "once">>, 1, 0, 0, 0, 0) /\ Calm(<<"rundown", "once">>)
<1> DEFINE s == <<"rundown", "once">>
<1>1. s \in Seq(Tasks) /\ Len(s) = 2 /\ s[1] = "rundown" /\ s[2] = "once"
  BY DEF Tasks
<1> HIDE DEF s
<1>2. 1 \in 1 .. Len(s) /\ 2 \in 1 .. Len(s)
  BY <1>1
<1>3. \A k \in 1 .. Len(s) : k = 1 \/ k = 2
  BY <1>1
<1>4. \A k \in 1 .. Len(s) : 2 # k => s[k] \notin CountedTasks
  BY <1>1, <1>3 DEF CountedTasks, HoldTasks, WaitTasks, AskTasks
<1>5. Gives(s, One(s[2] \in HoldTasks), One(s[2] \in WaitTasks), One(s[2] = "init"), One(s[2] = "last_out"), One(s[2] \in AskTasks))
  BY <1>2, <1>4, GivesOne
<1>6. Weighs(s[2], 1, 0, 0, 0, 0)
  BY <1>1, Weights DEF HoldTasks
<1>7. OnFirst(s) /\ Calm(s)
  BY <1>1, <1>3 DEF OnFirst, OnTasks, Calm
<1> QED
  BY <1>1, <1>5, <1>6, <1>7 DEF Fits, Gives, Weighs, s

LEMMA NewConnection == Fits(<<"init", "onconnect">>, 0, 1, 1, 0, 0) /\ Calm(<<"init", "onconnect">>)
<1> DEFINE s == <<"init", "onconnect">>
<1>1. s \in Seq(Tasks) /\ Len(s) = 2 /\ s[1] = "init" /\ s[2] = "onconnect"
  BY DEF Tasks
<1> HIDE DEF s
<1>2. 1 \in 1 .. Len(s) /\ 2 \in 1 .. Len(s)
  BY <1>1
<1>3. \A k \in 1 .. Len(s) : k = 1 \/ k = 2
  BY <1>1
<1>4. \A k \in 1 .. Len(s) : 1 # k => s[k] \notin CountedTasks
  BY <1>1, <1>3 DEF CountedTasks, HoldTasks, WaitTasks, AskTasks
<1>5. Gives(s, One(s[1] \in HoldTasks), One(s[1] \in WaitTasks), One(s[1] = "init"), One(s[1] = "last_out"), One(s[1] \in AskTasks))
  BY <1>2, <1>4, GivesOne
<1>6. Weighs(s[1], 0, 1, 1, 0, 0)
  BY <1>1, Weights DEF HoldTasks
<1>7. OnFirst(s) /\ Calm(s)
  BY <1>1, <1>3 DEF OnFirst, OnTasks, Calm
<1> QED
  BY <1>1, <1>5, <1>6, <1>7 DEF Fits, Gives, Weighs, s

LEMMA EndRelease == Fits(<<"end", "unlock">>, 1, 0, 0, 0, 0) /\ Calm(<<"end", "unlock">>)
<1> DEFINE s == <<"end", "unlock">>
<1>1. s \in Seq(Tasks) /\ Len(s) = 2 /\ s[1] = "end" /\ s[2] = "unlock"
  BY DEF Tasks
<1> HIDE DEF s
<1>2. 1 \in 1 .. Len(s) /\ 2 \in 1 .. Len(s)
  BY <1>1
<1>3. \A k \in 1 .. Len(s) : k = 1 \/ k = 2
  BY <1>1
<1>4. \A k \in 1 .. Len(s) : 2 # k => s[k] \notin CountedTasks
  BY <1>1, <1>3 DEF CountedTasks, HoldTasks, WaitTasks, AskTasks
<1>5. Gives(s, One(s[2] \in HoldTasks), One(s[2] \in WaitTasks), One(s[2] = "init"), One(s[2] = "last_out"), One(s[2] \in AskTasks))
  BY <1>2, <1>4, GivesOne
<1>6. Weighs(s[2], 1, 0, 0, 0, 0)
  BY <1>1, Weights DEF HoldTasks
<1>7. OnFirst(s) /\ Calm(s)
  BY <1>1, <1>3 DEF OnFirst, OnTasks, Calm
<1> QED
  BY <1>1, <1>5, <1>6, <1>7 DEF Fits, Gives, Weighs, s

LEMMA DisconnectRelease == Fits(<<"disconnect", "unlock">>, 1, 0, 0, 0, 0) /\ Calm(<<"disconnect", "unlock">>)
<1> DEFINE s == <<"disconnect", "unlock">>
<1>1. s \in Seq(Tasks) /\ Len(s) = 2 /\ s[1] = "disconnect" /\ s[2] = "unlock"
  BY DEF Tasks
<1> HIDE DEF s
<1>2. 1 \in 1 .. Len(s) /\ 2 \in 1 .. Len(s)
  BY <1>1
<1>3. \A k \in 1 .. Len(s) : k = 1 \/ k = 2
  BY <1>1
<1>4. \A k \in 1 .. Len(s) : 2 # k => s[k] \notin CountedTasks
  BY <1>1, <1>3 DEF CountedTasks, HoldTasks, WaitTasks, AskTasks
<1>5. Gives(s, One(s[2] \in HoldTasks), One(s[2] \in WaitTasks), One(s[2] = "init"), One(s[2] = "last_out"), One(s[2] \in AskTasks))
  BY <1>2, <1>4, GivesOne
<1>6. Weighs(s[2], 1, 0, 0, 0, 0)
  BY <1>1, Weights DEF HoldTasks
<1>7. OnFirst(s) /\ Calm(s)
  BY <1>1, <1>3 DEF OnFirst, OnTasks, Calm
<1> QED
  BY <1>1, <1>5, <1>6, <1>7 DEF Fits, Gives, Weighs, s

LEMMA CloseRelease == Fits(<<"close_handle", "end", "unlock">>, 1, 0, 0, 0, 0) /\ Calm(<<"close_handle", "end", "unlock">>)
<1> DEFINE s == <<"close_handle", "end", "unlock">>
<1>1. s \in Seq(Tasks) /\ Len(s) = 3 /\ s[1] = "close_handle" /\ s[2] = "end" /\ s[3] = "unlock"
  BY DEF Tasks
<1> HIDE DEF s
<1>2. 1 \in 1 .. Len(s) /\ 2 \in 1 .. Len(s) /\ 3 \in 1 .. Len(s)
  BY <1>1
<1>3. \A k \in 1 .. Len(s) : k = 1 \/ k = 2 \/ k = 3
  BY <1>1
<1>4. \A k \in 1 .. Len(s) : 3 # k => s[k] \notin CountedTasks
  BY <1>1, <1>3 DEF CountedTasks, HoldTasks, WaitTasks, AskTasks
<1>5. Gives(s, One(s[3] \in HoldTasks), One(s[3] \in WaitTasks), One(s[3] = "init"), One(s[3] = "last_out"), One(s[3] \in AskTasks))
  BY <1>2, <1>4, GivesOne
<1>6. Weighs(s[3], 1, 0, 0, 0, 0)
  BY <1>1, Weights DEF HoldTasks
<1>7. OnFirst(s) /\ Calm(s)
  BY <1>1, <1>3 DEF OnFirst, OnTasks, Calm
<1> QED
  BY <1>1, <1>5, <1>6, <1>7 DEF Fits, Gives, Weighs, s

LEMMA DiscRelease == Fits(<<"disconnected", "unlock">>, 1, 0, 0, 0, 0) /\ Calm(<<"disconnected", "unlock">>)
<1> DEFINE s == <<"disconnected", "unlock">>
<1>1. s \in Seq(Tasks) /\ Len(s) = 2 /\ s[1] = "disconnected" /\ s[2] = "unlock"
  BY DEF Tasks
<1> HIDE DEF s
<1>2. 1 \in 1 .. Len(s) /\ 2 \in 1 .. Len(s)
  BY <1>1
<1>3. \A k \in 1 .. Len(s) : k = 1 \/ k = 2
  BY <1>1
<1>4. \A k \in 1 .. Len(s) : 2 # k => s[k] \notin CountedTasks
  BY <1>1, <1>3 DEF CountedTasks, HoldTasks, WaitTasks, AskTasks
<1>5. Gives(s, One(s[2] \in HoldTasks), One(s[2] \in WaitTasks), One(s[2] = "init"), One(s[2] = "last_out"), One(s[2] \in AskTasks))
  BY <1>2, <1>4, GivesOne
<1>6. Weighs(s[2], 1, 0, 0, 0, 0)
  BY <1>1, Weights DEF HoldTasks
<1>7. OnFirst(s) /\ Calm(s)
  BY <1>1, <1>3 DEF OnFirst, OnTasks, Calm
<1> QED
  BY <1>1, <1>5, <1>6, <1>7 DEF Fits, Gives, Weighs, s

LEMMA DiscCloseRelease == Fits(<<"close_handle", "disconnected", "unlock">>, 1, 0, 0, 0, 0) /\ Calm(<<"close_handle", "disconnected", "unlock">>)
<1> DEFINE s == <<"close_handle", "disconnected", "unlock">>
<1>1. s \in Seq(Tasks) /\ Len(s) = 3 /\ s[1] = "close_handle" /\ s[2] = "disconnected" /\ s[3] = "unlock"
  BY DEF Tasks
<1> HIDE DEF s
<1>2. 1 \in 1 .. Len(s) /\ 2 \in 1 .. Len(s) /\ 3 \in 1 .. Len(s)
  BY <1>1
<1>3. \A k \in 1 .. Len(s) : k = 1 \/ k = 2 \/ k = 3
  BY <1>1
<1>4. \A k \in 1 .. Len(s) : 3 # k => s[k] \notin CountedTasks
  BY <1>1, <1>3 DEF CountedTasks, HoldTasks, WaitTasks, AskTasks
<1>5. Gives(s, One(s[3] \in HoldTasks), One(s[3] \in WaitTasks), One(s[3] = "init"), One(s[3] = "last_out"), One(s[3] \in AskTasks))
  BY <1>2, <1>4, GivesOne
<1>6. Weighs(s[3], 1, 0, 0, 0, 0)
  BY <1>1, Weights DEF HoldTasks
<1>7. OnFirst(s) /\ Calm(s)
  BY <1>1, <1>3 DEF OnFirst, OnTasks, Calm
<1> QED
  BY <1>1, <1>5, <1>6, <1>7 DEF Fits, Gives, Weighs, s

LEMMA OnReadRelease == Fits(<<"onread", "unlock">>, 1, 0, 0, 0, 0) /\ ~Calm(<<"onread", "unlock">>)
<1> DEFINE s == <<"onread", "unlock">>
<1>1. s \in Seq(Tasks) /\ Len(s) = 2 /\ s[1] = "onread" /\ s[2] = "unlock"
  BY DEF Tasks
<1> HIDE DEF s
<1>2. 1 \in 1 .. Len(s) /\ 2 \in 1 .. Len(s)
  BY <1>1
<1>3. \A k \in 1 .. Len(s) : k = 1 \/ k = 2
  BY <1>1
<1>4. \A k \in 1 .. Len(s) : 2 # k => s[k] \notin CountedTasks
  BY <1>1, <1>3 DEF CountedTasks, HoldTasks, WaitTasks, AskTasks
<1>5. Gives(s, One(s[2] \in HoldTasks), One(s[2] \in WaitTasks), One(s[2] = "init"), One(s[2] = "last_out"), One(s[2] \in AskTasks))
  BY <1>2, <1>4, GivesOne
<1>6. Weighs(s[2], 1, 0, 0, 0, 0)
  BY <1>1, Weights DEF HoldTasks
<1>7. OnFirst(s) /\ ~Calm(s)
  <2>1. 2 \in 2 .. Len(s) /\ s # <<>>
    BY <1>1
  <2> QED
    BY <1>1, <1>3, <2>1 DEF OnFirst, OnTasks, Calm
<1> QED
  BY <1>1, <1>5, <1>6, <1>7 DEF Fits, Gives, Weighs, s

LEMMA OnWriteRelease == Fits(<<"onwrite", "unlock">>, 1, 0, 0, 0, 0) /\ ~Calm(<<"onwrite", "unlock">>)
<1> DEFINE s == <<"onwrite", "unlock">>
<1>1. s \in Seq(Tasks) /\ Len(s) = 2 /\ s[1] = "onwrite" /\ s[2] = "unlock"
  BY DEF Tasks
<1> HIDE DEF s
<1>2. 1 \in 1 .. Len(s) /\ 2 \in 1 .. Len(s)
  BY <1>1
<1>3. \A k \in 1 .. Len(s) : k = 1 \/ k = 2
  BY <1>1
<1>4. \A k \in 1 .. Len(s) : 2 # k => s[k] \notin CountedTasks
  BY <1>1, <1>3 DEF CountedTasks, HoldTasks, WaitTasks, AskTasks
<1>5. Gives(s, One(s[2] \in HoldTasks), One(s[2] \in WaitTasks), One(s[2] = "init"), One(s[2] = "last_out"), One(s[2] \in AskTasks))
  BY <1>2, <1>4, GivesOne
<1>6. Weighs(s[2], 1, 0, 0, 0, 0)
  BY <1>1, Weights DEF HoldTasks
<1>7. OnFirst(s) /\ ~Calm(s)
  <2>1. 2 \in 2 .. Len(s) /\ s # <<>>
    BY <1>1
  <2> QED
    BY <1>1, <1>3, <2>1 DEF OnFirst, OnTasks, Calm
<1> QED
  BY <1>1, <1>5, <1>6, <1>7 DEF Fits, Gives, Weighs, s

LEMMA OnWriteEnd == Fits(<<"onwrite", "end", "unlock">>, 1, 0, 0, 0, 0) /\ ~Calm(<<"onwrite", "end", "unlock">>)
<1> DEFINE s == <<"onwrite", "end", "unlock">>
<1>1. s \in Seq(Tasks) /\ Len(s) = 3 /\ s[1] = "onwrite" /\ s[2] = "end" /\ s[3] = "unlock"
  BY DEF Tasks
<1> HIDE DEF s
<1>2. 1 \in 1 .. Len(s) /\ 2 \in 1 .. Len(s) /\ 3 \in 1 .. Len(s)
  BY <1>1
<1>3. \A k \in 1 .. Len(s) : k = 1 \/ k = 2 \/ k = 3
  BY <1>1
<1>4. \A k \in 1 .. Len(s) : 3 # k => s[k] \notin CountedTasks
  BY <1>1, <1>3 DEF CountedTasks, HoldTasks, WaitTasks, AskTasks
<1>5. Gives(s, One(s[3] \in HoldTasks), One(s[3] \in WaitTasks), One(s[3] = "init"), One(s[3] = "last_out"), One(s[3] \in AskTasks))
  BY <1>2, <1>4, GivesOne
<1>6. Weighs(s[3], 1, 0, 0, 0, 0)
  BY <1>1, Weights DEF HoldTasks
<1>7. OnFirst(s) /\ ~Calm(s)
  <2>1. 3 \in 2 .. Len(s) /\ s # <<>>
    BY <1>1
  <2> QED
    BY <1>1, <1>3, <2>1 DEF OnFirst, OnTasks, Calm
<1> QED
  BY <1>1, <1>5, <1>6, <1>7 DEF Fits, Gives, Weighs, s

LEMMA OnWriteDisconnect == Fits(<<"onwrite", "disconnect", "unlock">>, 1, 0, 0, 0, 0) /\ ~Calm(<<"onwrite", "disconnect", "unlock">>)
<1> DEFINE s == <<"onwrite", "disconnect", "unlock">>
<1>1. s \in Seq(Tasks) /\ Len(s) = 3 /\ s[1] = "onwrite" /\ s[2] = "disconnect" /\ s[3] = "unlock"
  BY DEF Tasks
<1> HIDE DEF s
<1>2. 1 \in 1 .. Len(s) /\ 2 \in 1 .. Len(s) /\ 3 \in 1 .. Len(s)
  BY <1>1
<1>3. \A k \in 1 .. Len(s) : k = 1 \/ k = 2 \/ k = 3
  BY <1>1
<1>4. \A k \in 1 .. Len(s) : 3 # k => s[k] \notin CountedTasks
  BY <1>1, <1>3 DEF CountedTasks, HoldTasks, WaitTasks, AskTasks
<1>5. Gives(s, One(s[3] \in HoldTasks), One(s[3] \in WaitTasks), One(s[3] = "init"), One(s[3] = "last_out"), One(s[3] \in AskTasks))
  BY <1>2, <1>4, GivesOne
<1>6. Weighs(s[3], 1, 0, 0, 0, 0)
  BY <1>1, Weights DEF HoldTasks
<1>7. OnFirst(s) /\ ~Calm(s)
  <2>1. 3 \in 2 .. Len(s) /\ s # <<>>
    BY <1>1
  <2> QED
    BY <1>1, <1>3, <2>1 DEF OnFirst, OnTasks, Calm
<1> QED
  BY <1>1, <1>5, <1>6, <1>7 DEF Fits, Gives, Weighs, s

LEMMA OnWriteRundown == Fits(<<"onwrite", "rundown", "unlock">>, 1, 0, 0, 0, 0) /\ ~Calm(<<"onwrite", "rundown", "unlock">>)
<1> DEFINE s == <<"onwrite", "rundown", "unlock">>
<1>1. s \in Seq(Tasks) /\ Len(s) = 3 /\ s[1] = "onwrite" /\ s[2] = "rundown" /\ s[3] = "unlock"
  BY DEF Tasks
<1> HIDE DEF s
<1>2. 1 \in 1 .. Len(s) /\ 2 \in 1 .. Len(s) /\ 3 \in 1 .. Len(s)
  BY <1>1
<1>3. \A k \in 1 .. Len(s) : k = 1 \/ k = 2 \/ k = 3
  BY <1>1
<1>4. \A k \in 1 .. Len(s) : 3 # k => s[k] \notin CountedTasks
  BY <1>1, <1>3 DEF CountedTasks, HoldTasks, WaitTasks, AskTasks
<1>5. Gives(s, One(s[3] \in HoldTasks), One(s[3] \in WaitTasks), One(s[3] = "init"), One(s[3] = "last_out"), One(s[3] \in AskTasks))
  BY <1>2, <1>4, GivesOne
<1>6. Weighs(s[3], 1, 0, 0, 0, 0)
  BY <1>1, Weights DEF HoldTasks
<1>7. OnFirst(s) /\ ~Calm(s)
  <2>1. 3 \in 2 .. Len(s) /\ s # <<>>
    BY <1>1
  <2> QED
    BY <1>1, <1>3, <2>1 DEF OnFirst, OnTasks, Calm
<1> QED
  BY <1>1, <1>5, <1>6, <1>7 DEF Fits, Gives, Weighs, s

LEMMA OnWriteClose == Fits(<<"onwrite", "close_handle", "end", "unlock">>, 1, 0, 0, 0, 0) /\ ~Calm(<<"onwrite", "close_handle", "end", "unlock">>)
<1> DEFINE s == <<"onwrite", "close_handle", "end", "unlock">>
<1>1. s \in Seq(Tasks) /\ Len(s) = 4 /\ s[1] = "onwrite" /\ s[2] = "close_handle" /\ s[3] = "end" /\ s[4] = "unlock"
  BY DEF Tasks
<1> HIDE DEF s
<1>2. 1 \in 1 .. Len(s) /\ 2 \in 1 .. Len(s) /\ 3 \in 1 .. Len(s) /\ 4 \in 1 .. Len(s)
  BY <1>1
<1>3. \A k \in 1 .. Len(s) : k = 1 \/ k = 2 \/ k = 3 \/ k = 4
  BY <1>1
<1>4. \A k \in 1 .. Len(s) : 4 # k => s[k] \notin CountedTasks
  BY <1>1, <1>3 DEF CountedTasks, HoldTasks, WaitTasks, AskTasks
<1>5. Gives(s, One(s[4] \in HoldTasks), One(s[4] \in WaitTasks), One(s[4] = "init"), One(s[4] = "last_out"), One(s[4] \in AskTasks))
  BY <1>2, <1>4, GivesOne
<1>6. Weighs(s[4], 1, 0, 0, 0, 0)
  BY <1>1, Weights DEF HoldTasks
<1>7. OnFirst(s) /\ ~Calm(s)
  <2>1. 4 \in 2 .. Len(s) /\ s # <<>>
    BY <1>1
  <2> QED
    BY <1>1, <1>3, <2>1 DEF OnFirst, OnTasks, Calm
<1> QED
  BY <1>1, <1>5, <1>6, <1>7 DEF Fits, Gives, Weighs, s

\* Of a request that is over: with a callback, or without.
CalmReleases ==
    {<<"end", "unlock">>,
     <<"disconnect", "unlock">>,
     <<"rundown", "unlock">>,
     <<"close_handle", "end", "unlock">>,
     <<"disconnected", "unlock">>,
     <<"close_handle", "disconnected", "unlock">>}
CallReleases ==
    {<<"onread", "unlock">>,
     <<"onwrite", "unlock">>,
     <<"onwrite", "end", "unlock">>,
     <<"onwrite", "disconnect", "unlock">>,
     <<"onwrite", "rundown", "unlock">>,
     <<"onwrite", "close_handle", "end", "unlock">>}

LEMMA Releases ==
    /\ \A s \in CalmReleases : Fits(s, 1, 0, 0, 0, 0) /\ Calm(s)
    /\ \A s \in CallReleases : Fits(s, 1, 0, 0, 0, 0) /\ ~Calm(s)
BY EndRelease, DisconnectRelease, EndTasks, CloseRelease, DiscRelease, DiscCloseRelease, OnReadRelease, OnWriteRelease, OnWriteEnd, OnWriteDisconnect, OnWriteRundown, OnWriteClose
   DEF CalmReleases, CallReleases

\* u is t behind the tasks of s.
Front(s, t, u, S) ==
    /\ s \in Seq(S) /\ t \in Seq(S) /\ u \in Seq(S) /\ Len(u) = Len(s) + Len(t)
    /\ \A i \in 1 .. Len(s) : u[i] = s[i]
    /\ \A i \in 1 .. Len(t) : u[Len(s) + i] = t[i]

LEMMA Joined ==
    ASSUME NEW S, NEW s, NEW t, NEW u, Front(s, t, u, S)
    PROVE  s \o t = u
<1>0. /\ s \in Seq(S) /\ t \in Seq(S) /\ u \in Seq(S) /\ Len(u) = Len(s) + Len(t)
      /\ \A i \in 1 .. Len(s) : u[i] = s[i]
      /\ \A i \in 1 .. Len(t) : u[Len(s) + i] = t[i]
  BY DEF Front
<1>1. /\ s \o t \in Seq(S) /\ Len(s \o t) = Len(s) + Len(t)
      /\ \A i \in 1 .. Len(s) + Len(t) : (s \o t)[i] = IF i <= Len(s) THEN s[i] ELSE t[i - Len(s)]
  BY <1>0, ConcatProperties
<1>2. ASSUME NEW i \in 1 .. Len(s) + Len(t) PROVE (s \o t)[i] = u[i]
  <2>1. CASE i <= Len(s)
    <3>1. i \in 1 .. Len(s)
      BY <2>1, <1>0
    <3> QED
      BY <1>0, <1>1, <2>1, <3>1
  <2>2. CASE ~(i <= Len(s))
    <3>1. i - Len(s) \in 1 .. Len(t) /\ Len(s) + (i - Len(s)) = i
      BY <2>2, <1>0
    <3> QED
      BY <1>0, <1>1, <2>2, <3>1
  <2> QED
    BY <2>1, <2>2
<1> DEFINE v == s \o t
<1>3. v \in Seq(S) /\ Len(v) = Len(u) /\ \A i \in 1 .. Len(v) : v[i] = u[i]
  BY <1>0, <1>1, <1>2
<1> HIDE DEF v
<1>4. v = u
  BY <1>0, <1>3, SeqEqual
<1> QED
  BY <1>4 DEF v

LEMMA Pair == \A a, b : <<a>> \o <<b>> = <<a, b>>
<1> SUFFICES ASSUME NEW a, NEW b PROVE <<a>> \o <<b>> = <<a, b>>
  OBVIOUS
<1> DEFINE S == {a, b}
<1>0. a \in S /\ b \in S
  OBVIOUS
<1> HIDE DEF S
<1> DEFINE p == <<a>>   q == <<b>>   r == <<a, b>>
<1>1. p \in Seq(S) /\ Len(p) = 1 /\ p[1] = a
  BY <1>0
<1>2. q \in Seq(S) /\ Len(q) = 1 /\ q[1] = b
  BY <1>0
<1>3. r \in Seq(S) /\ Len(r) = 2 /\ r[1] = a /\ r[2] = b
  BY <1>0
<1> HIDE DEF p, q, r
<1>4. \A i \in 1 .. Len(p) : i = 1
  BY <1>1
<1>5. \A i \in 1 .. Len(q) : i = 1
  BY <1>2
<1>6. Front(p, q, r, S)
  BY <1>1, <1>2, <1>3, <1>4, <1>5 DEF Front
<1>7. p \o q = r
  BY <1>6, Joined
<1> QED
  BY <1>7 DEF p, q, r

LEMMA LastOfThree == \A a, b, c : <<a, b>> \o <<c>> = <<a, b, c>>
<1> SUFFICES ASSUME NEW a, NEW b, NEW c PROVE <<a, b>> \o <<c>> = <<a, b, c>>
  OBVIOUS
<1> DEFINE S == {a, b, c}
<1>0. a \in S /\ b \in S /\ c \in S
  OBVIOUS
<1> HIDE DEF S
<1> DEFINE p == <<a, b>>   q == <<c>>   r == <<a, b, c>>
<1>1. p \in Seq(S) /\ Len(p) = 2 /\ p[1] = a /\ p[2] = b
  BY <1>0
<1>2. q \in Seq(S) /\ Len(q) = 1 /\ q[1] = c
  BY <1>0
<1>3. r \in Seq(S) /\ Len(r) = 3 /\ r[1] = a /\ r[2] = b /\ r[3] = c
  BY <1>0
<1> HIDE DEF p, q, r
<1>4. \A i \in 1 .. Len(p) : i = 1 \/ i = 2
  BY <1>1
<1>5. \A i \in 1 .. Len(q) : i = 1
  BY <1>2
<1>6. Front(p, q, r, S)
  BY <1>1, <1>2, <1>3, <1>4, <1>5 DEF Front
<1>7. p \o q = r
  BY <1>6, Joined
<1> QED
  BY <1>7 DEF p, q, r

LEMMA FirstOfThree == \A a, b, c : <<a>> \o <<b, c>> = <<a, b, c>>
<1> SUFFICES ASSUME NEW a, NEW b, NEW c PROVE <<a>> \o <<b, c>> = <<a, b, c>>
  OBVIOUS
<1> DEFINE S == {a, b, c}
<1>0. a \in S /\ b \in S /\ c \in S
  OBVIOUS
<1> HIDE DEF S
<1> DEFINE p == <<a>>   q == <<b, c>>   r == <<a, b, c>>
<1>1. p \in Seq(S) /\ Len(p) = 1 /\ p[1] = a
  BY <1>0
<1>2. q \in Seq(S) /\ Len(q) = 2 /\ q[1] = b /\ q[2] = c
  BY <1>0
<1>3. r \in Seq(S) /\ Len(r) = 3 /\ r[1] = a /\ r[2] = b /\ r[3] = c
  BY <1>0
<1> HIDE DEF p, q, r
<1>4. \A i \in 1 .. Len(p) : i = 1
  BY <1>1
<1>5. \A i \in 1 .. Len(q) : i = 1 \/ i = 2
  BY <1>2
<1>6. Front(p, q, r, S)
  BY <1>1, <1>2, <1>3, <1>4, <1>5 DEF Front
<1>7. p \o q = r
  BY <1>6, Joined
<1> QED
  BY <1>7 DEF p, q, r

LEMMA LastOfFour == \A a, b, c, d : <<a, b, c>> \o <<d>> = <<a, b, c, d>>
<1> SUFFICES ASSUME NEW a, NEW b, NEW c, NEW d PROVE <<a, b, c>> \o <<d>> = <<a, b, c, d>>
  OBVIOUS
<1> DEFINE S == {a, b, c, d}
<1>0. a \in S /\ b \in S /\ c \in S /\ d \in S
  OBVIOUS
<1> HIDE DEF S
<1> DEFINE p == <<a, b, c>>   q == <<d>>   r == <<a, b, c, d>>
<1>1. p \in Seq(S) /\ Len(p) = 3 /\ p[1] = a /\ p[2] = b /\ p[3] = c
  BY <1>0
<1>2. q \in Seq(S) /\ Len(q) = 1 /\ q[1] = d
  BY <1>0
<1>3. r \in Seq(S) /\ Len(r) = 4 /\ r[1] = a /\ r[2] = b /\ r[3] = c /\ r[4] = d
  BY <1>0
<1> HIDE DEF p, q, r
<1>4. \A i \in 1 .. Len(p) : i = 1 \/ i = 2 \/ i = 3
  BY <1>1
<1>5. \A i \in 1 .. Len(q) : i = 1
  BY <1>2
<1>6. Front(p, q, r, S)
  BY <1>1, <1>2, <1>3, <1>4, <1>5 DEF Front
<1>7. p \o q = r
  BY <1>6, Joined
<1> QED
  BY <1>7 DEF p, q, r

\* A failed request, as a set of tasks.
Failing == {<<"end">>, <<"disconnect">>, <<"rundown">>, PipeClose}

LEMMA FailedGives ==
    ASSUME NEW s
    PROVE  Failed(s) \in Failing
BY DEF Failed, TcpFailed, PipeFailed, Failing

LEMMA FailedReleases ==
    ASSUME NEW f \in Failing
    PROVE  f \o <<"unlock">> \in CalmReleases /\ <<"onwrite">> \o f \o <<"unlock">> \in CallReleases
<1>1. CASE f = <<"end">>
  <2>1. <<"end">> \o <<"unlock">> = <<"end", "unlock">> /\ <<"onwrite">> \o <<"end">> = <<"onwrite", "end">>
        /\ <<"onwrite", "end">> \o <<"unlock">> = <<"onwrite", "end", "unlock">>
    BY Pair, LastOfThree
  <2> QED
    BY <1>1, <2>1 DEF CalmReleases, CallReleases
<1>2. CASE f = <<"disconnect">>
  <2>1. <<"disconnect">> \o <<"unlock">> = <<"disconnect", "unlock">> /\ <<"onwrite">> \o <<"disconnect">> = <<"onwrite", "disconnect">>
        /\ <<"onwrite", "disconnect">> \o <<"unlock">> = <<"onwrite", "disconnect", "unlock">>
    BY Pair, LastOfThree
  <2> QED
    BY <1>2, <2>1 DEF CalmReleases, CallReleases
<1>3. CASE f = <<"rundown">>
  <2>1. <<"rundown">> \o <<"unlock">> = <<"rundown", "unlock">> /\ <<"onwrite">> \o <<"rundown">> = <<"onwrite", "rundown">>
        /\ <<"onwrite", "rundown">> \o <<"unlock">> = <<"onwrite", "rundown", "unlock">>
    BY Pair, LastOfThree
  <2> QED
    BY <1>3, <2>1 DEF CalmReleases, CallReleases
<1>4. CASE f = PipeClose
  <2>1. <<"close_handle", "end">> \o <<"unlock">> = <<"close_handle", "end", "unlock">>
    BY LastOfThree
  <2>2. <<"onwrite">> \o <<"close_handle", "end">> = <<"onwrite", "close_handle", "end">>
    BY FirstOfThree
  <2>3. <<"onwrite", "close_handle", "end">> \o <<"unlock">> = <<"onwrite", "close_handle", "end", "unlock">>
    BY LastOfFour
  <2> QED
    BY <1>4, <2>1, <2>2, <2>3 DEF PipeClose, CalmReleases, CallReleases
<1> QED
  BY <1>1, <1>2, <1>3, <1>4 DEF Failing

LEMMA ReadGives ==
    ASSUME NEW s
    PROVE  ReadDone(s) \in CalmReleases \cup {<<"onread", "unlock">>}
<1>1. CASE s = "ok"
  BY <1>1, Pair DEF ReadDone
<1>2. CASE s # "ok"
  BY <1>2, FailedGives, FailedReleases DEF ReadDone
<1> QED
  BY <1>1, <1>2

LEMMA WriteGives ==
    ASSUME NEW s
    PROVE  WriteDone(s) \in CallReleases
<1>1. CASE s = "ok"
  <2>1. <<"onwrite">> \o <<>> = <<"onwrite">>
    OBVIOUS
  <2>2. <<"onwrite">> \o <<"unlock">> = <<"onwrite", "unlock">>
    BY Pair
  <2> QED
    BY <1>1, <2>1, <2>2 DEF WriteDone, CallReleases
<1>2. CASE s # "ok"
  BY <1>2, FailedGives, FailedReleases DEF WriteDone
<1> QED
  BY <1>1, <1>2

LEMMA DiscGives ==
    ASSUME NEW s
    PROVE  DiscDone(s) \in CalmReleases
<1>1. <<>> \o <<"disconnected", "unlock">> = <<"disconnected", "unlock">>
  <2> DEFINE q == <<"disconnected", "unlock">>
  <2>1. q \in Seq({"disconnected", "unlock"})
    OBVIOUS
  <2> HIDE DEF q
  <2>2. <<>> \o q = q
    BY <2>1, ConcatEmptySeq
  <2> QED
    BY <2>2 DEF q
<1>2. <<"close_handle">> \o <<"disconnected", "unlock">> = <<"close_handle", "disconnected", "unlock">>
  BY FirstOfThree
<1> QED
  BY <1>1, <1>2 DEF DiscDone, CalmReleases

-----------------------------------------------------------------------------
\* What most steps leave alone.
Rest == kind' = kind /\ handle' = handle /\ irps' = irps /\ connections' = connections /\ disconnects' = disconnects

LEMMA ListenInv ==
    ASSUME ConnInv, NEW t \in ConnThreads, Listen(t)
    PROVE  ConnInv' /\ Quiet
<1>0. /\ ConnTypes /\ Holders /\ Between /\ Waiting /\ Rest
      /\ up' = up /\ held' = held /\ discActive' = discActive /\ link' = link /\ listenActive' = TRUE
  BY DEF ConnInv, Listen, lock, kernel, hist, Rest
<1>3. irps["listen"] \in Nat /\ irps["accepted"] \in Nat
  BY <1>0, IrpsTyped DEF ConnTypes
<1>1. CASE listenActive
  <2>1. Replaces(t, "listen", <<>>)
    BY <1>1 DEF Listen, Replaces
  <2>2. Above' /\ todo' \in [ConnThreads -> Seq(Tasks)] /\ Moved(0 - 0, 0 - 0, 0 - 0, 0 - 0, 0 - 1) /\ Running' = Running
    BY <2>1, NoTasks, Weights, RunsOn DEF OnTasks
  <2>5. ConnTypes'
    BY <1>0, <2>2 DEF ConnTypes, Rest
  <2>6. Holders'
    BY <1>0, <2>2 DEF Holders, Moved, Rest
  <2>7. Between'
    BY <1>0, <2>2 DEF Between, Moved, Rest
  <2>8. Waiting'
    BY <1>0, <1>1, <2>2 DEF Waiting, Moved, One, Open, Rest
  <2> QED
    BY <1>0, <2>2, <2>5, <2>6, <2>7, <2>8 DEF ConnInv, Quiet, Rest
<1>2. CASE ~listenActive
  <2>1. Replaces(t, "listen", <<"post_listen">>)
    BY <1>2 DEF Listen, Replaces
  <2>3. Fits(<<"post_listen">>, 0, 1, 0, 0, 1) /\ Calm(<<"post_listen">>)
    BY OneTask, Weights DEF Tasks, OnTasks
  <2>2. Above' /\ todo' \in [ConnThreads -> Seq(Tasks)] /\ Moved(0 - 0, 1 - 0, 0 - 0, 0 - 0, 1 - 1) /\ Running' = Running
    BY <2>1, <2>3, Weights, RunsOn DEF OnTasks
  <2>5. ConnTypes'
    BY <1>0, <2>2 DEF ConnTypes, Rest
  <2>6. Holders'
    BY <1>0, <2>2 DEF Holders, Moved, Rest
  <2>7. Between'
    BY <1>0, <2>2 DEF Between, Moved, Rest
  <2>8. Waiting'
    <3>1. Open' = Open /\ listenActive' = TRUE /\ WaitCount' = WaitCount + 1 /\ AskCount' = AskCount /\ InitCount' = InitCount
      BY <1>0, <2>2 DEF Open, Rest, Moved
    <3> QED
      BY <1>0, <1>2, <1>3, <2>2, <3>1 DEF Waiting, One, Open, Rest, Moved
  <2> QED
    BY <1>0, <2>2, <2>5, <2>6, <2>7, <2>8 DEF ConnInv, Quiet, Rest
<1> QED
  BY <1>1, <1>2

\* A step that takes no lock, makes no connection and waits for none.
Plain ==
    /\ kind' = kind /\ irps' = irps /\ connections' = connections /\ disconnects' = disconnects
    /\ held' = held /\ listenActive' = listenActive /\ up' \in {up, FALSE}
    /\ handle' = handle \/ (handle # "closed" /\ handle' = "closing")
    /\ discActive' \in BOOLEAN /\ link' \in {"none", "up", "dead"}

LEMMA PlainStep ==
    ASSUME ConnInv, Plain, NEW t \in ConnThreads, NEW x, NEW tasks, Replaces(t, x, tasks),
           NEW h \in Nat, NEW w \in Nat, NEW i \in Nat, NEW l \in Nat, NEW a \in Nat, Fits(tasks, h, w, i, l, a),
           NEW a0 \in Nat, Weighs(x, h, w, i, l, a0), kind = "client" => a <= a0
    PROVE  /\ ConnInv'
           /\ Running' = (Running \ {t}) \cup (IF Calm(tasks) THEN {} ELSE {t})
           /\ t \in Running <=> x \in OnTasks
<1>0. ConnTypes /\ Holders /\ Between /\ Waiting
  BY DEF ConnInv
<1>1. /\ Above' /\ todo' \in [ConnThreads -> Seq(Tasks)] /\ Moved(h - h, w - w, i - i, l - l, a - a0)
      /\ Running' = (Running \ {t}) \cup (IF Calm(tasks) THEN {} ELSE {t})
      /\ t \in Running <=> x \in OnTasks
  BY Replaced
<1>2. /\ HoldCount' = HoldCount /\ WaitCount' = WaitCount /\ InitCount' = InitCount /\ LastCount' = LastCount
      /\ AskCount \in Nat /\ AskCount' \in Nat /\ AskCount' = AskCount + (a - a0)
  BY <1>1 DEF Moved
<1>3. kind = "client" => AskCount' = 0
  <2>1. ASSUME kind = "client" PROVE AskCount = 0 /\ a - a0 \in Int /\ a - a0 <= 0
    BY <1>0, <2>1 DEF Waiting
  <2> DEFINE d == a - a0
  <2> HIDE DEF d
  <2>2. kind = "client" => AskCount' = 0 + d /\ d \in Int /\ d <= 0
    BY <1>2, <2>1 DEF d
  <2> QED
    BY <1>2, <2>2
<1>4. ConnTypes'
  BY <1>0, <1>1 DEF ConnTypes, Plain
<1>5. Holders'
  BY <1>0, <1>2 DEF Holders, Plain
<1>6. Between'
  BY <1>0, <1>2 DEF Between, Plain
<1>7. Waiting'
  <2>1. Open' = Open /\ listenActive' = listenActive /\ irps' = irps /\ kind' = kind /\ (handle' # "closed" => handle # "closed")
    BY DEF Plain, Open
  <2> QED
    BY <1>0, <1>2, <1>3, <2>1 DEF Waiting
<1> QED
  BY <1>1, <1>4, <1>5, <1>6, <1>7 DEF ConnInv

LEMMA QuietStep ==
    ASSUME ConnInv, Plain, NEW t \in ConnThreads, NEW x, NEW tasks, Replaces(t, x, tasks), x \notin OnTasks, Calm(tasks),
           NEW h \in Nat, NEW w \in Nat, NEW i \in Nat, NEW l \in Nat, NEW a \in Nat, Fits(tasks, h, w, i, l, a),
           NEW a0 \in Nat, Weighs(x, h, w, i, l, a0), kind = "client" => a <= a0
    PROVE  ConnInv' /\ Quiet
<1>1. /\ ConnInv'
      /\ Running' = (Running \ {t}) \cup (IF Calm(tasks) THEN {} ELSE {t})
      /\ t \in Running <=> x \in OnTasks
  BY PlainStep
<1> QED
  BY <1>1 DEF Quiet, Plain

LEMMA ConnectInv ==
    ASSUME ConnInv, NEW t \in ConnThreads, Connect(t)
    PROVE  ConnInv' /\ Quiet
<1>1. Plain /\ (Replaces(t, "connect", <<>>) \/ Replaces(t, "connect", <<"listen">>) \/ Replaces(t, "connect", TcpClose))
  BY DEF Connect, Replaces, Plain, ConnInv, ConnTypes, lock, flags, kernel, hist
<1>2. Weighs("connect", 0, 0, 0, 0, 1) /\ "connect" \notin OnTasks
  BY Weights DEF OnTasks
<1>3. Fits(<<"listen">>, 0, 0, 0, 0, 1) /\ Calm(<<"listen">>)
  BY OneTask, Weights DEF Tasks, OnTasks
<1>4. Fits(TcpClose, 0, 0, 0, 0, 0) /\ Calm(TcpClose)
  BY CloseTcp DEF TcpClose
<1>5. CASE Replaces(t, "connect", <<>>)
  BY <1>1, <1>2, <1>5, NoTasks, QuietStep
<1>6. CASE Replaces(t, "connect", <<"listen">>)
  BY <1>1, <1>2, <1>3, <1>6, QuietStep
<1>7. CASE Replaces(t, "connect", TcpClose)
  BY <1>1, <1>2, <1>4, <1>7, QuietStep
<1> QED
  BY <1>1, <1>5, <1>6, <1>7

LEMMA RundownInv ==
    ASSUME ConnInv, NEW t \in ConnThreads, Rundown(t)
    PROVE  ConnInv' /\ Quiet
<1>1. Plain /\ Replaces(t, "rundown", <<>>)
  BY DEF Rundown, Replaces, Plain, ConnInv, ConnTypes, flags, kernel, hist
<1>2. Weighs("rundown", 0, 0, 0, 0, 0) /\ "rundown" \notin OnTasks
  BY Weights DEF OnTasks
<1> QED
  BY <1>1, <1>2, NoTasks, QuietStep

LEMMA OnceInv ==
    ASSUME ConnInv, NEW t \in ConnThreads, Once(t)
    PROVE  ConnInv' /\ Quiet
<1>1. Plain /\ (Replaces(t, "once", <<"unlock">>) \/ Replaces(t, "once", <<"post_disc">>))
  BY DEF Once, Replaces, Plain, ConnInv, ConnTypes, lock, kernel, hist
<1>2. Weighs("once", 1, 0, 0, 0, 0) /\ "once" \notin OnTasks
  BY Weights DEF OnTasks, HoldTasks
<1>3. Fits(<<"unlock">>, 1, 0, 0, 0, 0) /\ Calm(<<"unlock">>) /\ Fits(<<"post_disc">>, 1, 0, 0, 0, 0) /\ Calm(<<"post_disc">>)
  BY OneTask, Weights DEF Tasks, OnTasks, HoldTasks
<1> QED
  BY <1>1, <1>2, <1>3, QuietStep

LEMMA DisconnectedInv ==
    ASSUME ConnInv, NEW t \in ConnThreads, Disconnected(t)
    PROVE  ConnInv' /\ Quiet
<1>1. Plain /\ Replaces(t, "disconnected", <<>>)
  BY DEF Disconnected, Replaces, Plain, ConnInv, ConnTypes, lock, kernel, hist
<1>2. Weighs("disconnected", 0, 0, 0, 0, 0) /\ "disconnected" \notin OnTasks
  BY Weights DEF OnTasks
<1> QED
  BY <1>1, <1>2, NoTasks, QuietStep

LEMMA CloseHandleInv ==
    ASSUME ConnInv, NEW t \in ConnThreads, CloseHandle(t)
    PROVE  ConnInv' /\ Quiet
<1>1. Plain /\ Replaces(t, "close_handle", <<>>)
  BY DEF CloseHandle, Replaces, Plain, ConnInv, ConnTypes, lock, flags, hist
<1>2. Weighs("close_handle", 0, 0, 0, 0, 0) /\ "close_handle" \notin OnTasks
  BY Weights DEF OnTasks
<1> QED
  BY <1>1, <1>2, NoTasks, QuietStep

\* LockConnection finds a connection, so nobody has left it last.
LEMMA LockStep ==
    ASSUME ConnInv, Rest, up = TRUE, up' = up, held' = held + 1,
           listenActive' = listenActive, discActive' = discActive, link' = link,
           NEW t \in ConnThreads, NEW x, NEW tasks, Replaces(t, x, tasks), x \notin OnTasks, Calm(tasks),
           Fits(tasks, 1, 0, 0, 0, 0), Weighs(x, 0, 0, 0, 0, 0)
    PROVE  ConnInv' /\ Quiet
<1>0. ConnTypes /\ Holders /\ Between /\ Waiting
  BY DEF ConnInv
<1>1. Above' /\ todo' \in [ConnThreads -> Seq(Tasks)] /\ Moved(1 - 0, 0 - 0, 0 - 0, 0 - 0, 0 - 0) /\ Running' = Running
  BY RunsOn
<1>2. /\ HoldCount' = HoldCount + 1 /\ WaitCount' = WaitCount /\ InitCount' = InitCount /\ LastCount' = LastCount
      /\ AskCount' = AskCount /\ HoldCount \in Nat
  BY <1>1 DEF Moved
<1>3. irps["read"] \in Nat /\ irps["write"] \in Nat /\ irps["disc"] \in Nat /\ irps["got"] \in Nat /\ held \in Nat
  BY <1>0, IrpsTyped DEF ConnTypes
<1>4. ConnTypes'
  BY <1>0, <1>1, <1>3 DEF ConnTypes, Rest
<1>5. Holders'
  BY <1>0, <1>2, <1>3 DEF Holders, Rest
<1>6. Between'
  BY <1>0, <1>2 DEF Between, Rest
<1>7. Waiting'
  BY <1>0, <1>2 DEF Waiting, Open, Rest
<1> QED
  BY <1>1, <1>4, <1>5, <1>6, <1>7 DEF ConnInv, Quiet, Rest

LEMMA ReadInv ==
    ASSUME ConnInv, NEW t \in ConnThreads, Read(t)
    PROVE  ConnInv' /\ Quiet
<1>1. Weighs("read", 0, 0, 0, 0, 0) /\ "read" \notin OnTasks
  BY Weights DEF OnTasks
<1>2. CASE up = TRUE /\ held' = held + 1 /\ Replaces(t, "read", <<"post_read">>)
  <2>1. /\ Rest /\ up = TRUE /\ up' = up /\ held' = held + 1
        /\ listenActive' = listenActive /\ discActive' = discActive /\ link' = link
    BY <1>2 DEF Read, Rest, flags, kernel
  <2>2. Fits(<<"post_read">>, 1, 0, 0, 0, 0) /\ Calm(<<"post_read">>)
    BY OneTask, Weights DEF Tasks, OnTasks, HoldTasks
  <2> QED
    BY <1>1, <1>2, <2>1, <2>2, LockStep
<1>3. CASE held' = held /\ Replaces(t, "read", <<>>)
  <2>1. Plain
    BY <1>3 DEF Read, Plain, ConnInv, ConnTypes, flags, kernel
  <2> QED
    BY <1>1, <1>3, <2>1, NoTasks, QuietStep
<1> QED
  BY <1>2, <1>3 DEF Read, Locked, Replaces, ConnInv, ConnTypes

LEMMA WriteInv ==
    ASSUME ConnInv, NEW t \in ConnThreads, Write(t)
    PROVE  ConnInv' /\ Quiet
<1>1. Weighs("write", 0, 0, 0, 0, 0) /\ "write" \notin OnTasks
  BY Weights DEF OnTasks
<1>2. CASE up = TRUE /\ held' = held + 1 /\ Replaces(t, "write", <<"post_write">>)
  <2>1. /\ Rest /\ up = TRUE /\ up' = up /\ held' = held + 1
        /\ listenActive' = listenActive /\ discActive' = discActive /\ link' = link
    BY <1>2 DEF Write, Rest, flags, kernel, hist
  <2>2. Fits(<<"post_write">>, 1, 0, 0, 0, 0) /\ Calm(<<"post_write">>)
    BY OneTask, Weights DEF Tasks, OnTasks, HoldTasks
  <2> QED
    BY <1>1, <1>2, <2>1, <2>2, LockStep
<1>3. CASE held' = held /\ Replaces(t, "write", <<>>)
  <2>1. Plain
    BY <1>3 DEF Write, Plain, ConnInv, ConnTypes, flags, kernel, hist
  <2> QED
    BY <1>1, <1>3, <2>1, NoTasks, QuietStep
<1> QED
  BY <1>2, <1>3 DEF Write, Locked, Replaces, ConnInv, ConnTypes

LEMMA EndInv ==
    ASSUME ConnInv, NEW t \in ConnThreads, End(t)
    PROVE  ConnInv' /\ Quiet
<1>1. Weighs("end", 0, 0, 0, 0, 0) /\ "end" \notin OnTasks
  BY Weights DEF OnTasks
<1>2. CASE up = TRUE /\ held' = held + 1 /\ Replaces(t, "end", <<"rundown", "unlock">>)
  <2>1. /\ Rest /\ up = TRUE /\ up' = up /\ held' = held + 1
        /\ listenActive' = listenActive /\ discActive' = discActive /\ link' = link
    BY <1>2 DEF End, Rest, flags, kernel, hist
  <2> QED
    BY <1>1, <1>2, <2>1, EndTasks, LockStep
<1>3. CASE held' = held /\ Replaces(t, "end", <<>>)
  <2>1. Plain
    BY <1>3 DEF End, Plain, ConnInv, ConnTypes, flags, kernel, hist
  <2> QED
    BY <1>1, <1>3, <2>1, NoTasks, QuietStep
<1> QED
  BY <1>2, <1>3 DEF End, Locked, Replaces, ConnInv, ConnTypes

LEMMA DisconnectInv ==
    ASSUME ConnInv, NEW t \in ConnThreads, Disconnect(t)
    PROVE  ConnInv' /\ Quiet
<1>1. Weighs("disconnect", 0, 0, 0, 0, 0) /\ "disconnect" \notin OnTasks
  BY Weights DEF OnTasks
<1>2. CASE up = TRUE /\ held' = held + 1 /\ Replaces(t, "disconnect", <<"rundown", "once">>)
  <2>1. /\ Rest /\ up = TRUE /\ up' = up /\ held' = held + 1
        /\ listenActive' = listenActive /\ discActive' = discActive /\ link' = link
    BY <1>2 DEF Disconnect, Rest, flags, kernel, hist
  <2> QED
    BY <1>1, <1>2, <2>1, OnceTasks, LockStep
<1>3. CASE held' = held /\ (Replaces(t, "disconnect", <<>>) \/ Replaces(t, "disconnect", PipeClose))
  <2>1. Plain
    BY <1>3 DEF Disconnect, Plain, ConnInv, ConnTypes, flags, kernel, hist
  <2>2. Fits(PipeClose, 0, 0, 0, 0, 0) /\ Calm(PipeClose)
    BY ClosePipe DEF PipeClose
  <2> QED
    BY <1>1, <1>3, <2>1, <2>2, NoTasks, QuietStep
<1> QED
  BY <1>2, <1>3 DEF Disconnect, Locked, Replaces, ConnInv, ConnTypes

-----------------------------------------------------------------------------
\* What ConnectionSpec sees of the other steps.
Counting(c, d) == connections' = connections + c /\ disconnects' = disconnects + d
Begins     == connections = disconnects /\ Counting(1, 0) /\ Running' = Running
Finishes       == connections = disconnects + 1 /\ Counting(0, 1) /\ Running = {} /\ Running' = {}
Enters(t)  == connections = disconnects + 1 /\ Counting(0, 0) /\ t \notin Running /\ Running' = Running \cup {t}
Returns(t) == Counting(0, 0) /\ t \in Running /\ Running' = Running \ {t}

LEMMA CallbacksInv ==
    ASSUME ConnInv, NEW t \in ConnThreads, Callbacks(t)
    PROVE  ConnInv' /\ (Quiet \/ Returns(t))
<1>0. Plain /\ Counting(0, 0)
  BY DEF Callbacks, Plain, Counting, ConnInv, ConnTypes, lock, flags, kernel, hist
<1>1. /\ Weighs("onconnect", 0, 0, 0, 0, 0) /\ Weighs("onread", 0, 0, 0, 0, 0) /\ Weighs("onwrite", 0, 0, 0, 0, 0)
      /\ Weighs("ondisconnect", 0, 0, 0, 0, 0) /\ "onconnect" \notin OnTasks /\ "ondisconnect" \notin OnTasks
      /\ "onread" \in OnTasks /\ "onwrite" \in OnTasks
  BY Weights DEF OnTasks
<1>2. \A r \in {"read", "disconnect"} : Fits(<<r>>, 0, 0, 0, 0, 0) /\ Calm(<<r>>)
  BY OneTask, Weights DEF Tasks, OnTasks
<1>3. Fits(<<"listen">>, 0, 0, 0, 0, 1) /\ Calm(<<"listen">>)
  BY OneTask, Weights DEF Tasks, OnTasks
<1>4. CASE \E r \in {"read", "disconnect"} : Replaces(t, "onconnect", <<r>>)
  BY <1>0, <1>1, <1>2, <1>4, QuietStep
<1>5. CASE Replaces(t, "ondisconnect", <<>>)
  BY <1>0, <1>1, <1>5, NoTasks, QuietStep
<1>6. CASE kind # "client" /\ Replaces(t, "ondisconnect", <<"listen">>)
  BY <1>0, <1>1, <1>3, <1>6, QuietStep
<1>7. ASSUME NEW x \in {"onread", "onwrite"}, NEW tasks, Replaces(t, x, tasks), Fits(tasks, 0, 0, 0, 0, 0), Calm(tasks)
      PROVE  ConnInv' /\ Returns(t)
  <2>1. Weighs(x, 0, 0, 0, 0, 0) /\ x \in OnTasks
    BY <1>1, <1>7
  <2>2. /\ ConnInv'
        /\ Running' = (Running \ {t}) \cup (IF Calm(tasks) THEN {} ELSE {t})
        /\ t \in Running <=> x \in OnTasks
    BY <1>0, <1>7, <2>1, PlainStep
  <2> QED
    BY <1>0, <1>7, <2>1, <2>2 DEF Returns
<1>8. CASE \E r \in {"read", "disconnect"} : Replaces(t, "onread", <<r>>)
  BY <1>2, <1>7, <1>8
<1>9. CASE Replaces(t, "onwrite", <<>>)
  BY <1>7, <1>9, NoTasks
<1> QED
  BY <1>4, <1>5, <1>6, <1>8, <1>9 DEF Callbacks, Replaces

LEMMA ConnectedInv ==
    ASSUME ConnInv, NEW t \in ConnThreads, Connected(t)
    PROVE  ConnInv' /\ Begins
<1>0. /\ ConnTypes /\ Holders /\ Between /\ Waiting
      /\ kind' = kind /\ listenActive' = listenActive /\ discActive' = discActive /\ handle' = handle /\ link' = link
      /\ irps' = irps /\ up' = TRUE /\ held' = 0 /\ connections' = connections + 1 /\ disconnects' = disconnects
      /\ Replaces(t, "init", <<>>)
  BY DEF ConnInv, Connected, Replaces, flags, kernel
<1>1. Weighs("init", 0, 1, 1, 0, 0) /\ "init" \notin OnTasks
  BY Weights DEF OnTasks
<1>2. Above' /\ todo' \in [ConnThreads -> Seq(Tasks)] /\ Moved(0 - 0, 0 - 1, 0 - 1, 0 - 0, 0 - 0) /\ Running' = Running
  BY <1>0, <1>1, NoTasks, RunsOn
<1>3. /\ HoldCount' = HoldCount /\ WaitCount' = WaitCount - 1 /\ InitCount' = InitCount - 1 /\ LastCount' = LastCount
      /\ AskCount' = AskCount /\ InitCount \in Nat /\ WaitCount \in Nat /\ InitCount' \in Nat /\ WaitCount' \in Nat
  BY <1>2 DEF Moved
<1>4. irps["listen"] \in Nat /\ irps["accepted"] \in Nat
  BY <1>0, IrpsTyped DEF ConnTypes
<1>5. InitCount = 1 /\ irps["accepted"] = 0 /\ One(Open) = 0
  <2>1. One(Open) = 0 \/ One(Open) = 1
    BY DEF One
  <2> QED
    BY <1>0, <1>3, <1>4, <2>1 DEF Waiting
<1>6. connections = disconnects /\ up = FALSE /\ held = 0 /\ LastCount = 0
  BY <1>0, <1>5 DEF Open, One, Between
<1>7. One(Open') = 1
  BY <1>0, <1>6 DEF Open, One, ConnTypes
<1>8. ConnTypes'
  BY <1>0, <1>2 DEF ConnTypes
<1>9. Holders'
  BY <1>0, <1>3, <1>6 DEF Holders
<1>10. Between'
  BY <1>0, <1>3, <1>6 DEF Between, ConnTypes
<1>11. Waiting'
  <2>1. InitCount' = 0
    BY <1>3, <1>5
  <2>2. InitCount' + irps'["accepted"] + One(Open') <= 1
    BY <1>0, <1>5, <1>7, <2>1
  <2>3. ASSUME kind # "client", handle # "closed"
        PROVE  WaitCount' + irps["listen"] + irps["accepted"] + 1 <= One(listenActive)
    <3>1. WaitCount + irps["listen"] + irps["accepted"] + 0 <= One(listenActive) /\ One(listenActive) \in Nat
      BY <1>0, <1>5, <2>3 DEF Waiting, One
    <3> QED
      BY <1>3, <1>4, <3>1
  <2>4. kind = "client" => AskCount' = 0 /\ irps'["listen"] = 0
    BY <1>0, <1>3 DEF Waiting
  <2> QED
    BY <1>0, <1>7, <2>2, <2>3, <2>4 DEF Waiting
<1> QED
  BY <1>0, <1>2, <1>6, <1>8, <1>9, <1>10, <1>11 DEF ConnInv, Begins, Counting, ConnTypes

LEMMA NotConnectedInv ==
    ASSUME ConnInv, NEW t \in ConnThreads, NotConnected(t)
    PROVE  ConnInv' /\ Quiet
<1>0. /\ ConnTypes /\ Holders /\ Between /\ Waiting /\ Rest
      /\ up' = up /\ held' = held /\ listenActive' = FALSE /\ discActive' = discActive /\ link' = link
      /\ Replaces(t, "not_connected", <<>>)
  BY DEF ConnInv, NotConnected, Replaces, Rest, lock, kernel, hist
<1>1. Weighs("not_connected", 0, 1, 0, 0, 1) /\ "not_connected" \notin OnTasks
  BY Weights DEF OnTasks
<1>2. Above' /\ todo' \in [ConnThreads -> Seq(Tasks)] /\ Moved(0 - 0, 0 - 1, 0 - 0, 0 - 0, 0 - 1) /\ Running' = Running
  BY <1>0, <1>1, NoTasks, RunsOn
<1>3. /\ HoldCount' = HoldCount /\ WaitCount' = WaitCount - 1 /\ InitCount' = InitCount /\ LastCount' = LastCount
      /\ AskCount' = AskCount - 1 /\ AskCount \in Nat /\ AskCount' \in Nat /\ WaitCount \in Nat /\ WaitCount' \in Nat
  BY <1>2 DEF Moved
<1>4. irps["listen"] \in Nat /\ irps["accepted"] \in Nat
  BY <1>0, IrpsTyped DEF ConnTypes
<1>5. ConnTypes'
  BY <1>0, <1>2 DEF ConnTypes, Rest
<1>6. Holders'
  BY <1>0, <1>3 DEF Holders, Rest
<1>7. Between'
  BY <1>0, <1>3 DEF Between, Rest
<1>8. Waiting'
  <2>1. One(Open) = 0 \/ One(Open) = 1
    BY DEF One
  <2>2. Open' = Open /\ kind' = kind /\ handle' = handle /\ irps' = irps /\ One(listenActive') = 0
    BY <1>0 DEF Rest, Open, One
  <2>3. ASSUME kind # "client", handle # "closed"
        PROVE  WaitCount' + irps["listen"] + irps["accepted"] + One(Open) <= 0
    <3>1. WaitCount + irps["listen"] + irps["accepted"] + One(Open) <= 1
      <4>1. One(listenActive) = 0 \/ One(listenActive) = 1
        BY DEF One
      <4> QED
        BY <1>0, <1>3, <1>4, <2>1, <2>3, <4>1 DEF Waiting
    <3> QED
      BY <1>3, <1>4, <2>1, <3>1
  <2>4. kind = "client" => AskCount' = 0 /\ irps["listen"] = 0
    BY <1>0, <1>3 DEF Waiting
  <2> QED
    BY <1>0, <1>3, <2>2, <2>3, <2>4 DEF Waiting
<1> QED
  BY <1>0, <1>2, <1>5, <1>6, <1>7, <1>8 DEF ConnInv, Quiet, Rest

LEMMA UnlockInv ==
    ASSUME ConnInv, NEW t \in ConnThreads, Unlock(t)
    PROVE  ConnInv' /\ Quiet
<1>0. /\ ConnTypes /\ Holders /\ Between /\ Waiting /\ Rest
      /\ up' = up /\ held' = held - 1 /\ listenActive' = listenActive /\ discActive' = discActive /\ link' = link
  BY DEF ConnInv, Unlock, Rest, flags, kernel, hist
<1>1. Weighs("unlock", 1, 0, 0, 0, 0) /\ "unlock" \notin OnTasks
  BY Weights DEF OnTasks, HoldTasks
<1>2. irps["read"] \in Nat /\ irps["write"] \in Nat /\ irps["disc"] \in Nat /\ irps["got"] \in Nat /\ held \in Nat
  BY <1>0, IrpsTyped DEF ConnTypes
<1>3. ASSUME NEW l \in {0, 1}, Above', todo' \in [ConnThreads -> Seq(Tasks)], Running' = Running,
             HoldCount' = HoldCount - 1, WaitCount' = WaitCount, InitCount' = InitCount, LastCount' = LastCount + l,
             AskCount' = AskCount, HoldCount \in Nat, HoldCount' \in Nat, LastCount \in Nat,
             l = 1 <=> (~up /\ held = 1)
      PROVE  ConnInv' /\ Quiet
  <2>1. held > 0 /\ HoldCount >= 1
    BY <1>0, <1>2, <1>3 DEF Holders
  <2>2. connections = disconnects + 1 /\ connections # disconnects /\ LastCount = 0
    BY <1>0, <2>1 DEF Between, ConnTypes
  <2>3. ConnTypes'
    BY <1>0, <1>2, <1>3, <2>1 DEF ConnTypes, Rest
  <2>4. Holders'
    <3>1. HoldCount' + 1 = HoldCount /\ held' + 1 = held /\ held' \in Nat
      BY <1>0, <1>2, <1>3, <2>1
    <3>2. irps' = irps
      BY <1>0 DEF Rest
    <3> DEFINE n == HoldCount'   m == HoldCount
    <3>3. n + 1 = m /\ n \in Nat /\ m \in Nat /\ held = m + irps["read"] + irps["write"] + irps["disc"] + irps["got"]
      BY <1>0, <1>3, <3>1 DEF Holders
    <3> HIDE DEF n, m
    <3>4. held' = n + irps["read"] + irps["write"] + irps["disc"] + irps["got"]
      BY <1>2, <3>1, <3>3
    <3> QED
      BY <3>2, <3>4 DEF Holders, n
  <2>5. Between'
    BY <1>0, <1>2, <1>3, <2>1, <2>2 DEF Between, Rest, ConnTypes
  <2>6. Waiting'
    BY <1>0, <1>3 DEF Waiting, Rest, Open
  <2> QED
    BY <1>0, <1>3, <2>3, <2>4, <2>5, <2>6 DEF ConnInv, Quiet, Rest
<1>4. CASE ~up /\ held = 1
  <2>1. Replaces(t, "unlock", <<"last_out">>)
    BY <1>4 DEF Unlock, Replaces
  <2>2. Fits(<<"last_out">>, 0, 0, 0, 1, 0) /\ Calm(<<"last_out">>)
    BY OneTask, Weights DEF Tasks, OnTasks
  <2>3. Above' /\ todo' \in [ConnThreads -> Seq(Tasks)] /\ Moved(0 - 1, 0 - 0, 0 - 0, 1 - 0, 0 - 0) /\ Running' = Running
    BY <1>1, <2>1, <2>2, RunsOn
  <2>4. /\ HoldCount' = HoldCount - 1 /\ WaitCount' = WaitCount /\ InitCount' = InitCount /\ LastCount' = LastCount + 1
        /\ AskCount' = AskCount /\ HoldCount \in Nat /\ HoldCount' \in Nat /\ LastCount \in Nat
    BY <2>3 DEF Moved
  <2> QED
    BY <1>3, <1>4, <2>3, <2>4
<1>5. CASE ~(~up /\ held = 1)
  <2>1. Replaces(t, "unlock", <<>>)
    BY <1>5 DEF Unlock, Replaces
  <2>3. Above' /\ todo' \in [ConnThreads -> Seq(Tasks)] /\ Moved(0 - 1, 0 - 0, 0 - 0, 0 - 0, 0 - 0) /\ Running' = Running
    BY <1>1, <2>1, NoTasks, RunsOn
  <2>4. /\ HoldCount' = HoldCount - 1 /\ WaitCount' = WaitCount /\ InitCount' = InitCount /\ LastCount' = LastCount + 0
        /\ AskCount' = AskCount /\ HoldCount \in Nat /\ HoldCount' \in Nat /\ LastCount \in Nat
    BY <2>3 DEF Moved
  <2> QED
    BY <1>3, <1>5, <2>3, <2>4
<1> QED
  BY <1>4, <1>5

LEMMA LastOutInv ==
    ASSUME ConnInv, NEW t \in ConnThreads, LastOut(t)
    PROVE  ConnInv' /\ Finishes
<1>0. /\ ConnTypes /\ Holders /\ Between /\ Waiting /\ Above
      /\ kind' = kind /\ handle' = handle /\ link' = link /\ irps' = irps
      /\ up' = up /\ held' = held /\ listenActive' = FALSE /\ discActive' = discActive
      /\ connections' = connections /\ disconnects' = disconnects + 1
      /\ Replaces(t, "last_out", <<"ondisconnect">>)
  BY DEF ConnInv, LastOut, Replaces, lock, kernel
<1>1. Weighs("last_out", 0, 0, 0, 1, 0) /\ "last_out" \notin OnTasks
  BY Weights DEF OnTasks
<1>2. Fits(<<"ondisconnect">>, 0, 0, 0, 0, 0) /\ Calm(<<"ondisconnect">>)
  BY OneTask, Weights DEF Tasks, OnTasks
<1>3. Above' /\ todo' \in [ConnThreads -> Seq(Tasks)] /\ Moved(0 - 0, 0 - 0, 0 - 0, 0 - 1, 0 - 0) /\ Running' = Running
  BY <1>0, <1>1, <1>2, RunsOn
<1>4. /\ HoldCount' = HoldCount /\ WaitCount' = WaitCount /\ InitCount' = InitCount /\ LastCount' = LastCount - 1
      /\ AskCount' = AskCount /\ LastCount' \in Nat /\ HoldCount \in Nat /\ InitCount \in Nat /\ WaitCount \in Nat
      /\ LastCount \in Nat
  BY <1>3 DEF Moved
<1>5. irps["read"] \in Nat /\ irps["write"] \in Nat /\ irps["disc"] \in Nat /\ irps["got"] \in Nat /\ held \in Nat
      /\ irps["listen"] \in Nat /\ irps["accepted"] \in Nat
  BY <1>0, IrpsTyped DEF ConnTypes
<1>6. LastCount = 1 /\ up = FALSE /\ held = 0
  BY <1>0, <1>4 DEF Between
<1>7. connections = disconnects + 1 /\ HoldCount = 0 /\ LastCount' = 0
  BY <1>0, <1>4, <1>5, <1>6 DEF Between, Holders
<1>8. Running = {}
  BY <1>0, <1>7, RunningHolds
<1>9. ConnTypes'
  <2>1. disconnects' \in Nat
    BY <1>0 DEF ConnTypes
  <2> QED
    BY <1>0, <1>3, <2>1 DEF ConnTypes
<1>10. Holders'
  BY <1>0, <1>4 DEF Holders
<1>11. Between'
  BY <1>0, <1>6, <1>7 DEF Between, ConnTypes
<1>12. Waiting'
  <2>1. One(Open) = 1 /\ One(Open') = 0 /\ One(listenActive') = 0
    BY <1>0, <1>7 DEF Open, One, ConnTypes
  <2>2. InitCount' + irps'["accepted"] + One(Open') <= 1
    BY <1>0, <1>4, <1>5, <2>1 DEF Waiting
  <2>3. ASSUME kind # "client", handle # "closed"
        PROVE  WaitCount' + irps["listen"] + irps["accepted"] + 0 <= 0
    <3>1. WaitCount + irps["listen"] + irps["accepted"] + 1 <= 1
      <4>1. One(listenActive) = 0 \/ One(listenActive) = 1
        BY DEF One
      <4> QED
        BY <1>0, <1>4, <1>5, <2>1, <2>3, <4>1 DEF Waiting
    <3> QED
      BY <1>4, <1>5, <3>1
  <2>4. kind = "client" => AskCount' = 0 /\ irps'["listen"] = 0
    BY <1>0, <1>4 DEF Waiting
  <2> QED
    BY <1>0, <2>1, <2>2, <2>3, <2>4 DEF Waiting
<1> QED
  BY <1>0, <1>3, <1>7, <1>8, <1>9, <1>10, <1>11, <1>12 DEF ConnInv, Finishes, Counting, ConnTypes

-----------------------------------------------------------------------------
\* What is not a step of a thread leaves the tasks alone.
LEMMA TasksStay ==
    ASSUME ConnInv, todo' = todo
    PROVE  /\ Above' /\ Running' = Running /\ HoldCount' = HoldCount /\ WaitCount' = WaitCount
           /\ InitCount' = InitCount /\ LastCount' = LastCount /\ AskCount' = AskCount
           /\ HoldCount \in Nat /\ WaitCount \in Nat /\ InitCount \in Nat /\ LastCount \in Nat /\ AskCount \in Nat
           /\ InitCount > 0 => WaitCount > 0
<1>1. todo \in [ConnThreads -> Seq(Tasks)] /\ Above
  BY DEF ConnInv, ConnTypes
<1>2. \A K : Number(todo, ConnThreads, K) \in Nat
  BY <1>1, ThreadsFinite, PlacesFinite
<1>3. ASSUME InitCount > 0 PROVE WaitCount > 0
  <2>1. \E t \in ConnThreads : \E h \in 1 .. Height(todo, t) : Item(todo, t, h) \in {"init"}
    BY <1>1, <1>3, ThreadsFinite, SomePlace DEF InitCount
  <2>2. \E t \in ConnThreads : \E h \in 1 .. Height(todo, t) : Item(todo, t, h) \in WaitTasks
    BY <2>1 DEF WaitTasks
  <2> QED
    BY <1>1, <2>2, ThreadsFinite, SomePlace DEF WaitCount
<1>4. Above' /\ Running' = Running
  BY <1>1 DEF Above, Height, Item, Running
<1>5. /\ HoldCount' = HoldCount /\ WaitCount' = WaitCount /\ InitCount' = InitCount /\ LastCount' = LastCount
      /\ AskCount' = AskCount
  BY DEF HoldCount, WaitCount, InitCount, LastCount, AskCount, Number, PlacesOf, Height, Item
<1>6. HoldCount \in Nat /\ WaitCount \in Nat /\ InitCount \in Nat /\ LastCount \in Nat /\ AskCount \in Nat
  BY <1>2 DEF HoldCount, WaitCount, InitCount, LastCount, AskCount
<1> QED
  BY <1>3, <1>4, <1>5, <1>6

LEMMA CloseObjectHandleInv ==
    ASSUME ConnInv, CloseObjectHandle
    PROVE  ConnInv' /\ Quiet
<1>0. /\ ConnTypes /\ Holders /\ Between /\ Waiting
      /\ kind' = kind /\ up' = up /\ held' = held /\ handle' = "closed" /\ link' = "dead" /\ irps' = irps
      /\ listenActive' \in BOOLEAN /\ discActive' \in BOOLEAN /\ todo' = todo
      /\ connections' = connections /\ disconnects' = disconnects
  BY DEF ConnInv, ConnTypes, CloseObjectHandle, lock, flags, hist
<1>1. /\ Above' /\ Running' = Running /\ HoldCount' = HoldCount /\ WaitCount' = WaitCount
      /\ InitCount' = InitCount /\ LastCount' = LastCount /\ AskCount' = AskCount
  BY <1>0, TasksStay
<1>2. ConnTypes' /\ Holders' /\ Between' /\ Waiting'
  BY <1>0, <1>1 DEF ConnTypes, Holders, Between, Waiting, Open
<1> QED
  BY <1>0, <1>1, <1>2 DEF ConnInv, Quiet

LEMMA OtherLeavesInv ==
    ASSUME ConnInv, OtherLeaves
    PROVE  ConnInv' /\ Quiet
<1>0. /\ ConnTypes /\ Holders /\ Between /\ Waiting
      /\ kind' = kind /\ up' = up /\ held' = held /\ handle' = handle /\ link' = "dead" /\ irps' = irps
      /\ listenActive' = listenActive /\ discActive' = discActive /\ todo' = todo
      /\ connections' = connections /\ disconnects' = disconnects
  BY DEF ConnInv, OtherLeaves, lock, flags, hist
<1>1. /\ Above' /\ Running' = Running /\ HoldCount' = HoldCount /\ WaitCount' = WaitCount
      /\ InitCount' = InitCount /\ LastCount' = LastCount /\ AskCount' = AskCount
  BY <1>0, TasksStay
<1>2. ConnTypes' /\ Holders' /\ Between' /\ Waiting'
  BY <1>0, <1>1 DEF ConnTypes, Holders, Between, Waiting, Open
<1> QED
  BY <1>0, <1>1, <1>2 DEF ConnInv, Quiet

\* A request's count; and what Move does.
LEMMA Moves ==
    ASSUME irps \in [Requests -> Nat], NEW from \in Requests, NEW to \in Requests, from # to, irps[from] > 0, Move(from, to)
    PROVE  /\ irps' \in [Requests -> Nat] /\ irps'[from] + 1 = irps[from] /\ irps'[to] = irps[to] + 1
           /\ \A o \in Requests : o # from /\ o # to => irps'[o] = irps[o]
<1>1. irps' = [irps EXCEPT ![from] = irps[from] - 1, ![to] = irps[to] + 1]
  BY DEF Move
<1>2. irps[from] - 1 \in Nat /\ irps[to] + 1 \in Nat /\ irps[from] - 1 + 1 = irps[from]
  OBVIOUS
<1> QED
  BY <1>1, <1>2

LEMMA AcceptInv ==
    ASSUME ConnInv, Accept
    PROVE  ConnInv' /\ Quiet
<1>0. /\ ConnTypes /\ Holders /\ Between /\ Waiting /\ irps["listen"] > 0 /\ handle # "closed" /\ Move("listen", "accepted")
      /\ kind' = kind /\ up' = up /\ held' = held /\ handle' = handle /\ link' = "up"
      /\ listenActive' = listenActive /\ discActive' = discActive /\ todo' = todo
      /\ connections' = connections /\ disconnects' = disconnects
  BY DEF ConnInv, Accept, lock, flags, hist
<1>1. /\ Above' /\ Running' = Running /\ HoldCount' = HoldCount /\ WaitCount' = WaitCount
      /\ InitCount' = InitCount /\ LastCount' = LastCount /\ AskCount' = AskCount
      /\ WaitCount \in Nat /\ InitCount \in Nat /\ (InitCount > 0 => WaitCount > 0)
  BY <1>0, TasksStay
<1>2. /\ irps' \in [Requests -> Nat] /\ irps'["listen"] + 1 = irps["listen"] /\ irps'["accepted"] = irps["accepted"] + 1
      /\ irps'["read"] = irps["read"] /\ irps'["write"] = irps["write"] /\ irps'["disc"] = irps["disc"]
      /\ irps'["got"] = irps["got"]
  <2>1. irps \in [Requests -> Nat] /\ {"listen", "accepted", "read", "write", "disc", "got"} \subseteq Requests
    BY <1>0 DEF ConnTypes, Requests
  <2> QED
    BY <1>0, <2>1, Moves
<1>3. irps["listen"] \in Nat /\ irps["accepted"] \in Nat /\ irps'["listen"] \in Nat /\ irps'["accepted"] \in Nat
  BY <1>0, <1>2, IrpsTyped DEF ConnTypes
<1>4. kind # "client"
  BY <1>0 DEF Waiting
<1>5. ConnTypes' /\ Holders' /\ Between'
  BY <1>0, <1>1, <1>2 DEF ConnTypes, Holders, Between
<1>6. WaitCount = 0 /\ irps["listen"] = 1 /\ irps["accepted"] = 0 /\ One(Open) = 0 /\ One(listenActive) = 1
  <2>1. (One(Open) = 0 \/ One(Open) = 1) /\ (One(listenActive) = 0 \/ One(listenActive) = 1)
    BY DEF One
  <2> QED
    BY <1>0, <1>1, <1>3, <1>4, <2>1 DEF Waiting
<1>7. Waiting'
  <2>1. InitCount' = 0 /\ WaitCount' = 0 /\ irps'["accepted"] = 1 /\ irps'["listen"] = 0 /\ One(Open') = 0 /\ One(listenActive') = 1
        /\ kind' # "client"
    BY <1>0, <1>1, <1>2, <1>3, <1>4, <1>6 DEF Open
  <2> QED
    BY <2>1 DEF Waiting
<1> QED
  BY <1>0, <1>1, <1>5, <1>7 DEF ConnInv, Quiet

LEMMA ArriveInv ==
    ASSUME ConnInv, Arrive
    PROVE  ConnInv' /\ Quiet
<1>0. /\ ConnTypes /\ Holders /\ Between /\ Waiting /\ irps["read"] > 0 /\ Move("read", "got")
      /\ kind' = kind /\ up' = up /\ held' = held /\ handle' = handle /\ link' = link
      /\ listenActive' = listenActive /\ discActive' = discActive /\ todo' = todo
      /\ connections' = connections /\ disconnects' = disconnects
  BY DEF ConnInv, Arrive, lock, flags, hist
<1>1. /\ Above' /\ Running' = Running /\ HoldCount' = HoldCount /\ WaitCount' = WaitCount
      /\ InitCount' = InitCount /\ LastCount' = LastCount /\ AskCount' = AskCount /\ HoldCount \in Nat
  BY <1>0, TasksStay
<1>2. /\ irps' \in [Requests -> Nat] /\ irps'["read"] + 1 = irps["read"] /\ irps'["got"] = irps["got"] + 1
      /\ irps'["listen"] = irps["listen"] /\ irps'["accepted"] = irps["accepted"]
      /\ irps'["write"] = irps["write"] /\ irps'["disc"] = irps["disc"]
  <2>1. irps \in [Requests -> Nat] /\ {"listen", "accepted", "read", "write", "disc", "got"} \subseteq Requests
    BY <1>0 DEF ConnTypes, Requests
  <2> QED
    BY <1>0, <2>1, Moves
<1>3. irps["read"] \in Nat /\ irps["write"] \in Nat /\ irps["disc"] \in Nat /\ irps["got"] \in Nat /\ irps'["read"] \in Nat
  BY <1>0, <1>2, IrpsTyped DEF ConnTypes
<1>4. ConnTypes' /\ Between' /\ Waiting'
  BY <1>0, <1>1, <1>2 DEF ConnTypes, Between, Waiting, Open
<1>5. Holders'
  BY <1>0, <1>1, <1>2, <1>3 DEF Holders
<1> QED
  BY <1>0, <1>1, <1>4, <1>5 DEF ConnInv, Quiet

LEMMA CallInv ==
    ASSUME ConnInv, Call
    PROVE  ConnInv' /\ Quiet
<1>0. Plain /\ todo[User] = <<>> /\ User \in ConnThreads
  BY DEF Call, Plain, ConnInv, ConnTypes, lock, flags, kernel, hist, ConnThreads
<1>1. Weighs("nothing", 0, 0, 0, 0, 0) /\ "nothing" \notin OnTasks
  BY Weights DEF OnTasks
<1>2. \A c \in {"write", "disconnect"} : Fits(<<c>>, 0, 0, 0, 0, 0) /\ Calm(<<c>>)
  BY OneTask, Weights DEF Tasks, OnTasks
<1>3. \A c \in {"listen", "connect"} : Fits(<<c>>, 0, 0, 0, 0, 1) /\ Calm(<<c>>)
  BY OneTask, Weights DEF Tasks, OnTasks
<1>4. Fits(TcpClose, 0, 0, 0, 0, 0) /\ Calm(TcpClose) /\ Fits(PipeClose, 0, 0, 0, 0, 0) /\ Calm(PipeClose)
  BY CloseTcp, ClosePipe DEF TcpClose, PipeClose
<1>5. \/ \E c \in {"write", "disconnect"} : Replaces(User, "nothing", <<c>>)
      \/ Replaces(User, "nothing", TcpClose) \/ Replaces(User, "nothing", PipeClose)
      \/ kind # "client" /\ \E c \in {"listen", "connect"} : Replaces(User, "nothing", <<c>>)
  <2>1. PICK c \in {<<"write">>, <<"disconnect">>, IF kind = "tcp" THEN TcpClose ELSE PipeClose}
                  \cup (IF kind = "client" THEN {} ELSE {<<"listen">>})
                  \cup (IF kind = "tcp" THEN {<<"connect">>} ELSE {}) : todo' = [todo EXCEPT ![User] = c]
    BY DEF Call
  <2>2. Replaces(User, "nothing", c)
    BY <1>0, <2>1 DEF Replaces
  <2> QED
    BY <2>1, <2>2
<1>6. CASE \E c \in {"write", "disconnect"} : Replaces(User, "nothing", <<c>>)
  BY <1>0, <1>1, <1>2, <1>6, QuietStep
<1>7. CASE Replaces(User, "nothing", TcpClose) \/ Replaces(User, "nothing", PipeClose)
  BY <1>0, <1>1, <1>4, <1>7, QuietStep
<1>8. CASE kind # "client" /\ \E c \in {"listen", "connect"} : Replaces(User, "nothing", <<c>>)
  BY <1>0, <1>1, <1>3, <1>8, QuietStep
<1> QED
  BY <1>5, <1>6, <1>7, <1>8

-----------------------------------------------------------------------------
\* A thread with a task that holds the connection is between OnConnect and OnDisconnect.
LEMMA HeldOpen ==
    ASSUME ConnInv, HoldCount \in Nat,
           HoldCount + irps["read"] + irps["write"] + irps["disc"] + irps["got"] > 0
    PROVE  connections = disconnects + 1
BY DEF ConnInv, Holders, Between

LEMMA TopHolds ==
    ASSUME ConnInv, NEW t \in ConnThreads, todo[t] # <<>>, Head(todo[t]) \in HoldTasks
    PROVE  connections = disconnects + 1
<1>1. todo \in [ConnThreads -> Seq(Tasks)] /\ irps \in [Requests -> Nat]
  BY DEF ConnInv, ConnTypes
<1>2. /\ Height(todo, t) \in Nat /\ Height(todo, t) # 0
      /\ Item(todo, t, Height(todo, t)) = Head(todo[t])
  BY <1>1, HeightIsNat
<1>3. Height(todo, t) \in 1 .. Height(todo, t)
  BY <1>2
<1>4. HoldCount > 0 /\ HoldCount \in Nat
  BY <1>1, <1>2, <1>3, ThreadsFinite, SomePlace, PlacesFinite DEF HoldCount
<1>5. irps["read"] \in Nat /\ irps["write"] \in Nat /\ irps["disc"] \in Nat /\ irps["got"] \in Nat
  BY <1>1, IrpsTyped
<1>6. HoldCount + irps["read"] + irps["write"] + irps["disc"] + irps["got"] > 0
  BY <1>4, <1>5
<1> QED
  BY <1>4, <1>6, HeldOpen

\* What a request that did not come about gives.
LEMMA PostFails ==
    ASSUME ConnInv, Plain, NEW t \in ConnThreads, NEW op \in {"read", "write", "disc"}, NEW tasks,
           Do(t, Post[op], tasks), Fits(tasks, 1, 0, 0, 0, 0)
    PROVE  ConnInv' /\ (Quiet \/ Enters(t))
<1>1. /\ Replaces(t, Post[op], tasks) /\ Post[op] \in HoldTasks /\ Post[op] \notin OnTasks
      /\ todo[t] # <<>> /\ Head(todo[t]) = Post[op]
  BY DEF Replaces, Post, HoldTasks, OnTasks, Do
<1> DEFINE x == Post[op]
<1>2. Replaces(t, x, tasks) /\ x \notin OnTasks /\ Weighs(x, 1, 0, 0, 0, 0)
  BY <1>1, Weights
<1> HIDE DEF x
<1>3. /\ ConnInv'
      /\ Running' = (Running \ {t}) \cup (IF Calm(tasks) THEN {} ELSE {t})
      /\ t \in Running <=> x \in OnTasks
  BY <1>2, PlainStep
<1>4. connections = disconnects + 1
  BY <1>1, TopHolds
<1> QED
  BY <1>2, <1>3, <1>4 DEF Quiet, Enters, Counting, Plain, ConnInv, ConnTypes

LEMMA PostListenFails ==
    ASSUME ConnInv, Plain, NEW t \in ConnThreads, Do(t, "post_listen", <<"not_connected">>)
    PROVE  ConnInv' /\ Quiet
<1>1. Replaces(t, "post_listen", <<"not_connected">>) /\ "post_listen" \notin OnTasks
  BY DEF Replaces, OnTasks
<1>2. Weighs("post_listen", 0, 1, 0, 0, 1)
  BY Weights
<1>3. Fits(<<"not_connected">>, 0, 1, 0, 0, 1) /\ Calm(<<"not_connected">>)
  BY OneTask, Weights DEF Tasks, OnTasks
<1> QED
  BY <1>1, <1>2, <1>3, QuietStep

\* A request takes over the task's hold of the connection.
LEMMA PostRequest ==
    ASSUME ConnInv, NEW t \in ConnThreads, NEW op \in {"read", "write", "disc"},
           kind' = kind, handle' = handle, link' = link, up' = up, held' = held,
           listenActive' = listenActive, discActive' = discActive, connections' = connections, disconnects' = disconnects,
           irps' = [irps EXCEPT ![op] = @ + 1], Do(t, Post[op], <<>>)
    PROVE  ConnInv' /\ Quiet
<1>0. ConnTypes /\ Holders /\ Between /\ Waiting
  BY DEF ConnInv
<1>1. Replaces(t, Post[op], <<>>) /\ Post[op] \in HoldTasks /\ Post[op] \notin OnTasks
  BY DEF Replaces, Post, HoldTasks, OnTasks
<1>2. Weighs(Post[op], 1, 0, 0, 0, 0)
  BY <1>1, Weights
<1>3. Above' /\ todo' \in [ConnThreads -> Seq(Tasks)] /\ Moved(0 - 1, 0 - 0, 0 - 0, 0 - 0, 0 - 0) /\ Running' = Running
  BY <1>1, <1>2, NoTasks, RunsOn
<1>4. /\ HoldCount' = HoldCount - 1 /\ WaitCount' = WaitCount /\ InitCount' = InitCount /\ LastCount' = LastCount
      /\ AskCount' = AskCount /\ HoldCount \in Nat /\ HoldCount' \in Nat
  BY <1>3 DEF Moved
<1>5. /\ irps["read"] \in Nat /\ irps["write"] \in Nat /\ irps["disc"] \in Nat /\ irps["got"] \in Nat
      /\ op \in Requests /\ irps \in [Requests -> Nat]
  BY <1>0, IrpsTyped DEF ConnTypes, Requests
<1>6. /\ irps' \in [Requests -> Nat] /\ irps'[op] = irps[op] + 1
      /\ \A o \in Requests : o # op => irps'[o] = irps[o]
  BY <1>5
<1>7. ConnTypes'
  BY <1>0, <1>3, <1>6 DEF ConnTypes
<1>8. irps'["listen"] = irps["listen"] /\ irps'["accepted"] = irps["accepted"] /\ irps'["got"] = irps["got"]
  BY <1>6 DEF Requests
<1>9. irps'["read"] + irps'["write"] + irps'["disc"] = irps["read"] + irps["write"] + irps["disc"] + 1
  <2>1. CASE op = "read"
    BY <1>5, <1>6, <2>1 DEF Requests
  <2>2. CASE op = "write"
    BY <1>5, <1>6, <2>2 DEF Requests
  <2>3. CASE op = "disc"
    BY <1>5, <1>6, <2>3 DEF Requests
  <2> QED
    BY <2>1, <2>2, <2>3
<1>10. Holders'
  <2> DEFINE n == HoldCount'   a == irps'["read"]   b == irps'["write"]   c == irps'["disc"]
             m == HoldCount    d == irps["read"]    e == irps["write"]    f == irps["disc"]    g == irps["got"]
  <2>1. n + 1 = m /\ n \in Nat /\ m \in Nat /\ held = m + d + e + f + g
    BY <1>0, <1>4 DEF Holders
  <2>2. a \in Nat /\ b \in Nat /\ c \in Nat /\ d \in Nat /\ e \in Nat /\ f \in Nat /\ g \in Nat /\ a + b + c = d + e + f + 1
    BY <1>5, <1>6, <1>9, IrpsTyped
  <2> HIDE DEF n, m, a, b, c, d, e, f, g
  <2>3. held = n + a + b + c + g
    BY <2>1, <2>2
  <2> QED
    BY <1>8, <2>3 DEF Holders, n, a, b, c, g
<1>11. Between'
  BY <1>0, <1>4 DEF Between
<1>12. Waiting'
  BY <1>0, <1>4, <1>8 DEF Waiting, Open
<1> QED
  BY <1>3, <1>7, <1>10, <1>11, <1>12 DEF ConnInv, Quiet

LEMMA PostListens ==
    ASSUME ConnInv, NEW t \in ConnThreads,
           kind' = kind, handle' = handle, link' = link, up' = up, held' = held,
           listenActive' = listenActive, discActive' = discActive, connections' = connections, disconnects' = disconnects,
           irps' = [irps EXCEPT !["listen"] = @ + 1], Do(t, "post_listen", <<>>)
    PROVE  ConnInv' /\ Quiet
<1>0. ConnTypes /\ Holders /\ Between /\ Waiting
  BY DEF ConnInv
<1>1. Replaces(t, "post_listen", <<>>) /\ "post_listen" \notin OnTasks
  BY DEF Replaces, OnTasks
<1>2. Weighs("post_listen", 0, 1, 0, 0, 1)
  BY Weights
<1>3. Above' /\ todo' \in [ConnThreads -> Seq(Tasks)] /\ Moved(0 - 0, 0 - 1, 0 - 0, 0 - 0, 0 - 1) /\ Running' = Running
  BY <1>1, <1>2, NoTasks, RunsOn
<1>4. /\ HoldCount' = HoldCount /\ WaitCount' = WaitCount - 1 /\ InitCount' = InitCount /\ LastCount' = LastCount
      /\ AskCount' = AskCount - 1 /\ WaitCount \in Nat /\ WaitCount' \in Nat /\ AskCount \in Nat /\ AskCount' \in Nat
  BY <1>3 DEF Moved
<1>5. irps["listen"] \in Nat /\ irps["accepted"] \in Nat /\ irps \in [Requests -> Nat]
  BY <1>0, IrpsTyped DEF ConnTypes
<1>6. /\ irps' \in [Requests -> Nat] /\ irps'["listen"] = irps["listen"] + 1 /\ irps'["accepted"] = irps["accepted"]
      /\ irps'["read"] = irps["read"] /\ irps'["write"] = irps["write"] /\ irps'["disc"] = irps["disc"]
      /\ irps'["got"] = irps["got"]
  BY <1>5 DEF Requests
<1>7. kind # "client"
  BY <1>0, <1>4 DEF Waiting
<1>8. ConnTypes'
  BY <1>0, <1>3, <1>6 DEF ConnTypes
<1>9. Holders' /\ Between'
  BY <1>0, <1>4, <1>6 DEF Holders, Between
<1>10. Waiting'
  <2>1. Open' = Open /\ (One(Open) = 0 \/ One(Open) = 1) /\ (One(listenActive) = 0 \/ One(listenActive) = 1)
    BY DEF Open, One
  <2>2. WaitCount' + 1 = WaitCount
    BY <1>4
  <2> DEFINE n == WaitCount'   m == WaitCount   o == One(Open)   x == irps'["listen"]   y == irps["listen"]   z == irps["accepted"]
  <2>3. n + 1 = m /\ n \in Nat /\ m \in Nat /\ o \in Nat /\ x = y + 1 /\ y \in Nat /\ z \in Nat
    BY <1>4, <1>5, <1>6, <2>1, <2>2
  <2> HIDE DEF n, m, o, x, y, z
  <2>4. n + x + z + o = m + y + z + o
    BY <2>3
  <2>5. WaitCount' + irps'["listen"] + irps'["accepted"] + One(Open') = WaitCount + irps["listen"] + irps["accepted"] + One(Open)
    BY <1>6, <2>1, <2>4 DEF n, m, o, x, y, z
  <2> QED
    BY <1>0, <1>4, <1>6, <1>7, <2>1, <2>5 DEF Waiting
<1> QED
  BY <1>3, <1>8, <1>9, <1>10 DEF ConnInv, Quiet

LEMMA PostIrpInv ==
    ASSUME ConnInv, NEW t \in ConnThreads, NEW op \in DOMAIN Post, PostIrp(t, op)
    PROVE  ConnInv' /\ (Quiet \/ Enters(t))
<1>0. /\ op \in {"listen", "read", "write", "disc"} /\ Post["listen"] = "post_listen"
      /\ kind' = kind /\ handle' = handle /\ link' = link /\ up' = up /\ held' = held
      /\ listenActive' = listenActive /\ discActive' = discActive /\ connections' = connections /\ disconnects' = disconnects
  BY DEF Post, PostIrp, lock, flags
<1>1. CASE irps' = [irps EXCEPT ![op] = @ + 1] /\ Do(t, Post[op], <<>>)
  <2>1. CASE op = "listen"
    BY <1>0, <1>1, <2>1, PostListens
  <2>2. CASE op # "listen"
    BY <1>0, <1>1, <2>2, PostRequest
  <2> QED
    BY <2>1, <2>2
<1>2. CASE irps' = irps /\ \/ \E s \in {"invalid", "other"} : Do(t, Post[op], Done(op, s))
                            \/ Do(t, Post[op], NoIrp(op))
  <2>1. Plain
    BY <1>0, <1>2 DEF Plain, ConnInv, ConnTypes
  <2>2. PICK tasks : Do(t, Post[op], tasks) /\ (tasks = NoIrp(op) \/ \E s \in {"invalid", "other"} : tasks = Done(op, s))
    BY <1>2
  <2>3. CASE op = "listen"
    <3>1. tasks = <<"not_connected">>
      BY <2>2, <2>3 DEF NoIrp, Done, ListenDone
    <3> QED
      BY <1>0, <2>1, <2>2, <2>3, <3>1, PostListenFails
  <2>4. CASE op # "listen"
    <3>1. op \in {"read", "write", "disc"}
      BY <1>0, <2>4
    <3>2. tasks \in CalmReleases \cup CallReleases \cup {<<"unlock">>}
      <4>1. CASE op = "read"
        <5>1. \A s : Done(op, s) = ReadDone(s) /\ NoIrp(op) = <<"unlock">>
          BY <4>1 DEF Done, NoIrp
        <5>2. <<"onread", "unlock">> \in CallReleases
          BY DEF CallReleases
        <5> QED
          BY <2>2, <5>1, <5>2, ReadGives
      <4>2. CASE op = "write"
        <5>1. \A s : Done(op, s) = WriteDone(s) /\ NoIrp(op) = <<"unlock">>
          BY <4>2 DEF Done, NoIrp
        <5> QED
          BY <2>2, <5>1, WriteGives
      <4>3. CASE op = "disc"
        <5>1. \A s : Done(op, s) = DiscDone(s) /\ NoIrp(op) = DiscDone("other")
          BY <4>3 DEF Done, NoIrp
        <5> QED
          BY <2>2, <5>1, DiscGives
      <4> QED
        BY <3>1, <4>1, <4>2, <4>3
    <3>3. Fits(<<"unlock">>, 1, 0, 0, 0, 0)
      BY OneTask, Weights DEF Tasks, OnTasks, HoldTasks
    <3>4. Fits(tasks, 1, 0, 0, 0, 0)
      BY <3>2, <3>3, Releases
    <3> QED
      BY <2>1, <2>2, <3>1, <3>4, PostFails
  <2> QED
    BY <2>3, <2>4
<1> QED
  BY <1>1, <1>2 DEF PostIrp

-----------------------------------------------------------------------------
\* A request is over: of the connection,
LEMMA RequestOver ==
    ASSUME ConnInv, NEW t \in ConnThreads, NEW op \in {"read", "write", "disc", "got"}, NEW tasks,
           irps[op] > 0, irps' = [irps EXCEPT ![op] = @ - 1],
           kind' = kind, handle' = handle, link' \in {"none", "up", "dead"}, up' = up, held' = held,
           listenActive' = listenActive, discActive' = discActive, connections' = connections, disconnects' = disconnects,
           Replaces(t, "nothing", tasks), Fits(tasks, 1, 0, 0, 0, 0)
    PROVE  ConnInv' /\ (Quiet \/ Enters(t))
<1>0. ConnTypes /\ Holders /\ Between /\ Waiting
  BY DEF ConnInv
<1>1. Weighs("nothing", 0, 0, 0, 0, 0) /\ "nothing" \notin OnTasks
  BY Weights DEF OnTasks
<1>2. /\ Above' /\ todo' \in [ConnThreads -> Seq(Tasks)] /\ Moved(1 - 0, 0 - 0, 0 - 0, 0 - 0, 0 - 0)
      /\ Running' = (Running \ {t}) \cup (IF Calm(tasks) THEN {} ELSE {t})
      /\ t \in Running <=> "nothing" \in OnTasks
  BY <1>1, Replaced
<1>3. /\ HoldCount' = HoldCount + 1 /\ WaitCount' = WaitCount /\ InitCount' = InitCount /\ LastCount' = LastCount
      /\ AskCount' = AskCount /\ HoldCount \in Nat /\ HoldCount' \in Nat
  BY <1>2 DEF Moved
<1>4. /\ irps["read"] \in Nat /\ irps["write"] \in Nat /\ irps["disc"] \in Nat /\ irps["got"] \in Nat
      /\ op \in Requests /\ irps \in [Requests -> Nat]
  BY <1>0, IrpsTyped DEF ConnTypes, Requests
<1>5. /\ irps' \in [Requests -> Nat] /\ irps'[op] + 1 = irps[op]
      /\ \A o \in Requests : o # op => irps'[o] = irps[o]
  <2>1. irps[op] - 1 \in Nat /\ irps[op] - 1 + 1 = irps[op]
    BY <1>4
  <2> QED
    BY <1>4, <2>1
<1>6. irps'["listen"] = irps["listen"] /\ irps'["accepted"] = irps["accepted"]
  BY <1>5 DEF Requests
<1>7. irps'["read"] + irps'["write"] + irps'["disc"] + irps'["got"] + 1 = irps["read"] + irps["write"] + irps["disc"] + irps["got"]
  <2>0. irps'["read"] \in Nat /\ irps'["write"] \in Nat /\ irps'["disc"] \in Nat /\ irps'["got"] \in Nat
    BY <1>5, IrpsTyped
  <2>1. CASE op = "read"
    BY <1>4, <1>5, <2>0, <2>1 DEF Requests
  <2>2. CASE op = "write"
    BY <1>4, <1>5, <2>0, <2>2 DEF Requests
  <2>3. CASE op = "disc"
    BY <1>4, <1>5, <2>0, <2>3 DEF Requests
  <2>4. CASE op = "got"
    BY <1>4, <1>5, <2>0, <2>4 DEF Requests
  <2> QED
    BY <2>1, <2>2, <2>3, <2>4
<1>8. ConnTypes'
  BY <1>0, <1>2, <1>5 DEF ConnTypes
<1>9. Holders'
  <2> DEFINE n == HoldCount'   a == irps'["read"]   b == irps'["write"]   c == irps'["disc"]   g == irps'["got"]
             m == HoldCount    d == irps["read"]    e == irps["write"]    f == irps["disc"]    h == irps["got"]
  <2>1. n = m + 1 /\ n \in Nat /\ m \in Nat /\ held = m + d + e + f + h
    BY <1>0, <1>3 DEF Holders
  <2>2. /\ a \in Nat /\ b \in Nat /\ c \in Nat /\ d \in Nat /\ e \in Nat /\ f \in Nat /\ g \in Nat /\ h \in Nat
        /\ a + b + c + g + 1 = d + e + f + h
    BY <1>4, <1>5, <1>7, IrpsTyped
  <2> HIDE DEF n, m, a, b, c, d, e, f, g, h
  <2>3. held = n + a + b + c + g
    BY <2>1, <2>2
  <2> QED
    BY <2>3 DEF Holders, n, a, b, c, g
<1>10. Between'
  BY <1>0, <1>3 DEF Between
<1>11. Waiting'
  BY <1>0, <1>3, <1>6 DEF Waiting, Open
<1>12. connections = disconnects + 1
  <2>1. HoldCount + irps["read"] + irps["write"] + irps["disc"] + irps["got"] > 0
    BY <1>3, <1>4
  <2> QED
    BY <1>3, <2>1, HeldOpen
<1> QED
  BY <1>0, <1>1, <1>2, <1>8, <1>9, <1>10, <1>11, <1>12 DEF ConnInv, Quiet, Enters, Counting, ConnTypes

\* or for the next one.
LEMMA WaitOver ==
    ASSUME ConnInv, NEW t \in ConnThreads, NEW op \in {"accepted", "listen"}, NEW tasks,
           irps[op] > 0, irps' = [irps EXCEPT ![op] = @ - 1],
           kind' = kind, handle' = handle, link' \in {"none", "up", "dead"}, up' = up, held' = held,
           listenActive' = listenActive, discActive' = discActive, connections' = connections, disconnects' = disconnects,
           Replaces(t, "nothing", tasks),
           \/ op = "accepted" /\ tasks = <<"init", "onconnect">>
           \/ op = "listen" /\ tasks = <<"not_connected">>
    PROVE  ConnInv' /\ Quiet
<1>0. ConnTypes /\ Holders /\ Between /\ Waiting
  BY DEF ConnInv
<1>1. Weighs("nothing", 0, 0, 0, 0, 0) /\ "nothing" \notin OnTasks
  BY Weights DEF OnTasks
<1>2. /\ irps["listen"] \in Nat /\ irps["accepted"] \in Nat /\ op \in Requests /\ irps \in [Requests -> Nat]
  BY <1>0, IrpsTyped DEF ConnTypes, Requests
<1>3. /\ irps' \in [Requests -> Nat] /\ irps'[op] + 1 = irps[op]
      /\ \A o \in Requests : o # op => irps'[o] = irps[o]
  <2>1. irps[op] - 1 \in Nat /\ irps[op] - 1 + 1 = irps[op]
    BY <1>2
  <2> QED
    BY <1>2, <2>1
<1>4. irps'["read"] = irps["read"] /\ irps'["write"] = irps["write"] /\ irps'["disc"] = irps["disc"] /\ irps'["got"] = irps["got"]
  BY <1>3 DEF Requests
<1>5. irps'["listen"] \in Nat /\ irps'["accepted"] \in Nat
  BY <1>3, IrpsTyped
<1>6. CASE op = "accepted"
  <2>1. Replaces(t, "nothing", <<"init", "onconnect">>)
    BY <1>6
  <2>2. Above' /\ todo' \in [ConnThreads -> Seq(Tasks)] /\ Moved(0 - 0, 1 - 0, 1 - 0, 0 - 0, 0 - 0) /\ Running' = Running
    BY <1>1, <2>1, NewConnection, RunsOn
  <2>3. /\ HoldCount' = HoldCount /\ WaitCount' = WaitCount + 1 /\ InitCount' = InitCount + 1 /\ LastCount' = LastCount
        /\ AskCount' = AskCount /\ WaitCount \in Nat /\ InitCount \in Nat
    BY <2>2 DEF Moved
  <2>4. irps'["accepted"] + 1 = irps["accepted"] /\ irps'["listen"] = irps["listen"]
    BY <1>3, <1>6 DEF Requests
  <2>5. ConnTypes' /\ Holders' /\ Between'
    BY <1>0, <1>3, <1>4, <2>2, <2>3 DEF ConnTypes, Holders, Between
  <2>6. Waiting'
    <3>1. Open' = Open /\ (One(Open) = 0 \/ One(Open) = 1) /\ (One(listenActive) = 0 \/ One(listenActive) = 1)
      BY DEF Open, One
    <3> DEFINE w == WaitCount   i == InitCount   a == irps'["accepted"]   b == irps["accepted"]   l == irps["listen"]   o == One(Open)
    <3>2. w \in Nat /\ i \in Nat /\ a \in Nat /\ b \in Nat /\ l \in Nat /\ o \in Nat /\ a + 1 = b
      BY <1>2, <1>5, <2>3, <2>4, <3>1
    <3> HIDE DEF w, i, a, b, l, o
    <3>3. i + 1 + a + o = i + b + o /\ w + 1 + l + a + o = w + l + b + o
      BY <3>2
    <3>4. InitCount' + irps'["accepted"] + One(Open') = InitCount + irps["accepted"] + One(Open)
      BY <2>3, <3>1, <3>3 DEF i, a, b, o
    <3>5. WaitCount' + irps'["listen"] + irps'["accepted"] + One(Open') = WaitCount + irps["listen"] + irps["accepted"] + One(Open)
      BY <2>3, <2>4, <3>1, <3>3 DEF w, l, a, b, o
    <3> QED
      BY <1>0, <2>3, <2>4, <3>1, <3>4, <3>5 DEF Waiting
  <2> QED
    BY <2>2, <2>5, <2>6 DEF ConnInv, Quiet
<1>7. CASE op = "listen"
  <2>1. Replaces(t, "nothing", <<"not_connected">>)
    BY <1>7
  <2>2. Fits(<<"not_connected">>, 0, 1, 0, 0, 1) /\ Calm(<<"not_connected">>)
    BY OneTask, Weights DEF Tasks, OnTasks
  <2>3. Above' /\ todo' \in [ConnThreads -> Seq(Tasks)] /\ Moved(0 - 0, 1 - 0, 0 - 0, 0 - 0, 1 - 0) /\ Running' = Running
    BY <1>1, <2>1, <2>2, RunsOn
  <2>4. /\ HoldCount' = HoldCount /\ WaitCount' = WaitCount + 1 /\ InitCount' = InitCount /\ LastCount' = LastCount
        /\ WaitCount \in Nat /\ InitCount \in Nat
    BY <2>3 DEF Moved
  <2>5. irps'["listen"] + 1 = irps["listen"] /\ irps'["accepted"] = irps["accepted"]
    BY <1>3, <1>7 DEF Requests
  <2>6. ConnTypes' /\ Holders' /\ Between'
    BY <1>0, <1>3, <1>4, <2>3, <2>4 DEF ConnTypes, Holders, Between
  <2>7. kind # "client"
    BY <1>0, <1>7 DEF Waiting
  <2>8. Waiting'
    <3>1. Open' = Open /\ (One(Open) = 0 \/ One(Open) = 1) /\ (One(listenActive) = 0 \/ One(listenActive) = 1)
      BY DEF Open, One
    <3> DEFINE w == WaitCount   a == irps'["listen"]   b == irps["listen"]   l == irps["accepted"]   o == One(Open)
    <3>2. w \in Nat /\ a \in Nat /\ b \in Nat /\ l \in Nat /\ o \in Nat /\ a + 1 = b
      BY <1>2, <1>5, <2>4, <2>5, <3>1
    <3> HIDE DEF w, a, b, l, o
    <3>3. w + 1 + a + l + o = w + b + l + o
      BY <3>2
    <3>4. WaitCount' + irps'["listen"] + irps'["accepted"] + One(Open') = WaitCount + irps["listen"] + irps["accepted"] + One(Open)
      BY <2>4, <2>5, <3>1, <3>3 DEF w, l, a, b, o
    <3> QED
      BY <1>0, <2>4, <2>5, <2>7, <3>1, <3>4 DEF Waiting
  <2> QED
    BY <2>3, <2>6, <2>8 DEF ConnInv, Quiet
<1> QED
  BY <1>6, <1>7

LEMMA OnIoCompleteInv ==
    ASSUME ConnInv, NEW w \in Worker, NEW op \in Requests, OnIoComplete(w, op)
    PROVE  ConnInv' /\ (Quiet \/ Enters(w))
<1>1. PICK o \in Outcome(op) : /\ todo' = [todo EXCEPT ![w] = Done(o[1], o[2])]
                               /\ link' = IF o = <<"disc", "ok">> THEN "dead" ELSE link
  BY DEF OnIoComplete
<1> DEFINE tasks == Done(o[1], o[2])
<1>2. /\ w \in ConnThreads /\ irps[op] > 0 /\ irps' = [irps EXCEPT ![op] = @ - 1]
      /\ kind' = kind /\ handle' = handle /\ link' \in {"none", "up", "dead"} /\ up' = up /\ held' = held
      /\ listenActive' = listenActive /\ discActive' = discActive /\ connections' = connections /\ disconnects' = disconnects
      /\ Replaces(w, "nothing", tasks)
  <2>1. /\ w \in ConnThreads /\ irps[op] > 0 /\ irps' = [irps EXCEPT ![op] = @ - 1] /\ todo[w] = <<>>
        /\ kind' = kind /\ handle' = handle /\ up' = up /\ held' = held
        /\ listenActive' = listenActive /\ discActive' = discActive /\ connections' = connections /\ disconnects' = disconnects
    BY DEF ConnThreads, OnIoComplete, lock, flags, hist
  <2>2. link' \in {"none", "up", "dead"}
    BY <1>1 DEF ConnInv, ConnTypes
  <2>3. Replaces(w, "nothing", tasks)
    BY <1>1, <2>1 DEF Replaces
  <2> QED
    BY <2>1, <2>2, <2>3
<1>3. CASE op = "accepted"
  <2>1. tasks = <<"init", "onconnect">>
    BY <1>1, <1>3 DEF Outcome, Done, ListenDone
  <2> HIDE DEF tasks
  <2> QED
    BY <1>2, <1>3, <2>1, WaitOver
<1>4. CASE op = "listen"
  <2>1. tasks = <<"not_connected">>
    BY <1>1, <1>4 DEF Outcome, Done, ListenDone
  <2> HIDE DEF tasks
  <2> QED
    BY <1>2, <1>4, <2>1, WaitOver
<1>5. CASE op \in {"read", "write", "disc", "got"}
  <2>1. tasks \in CalmReleases \cup CallReleases
    <3>1. <<"onread", "unlock">> \in CallReleases
      BY DEF CallReleases
    <3>2. CASE op = "got" \/ op = "read"
      <4>1. o[1] = "read"
        BY <1>1, <3>2 DEF Outcome
      <4>2. tasks = ReadDone(o[2])
        BY <4>1 DEF Done
      <4> HIDE DEF tasks
      <4> QED
        BY <3>1, <4>2, ReadGives
    <3>3. CASE op = "write"
      <4>1. o[1] = "write"
        BY <1>1, <3>3 DEF Outcome
      <4>2. tasks = WriteDone(o[2])
        BY <4>1 DEF Done
      <4> HIDE DEF tasks
      <4> QED
        BY <4>2, WriteGives
    <3>4. CASE op = "disc"
      <4>1. o[1] = "disc"
        BY <1>1, <3>4 DEF Outcome
      <4>2. tasks = DiscDone(o[2])
        BY <4>1 DEF Done
      <4> HIDE DEF tasks
      <4> QED
        BY <4>2, DiscGives
    <3> QED
      BY <1>5, <3>2, <3>3, <3>4
  <2> HIDE DEF tasks
  <2>2. Fits(tasks, 1, 0, 0, 0, 0)
    BY <2>1, Releases
  <2> QED
    BY <1>2, <1>5, <2>2, RequestOver
<1> QED
  BY <1>3, <1>4, <1>5 DEF Requests

-----------------------------------------------------------------------------
\* At first only the user's thread has something to do.
LEMMA InitInv == ConnInit => ConnInv /\ Running = {}
<1> SUFFICES ASSUME ConnInit PROVE ConnInv /\ Running = {}
  OBVIOUS
<1> DEFINE f == [t \in ConnThreads |-> <<>>]
<1>0. /\ User \in ConnThreads /\ kind \in {"tcp", "server", "client"} /\ up = FALSE /\ held = 0 /\ listenActive = FALSE
      /\ discActive = FALSE /\ handle = "open" /\ link \in {"none", "up"} /\ irps = [o \in Requests |-> 0]
      /\ connections = 0 /\ disconnects = 0
  BY DEF ConnInit, ConnThreads
<1>1. f \in [ConnThreads -> Seq(Tasks)] /\ todo = [f EXCEPT ![User] = Assign]
  BY <1>0 DEF ConnInit
<1>2. \A t \in ConnThreads : Height(f, t) = 0
  BY DEF Height
<1>3. \/ kind = "client" /\ Fits(Assign, 0, 1, 1, 0, 0) /\ Calm(Assign)
      \/ kind # "client" /\ Fits(Assign, 0, 0, 0, 0, 1) /\ Calm(Assign)
  <2>1. Fits(<<"listen">>, 0, 0, 0, 0, 1) /\ Calm(<<"listen">>)
    BY OneTask, Weights DEF Tasks, OnTasks
  <2> QED
    BY <2>1, NewConnection DEF Assign, ListenDone
<1> HIDE DEF f
<1>4. Assign \in Seq(Tasks) /\ OnFirst(Assign) /\ Calm(Assign)
  BY <1>3 DEF Fits
<1>5. todo \in [ConnThreads -> Seq(Tasks)] /\ Pushed(f, todo, ConnThreads, User, 0, Assign)
  BY <1>0, <1>1, <1>4, NewPushes
<1>6. \A K : Number(todo, ConnThreads, K) = Given(Assign, K)
  <2>1. ASSUME NEW K PROVE Number(todo, ConnThreads, K) = Given(Assign, K)
    <3>0. /\ IsFiniteSet(ConnThreads) /\ f \in [ConnThreads -> Seq(Tasks)] /\ todo \in [ConnThreads -> Seq(Tasks)]
          /\ User \in ConnThreads /\ Assign \in Seq(Tasks) /\ Pushed(f, todo, ConnThreads, User, 0, Assign)
      BY <1>0, <1>1, <1>4, <1>5, ThreadsFinite
    <3>1. /\ Number(todo, ConnThreads, K) + Dropped(f, User, 0, K) = Number(f, ConnThreads, K) + Given(Assign, K)
          /\ Number(todo, ConnThreads, K) \in Nat /\ Number(f, ConnThreads, K) \in Nat
          /\ Dropped(f, User, 0, K) \in Nat /\ Given(Assign, K) \in Nat
      BY <3>0, Counted
    <3>2. \A h \in 0 + 1 .. Height(f, User) : Item(f, User, h) \notin K
      BY <1>0, <1>2
    <3>3. Dropped(f, User, 0, K) = 0
      BY <3>2, DroppedNone
    <3>4. ~(Number(f, ConnThreads, K) > 0)
      <4>1. ~(\E t \in ConnThreads : \E h \in 1 .. Height(f, t) : Item(f, t, h) \in K)
        BY <1>2
      <4> QED
        BY <1>1, <4>1, ThreadsFinite, SomePlace
    <3> DEFINE p == Number(todo, ConnThreads, K)   q == Number(f, ConnThreads, K)   g == Given(Assign, K)   d == Dropped(f, User, 0, K)
    <3>5. p + d = q + g /\ p \in Nat /\ q \in Nat /\ g \in Nat /\ d = 0 /\ ~(q > 0)
      BY <3>1, <3>3, <3>4
    <3> HIDE DEF p, q, g, d
    <3>6. p = g
      BY <3>5
    <3> QED
      BY <3>6 DEF p, g
  <2> QED
    BY <2>1
<1>7. /\ HoldCount = Given(Assign, HoldTasks) /\ WaitCount = Given(Assign, WaitTasks) /\ InitCount = Given(Assign, {"init"})
      /\ LastCount = Given(Assign, {"last_out"}) /\ AskCount = Given(Assign, AskTasks)
  BY <1>6 DEF HoldCount, WaitCount, InitCount, LastCount, AskCount
<1>8. /\ HoldCount = 0 /\ LastCount = 0 /\ InitCount \in {0, 1} /\ (kind = "client" => AskCount = 0)
      /\ kind # "client" => WaitCount = 0 /\ InitCount = 0
  BY <1>3, <1>7 DEF Fits, Gives
<1>9. ConnTypes
  BY <1>0, <1>5 DEF ConnTypes
<1>10. /\ irps["listen"] = 0 /\ irps["read"] = 0 /\ irps["write"] = 0 /\ irps["disc"] = 0 /\ irps["accepted"] = 0
       /\ irps["got"] = 0
  BY <1>0 DEF Requests
<1>11. Holders /\ Between
  BY <1>0, <1>8, <1>10 DEF Holders, Between
<1>12. Waiting
  <2>1. One(Open) = 0 /\ One(listenActive) = 0
    BY <1>0 DEF Open, One
  <2> QED
    BY <1>8, <1>10, <2>1 DEF Waiting
<1>13. Comes(f, todo, ConnThreads, User, 0, Assign)
  BY <1>0, <1>1, <1>4, <1>5, Origin
<1>14. \A t \in ConnThreads : \A h \in 1 .. Height(todo, t) : Item(todo, t, h) \notin OnTasks
  <2>1. ASSUME NEW t \in ConnThreads, NEW h \in 1 .. Height(todo, t) PROVE Item(todo, t, h) \notin OnTasks
    <3>1. ~(h \in 1 .. Height(f, t))
      BY <1>2
    <3>2. \E i \in 1 .. Len(Assign) : Item(todo, t, h) = Assign[i]
      BY <1>13, <3>1 DEF Comes
    <3>3. \A i \in 1 .. Len(Assign) : Assign[i] \notin OnTasks
      <4>1. ASSUME NEW i \in 1 .. Len(Assign), Assign[i] \in OnTasks PROVE FALSE
        <5>1. i = 1
          BY <1>4, <4>1 DEF OnFirst
        <5>2. Assign # <<>>
          BY <1>4, <4>1
        <5> QED
          BY <1>4, <4>1, <5>1, <5>2 DEF Calm
      <4> QED
        BY <4>1
    <3> QED
      BY <3>2, <3>3
  <2> QED
    BY <2>1
<1>15. Above
  BY <1>14 DEF Above
<1>16. Running = {}
  <2>1. Running = {u \in ConnThreads : Height(todo, u) > 0 /\ Item(todo, u, Height(todo, u)) \in OnTasks}
    BY <1>5, RunningIs DEF Running, OnTasks
  <2>2. \A u \in ConnThreads : Height(todo, u) \in Nat
    BY <1>5, HeightIsNat
  <2>3. \A u \in ConnThreads : Height(todo, u) > 0 => Height(todo, u) \in 1 .. Height(todo, u)
    BY <2>2
  <2> QED
    BY <1>14, <2>1, <2>3
<1> QED
  BY <1>9, <1>11, <1>12, <1>15, <1>16 DEF ConnInv

-----------------------------------------------------------------------------
\* Every step keeps the invariant and is one that ConnectionSpec knows.
Known == Quiet \/ Begins \/ Finishes \/ \E t \in ConnThreads : Enters(t) \/ Returns(t)

LEMMA ConnStep ==
    ASSUME ConnInv, [ConnNext]_connVars
    PROVE  ConnInv' /\ Known
<1>1. CASE UNCHANGED connVars
  <2>1. /\ kind' = kind /\ up' = up /\ held' = held /\ handle' = handle /\ link' = link /\ irps' = irps
        /\ listenActive' = listenActive /\ discActive' = discActive /\ todo' = todo
        /\ connections' = connections /\ disconnects' = disconnects
    BY <1>1 DEF connVars, lock, flags, kernel, hist
  <2>2. /\ Above' /\ Running' = Running /\ HoldCount' = HoldCount /\ WaitCount' = WaitCount
        /\ InitCount' = InitCount /\ LastCount' = LastCount /\ AskCount' = AskCount
    BY <2>1, TasksStay
  <2>3. ConnTypes' /\ Holders' /\ Between' /\ Waiting'
    BY <2>1, <2>2 DEF ConnInv, ConnTypes, Holders, Between, Waiting, Open
  <2> QED
    BY <2>1, <2>2, <2>3 DEF ConnInv, Known, Quiet
<1>2. CASE Call \/ CloseObjectHandle \/ Accept \/ Arrive \/ OtherLeaves
  BY <1>2, CallInv, CloseObjectHandleInv, AcceptInv, ArriveInv, OtherLeavesInv DEF Known
<1>3. ASSUME NEW w \in Worker, NEW op \in Requests, OnIoComplete(w, op)
      PROVE  ConnInv' /\ Known
  <2>1. w \in ConnThreads
    BY DEF ConnThreads
  <2> QED
    BY <1>3, <2>1, OnIoCompleteInv DEF Known
<1>4. ASSUME NEW t \in ConnThreads, Step(t)
      PROVE  ConnInv' /\ Known
  <2>1. CASE Listen(t) \/ Connect(t) \/ Read(t) \/ Write(t) \/ End(t)
    BY <2>1, ListenInv, ConnectInv, ReadInv, WriteInv, EndInv DEF Known
  <2>2. CASE Disconnect(t) \/ Rundown(t) \/ Once(t) \/ NotConnected(t)
    BY <2>2, DisconnectInv, RundownInv, OnceInv, NotConnectedInv DEF Known
  <2>3. CASE Connected(t)
    BY <2>3, ConnectedInv DEF Known
  <2>4. CASE Callbacks(t)
    BY <2>4, CallbacksInv DEF Known
  <2>5. CASE Disconnected(t) \/ Unlock(t) \/ CloseHandle(t)
    BY <2>5, DisconnectedInv, UnlockInv, CloseHandleInv DEF Known
  <2>6. CASE LastOut(t)
    BY <2>6, LastOutInv DEF Known
  <2>7. ASSUME NEW op \in DOMAIN Post, PostIrp(t, op)
        PROVE  ConnInv' /\ Known
    BY <2>7, PostIrpInv DEF Known
  <2> QED
    BY <1>4, <2>1, <2>2, <2>3, <2>4, <2>5, <2>6, <2>7 DEF Step
<1> QED
  BY <1>1, <1>2, <1>3, <1>4 DEF ConnNext

\* The library's connections: the lock's count is its holders, there is a connection as
\* long as somebody may use it, and OnRecv and OnSend run above a task that releases it
\* (src/asio/socket.h:199-216, socket.cpp:868-989, pipe.cpp:411-481).
THEOREM ConnectionBooks == ConnSpec => []ConnInv
<1>1. ConnInit => ConnInv
  BY InitInv
<1>2. ConnInv /\ [ConnNext]_connVars => ConnInv'
  BY ConnStep
<1> QED
  BY <1>1, <1>2, PTL DEF ConnSpec

\* The threads in OnRecv and OnSend are counted.
LEMMA RunningCounted ==
    ASSUME ConnInv, ConnInv'
    PROVE  /\ IsFiniteSet(Running) /\ Cardinality(Running) \in Nat
           /\ Running' = Running => Cardinality(Running') = Cardinality(Running)
           /\ \A t : t \notin Running /\ Running' = Running \cup {t} => Cardinality(Running') = Cardinality(Running) + 1
           /\ \A t : t \in Running /\ Running' = Running \ {t} =>
                  Cardinality(Running') = Cardinality(Running) - 1 /\ Cardinality(Running) > 0
<1>1. IsFiniteSet(Running) /\ Cardinality(Running) \in Nat
  <2>1. Running \subseteq ConnThreads
    BY DEF Running
  <2> QED
    BY <2>1, ThreadsFinite, FS_Subset, FS_CardinalityType
<1>2. ASSUME NEW t, t \notin Running, Running' = Running \cup {t}
      PROVE  Cardinality(Running') = Cardinality(Running) + 1
  <2>1. Cardinality(Running \cup {t}) = Cardinality(Running) + 1
    BY <1>1, <1>2, FS_AddElement
  <2> QED
    BY <1>2, <2>1
<1>3. ASSUME NEW t, t \in Running, Running' = Running \ {t}
      PROVE  Cardinality(Running') = Cardinality(Running) - 1 /\ Cardinality(Running) > 0
  <2>1. Cardinality(Running \ {t}) = Cardinality(Running) - 1
    BY <1>1, <1>3, FS_RemoveElement
  <2>2. Cardinality(Running) # 0
    BY <1>1, <1>3, FS_EmptySet
  <2> QED
    BY <1>1, <1>3, <2>1, <2>2
<1> QED
  BY <1>1, <1>2, <1>3

\* Whatever combination of a failing read, a failing write, Disconnect and Close ends a
\* connection, OnDisconnect is called once for it, and no OnRecv or OnSend runs beside
\* it or after it (src/asio/socket.h:204-211, pipe.h:45-52): the steps are steps of
\* ConnectionSpec.
THEOREM ConnectionImplements == ConnSpec => CallbacksKept
<1>1. ConnInit => User_!Init
  <2>1. ASSUME ConnInit PROVE connections = 0 /\ disconnects = 0 /\ Cardinality(Running) = 0
    BY <2>1, InitInv, FS_EmptySet DEF ConnInit
  <2> QED
    BY <2>1 DEF User_!Init
<1>2. ASSUME ConnInv, ConnInv', [ConnNext]_connVars
      PROVE  [User_!Next]_<<connections, disconnects, Cardinality(Running)>>
  <2>1. Known /\ connections \in Nat /\ disconnects \in Nat
    BY <1>2, ConnStep DEF ConnInv, ConnTypes
  <2>2. CASE Quiet
    BY <1>2, <2>2, RunningCounted DEF Quiet
  <2>3. CASE Begins
    <3>1. Cardinality(Running') = Cardinality(Running) /\ connections = disconnects
          /\ connections' = connections + 1 /\ disconnects' = disconnects
      BY <1>2, <2>1, <2>3, RunningCounted DEF Begins, Counting
    <3>2. User_!Connect
      BY <3>1 DEF User_!Connect
    <3> QED
      BY <3>2 DEF User_!Next
  <2>4. CASE Finishes
    <3>1. Cardinality(Running) = 0 /\ Cardinality(Running') = 0 /\ connections = disconnects + 1
          /\ connections' = connections /\ disconnects' = disconnects + 1
      BY <2>1, <2>4, FS_EmptySet DEF Finishes, Counting
    <3>2. User_!Disconnect
      BY <3>1 DEF User_!Disconnect
    <3> QED
      BY <3>2 DEF User_!Next
  <2>5. ASSUME NEW t \in ConnThreads, Enters(t)
        PROVE  User_!Next
    <3>0. t \notin Running /\ Running' = Running \cup {t} /\ connections = disconnects + 1
          /\ connections' = connections /\ disconnects' = disconnects
      BY <2>1, <2>5 DEF Enters, Counting
    <3>1. Cardinality(Running') = Cardinality(Running) + 1
      BY <1>2, <3>0, RunningCounted
    <3>2. User_!Callback
      BY <3>0, <3>1 DEF User_!Callback
    <3> QED
      BY <3>2 DEF User_!Next
  <2>6. ASSUME NEW t \in ConnThreads, Returns(t)
        PROVE  User_!Next
    <3>1. Cardinality(Running') = Cardinality(Running) - 1 /\ Cardinality(Running) > 0
          /\ connections' = connections /\ disconnects' = disconnects
      BY <1>2, <2>1, <2>6, RunningCounted DEF Returns, Counting
    <3>2. User_!Return
      BY <3>1 DEF User_!Return
    <3> QED
      BY <3>2 DEF User_!Next
  <2> QED
    BY <2>1, <2>2, <2>3, <2>4, <2>5, <2>6 DEF Known
<1> QED
  BY <1>1, <1>2, ConnectionBooks, PTL DEF ConnSpec, CallbacksKept, User_!Spec
=============================================================================
