---------------------------- MODULE SessionProof ----------------------------
(***************************************************************************)
(* Proofs about Session for any number of receives, clicks, server         *)
(* endpoints and faults of the network.                                    *)
(*                                                                         *)
(* The argument is a baton that goes round between the dialog and the      *)
(* endpoint.  A session ends once: the rundown lock goes to "off" at one   *)
(* thread, which destroys the key and then posts e_disconnected; OneEnd    *)
(* says that only one of these is going on.  The dialog enables Connect    *)
(* when it hears of it, so that as long as Connect can be clicked, or was  *)
(* and Init is still to come, nothing of a session is left (Connecting).   *)
(* A private key exists only between Init and its destruction (KeyInUse).  *)
(***************************************************************************)
EXTENDS Session, TLAPS

\* Who is where: the receives inside m_rp are those past Enter; the dialog is inside
\* the end of a session only from Disconnect or from a Connect that failed.
Inside == {"decode", "private", "adopt", "onconnect", "leave"}
Places ==
    /\ \A t \in Recv :
         /\ pc[t] \in RecvPcs \cup EndPcs /\ after[t] \in {"idle", "unlink"}
         /\ t \in users <=> pc[t] \in Inside
    /\ pc[UI] \in UIPcs \cup EndPcs /\ UI \notin users
    /\ pc[UI] \in EndPcs => after[UI] \in {"undo", "cleared"}
    /\ phase = "off" => users = {}
    /\ pc[UI] \in {"setkey", "init"} => attempt < MaxConnects

\* Threads in OnDisconnect; the dialog has yet to hear of it; all is over.
Ender(t) == pc[t] \in {"key", "post"}
Told == \E i \in 1 .. Len(posted) : posted[i] = "e_disconnected"
Over == phase = "off" /\ \A t \in Threads : ~Ender(t)

\* OnDisconnect runs on one thread, after the session and before the message.
OneEnd ==
    ~stray =>
        /\ \A t \in Threads : Ender(t) => phase = "off" /\ ~Told
        /\ \A t, u \in Threads : Ender(t) /\ Ender(u) => t = u
        /\ Told => phase = "off"
        /\ \A i \in 1 .. Len(posted) : posted[i] = "e_disconnected" => i = Len(posted)

\* Connect cannot be clicked, or is past Init, while a session is not over.
Connecting ==
    ~stray =>
        /\ \/ Over \/ ~btnConnect
           \/ pc[UI] \in {"reset", "add", "send", "connected"}
           \/ pc[UI] \in EndPcs /\ after[UI] = "undo"
        /\ pc[UI] \in {"setkey", "init"} => btnConnect /\ posted = <<>>

\* A key belongs to an attempt that is not over.
KeyInUse ==
    ~stray /\ hKey =>
        \/ pc[UI] = "init" \/ phase # "off"
        \/ \E t \in Threads : pc[t] = "key"

\* One receive at a time carries an answer's key to the cookie.
Keys ==
    ~mixed =>
        /\ \A t \in Recv : pc[t] = "adopt" => aeskey = pkt[t].s /\ rcookie = None
        /\ \A t, u \in Recv : pc[t] = "adopt" /\ pc[u] = "adopt" => t = u
        /\ (\A t \in Recv : pc[t] # "adopt") /\ rcookie # None => aeskey = rcookie

IInv == TypeOK /\ Places /\ OneEnd /\ Connecting /\ KeyInUse /\ Keys

-----------------------------------------------------------------------------
\* Types.
LEMMA PacketTypes ==
    /\ \A a \in 0 .. MaxConnects : ConnectPacket(a) \in Packets
    /\ \A s \in 0 .. MaxSessions, a \in 0 .. MaxConnects : Answer(s, a) \in Packets
    /\ \A to \in {"server", "client"}, s \in 0 .. MaxSessions, k \in 0 .. MaxSessions :
          Data(to, s, k) \in Packets
    /\ \A s \in 0 .. MaxSessions : Ping(s) \in Packets
    /\ \A to \in {"server", "client"}, s \in 0 .. MaxSessions : Bye(to, s) \in Packets
BY BoundsAssumption DEF ConnectPacket, Answer, Data, Ping, Bye, Packets, None

LEMMA NoPacketType == NoPacket \in Packets
BY PacketTypes, BoundsAssumption DEF NoPacket, None

LEMMA SendType ==
    ASSUME BagToSet(net) \subseteq Packets, NEW p \in Packets, Send(p)
    PROVE  BagToSet(net') \subseteq Packets
BY DEF Send, BagToSet, SetToBag, (+)

LEMMA TakeType ==
    ASSUME BagToSet(net) \subseteq Packets, NEW p, Take(p)
    PROVE  BagToSet(net') \subseteq Packets
BY DEF Take, BagToSet, SetToBag, (-)

LEMMA InitType == Init => TypeOK
<1> SUFFICES ASSUME Init PROVE TypeOK
  OBVIOUS
<1>1. NoPacket \in Packets
  BY PacketTypes, BoundsAssumption DEF NoPacket, None
<1>2. BagToSet(net) = {}
  BY DEF Init, EmptyBag, BagToSet, SetToBag
<1>3. pc \in [Threads -> RecvPcs \cup EndPcs \cup UIPcs] /\ after \in [Threads -> RecvPcs \cup EndPcs \cup UIPcs]
  BY DEF Init, RecvPcs
<1>4. posted \in Seq({"e_connected", "e_disconnected"})
  BY DEF Init
<1>5. rcookie \in 0 .. MaxSessions /\ aeskey \in 0 .. MaxSessions /\ attempt \in 0 .. MaxConnects
      /\ traffic \in 0 .. MaxTraffic /\ faults \in 0 .. MaxFaults
  BY BoundsAssumption DEF Init, None
<1>6. pkt \in [Recv -> Packets]
  BY <1>1 DEF Init
<1>7. server \in [Sessions -> {"none", "live", "gone"}] /\ fresh \in [Sessions -> BOOLEAN]
  BY DEF Init
<1> QED
  BY <1>2, <1>3, <1>4, <1>5, <1>6, <1>7 DEF Init, TypeOK

\* TypeOK in three parts: the endpoint and the dialog, the threads, the network.
TypeA ==
    /\ phase \in {"off", "live", "closing"} /\ users \subseteq Threads /\ linked \in BOOLEAN
    /\ rcookie \in 0 .. MaxSessions /\ aeskey \in 0 .. MaxSessions
    /\ {hKey, connected, btnConnect, btnDisconnect, timer, mixed, stray} \subseteq BOOLEAN
    /\ attempt \in 0 .. MaxConnects
TypeB ==
    /\ posted \in Seq({"e_connected", "e_disconnected"})
    /\ pc \in [Threads -> RecvPcs \cup EndPcs \cup UIPcs]
    /\ pkt \in [Recv -> Packets] /\ after \in [Threads -> RecvPcs \cup EndPcs \cup UIPcs]
TypeC ==
    /\ lossy \in BOOLEAN
    /\ server \in [Sessions -> {"none", "live", "gone"}] /\ fresh \in [Sessions -> BOOLEAN]
    /\ BagToSet(net) \subseteq Packets
    /\ traffic \in 0 .. MaxTraffic /\ faults \in 0 .. MaxFaults

LEMMA Parts == TypeOK <=> TypeA /\ TypeB /\ TypeC
BY DEF TypeOK, TypeA, TypeB, TypeC

-----------------------------------------------------------------------------
\* The steps of the server, the network and the timer change none of these.
core == <<phase, users, linked, rcookie, aeskey, hKey, connected, btnConnect, btnDisconnect, timer, attempt,
          posted, pc, pkt, after, mixed, stray>>
Others ==
    \/ OnTick \/ ServerRecv \/ Lose \/ Duplicate
    \/ \E s \in Sessions : ServerSend(s) \/ Silence(s) \/ OnTimer(s) \/ CameraFails(s)
LEMMA OthersSame == Others \/ UNCHANGED vars => UNCHANGED core
BY DEF Others, OnTick, ServerRecv, Lose, Duplicate, ServerSend, Silence, OnTimer, CameraFails,
       core, vars, endpoint, dialog, flow, history

LEMMA PacketFields ==
    ASSUME TypeB, NEW t \in Recv
    PROVE  pkt[t].s \in 0 .. MaxSessions
BY DEF TypeB, Packets

LEMMA TypeAStep ==
    ASSUME TypeA, TypeB, Places, [Next]_vars
    PROVE  TypeA'
<1>1. ASSUME NEW t \in Recv, OnRecv(t) PROVE TypeA'
  BY <1>1 DEF OnRecv, Goto, endpoint, dialog, flow, history, TypeA, Threads
<1>2. ASSUME NEW t \in Recv, Enter(t) PROVE TypeA'
  BY <1>2 DEF Enter, Goto, Forget, dialog, flow, history, TypeA, Threads
<1>3. ASSUME NEW t \in Recv, OnData(t) PROVE TypeA'
  BY <1>3, PacketFields
  DEF OnData, AES_Decode, GetPrivateKey, Refuse, Accept, Goto, dialog, flow, history, TypeA, Threads,
      TypeB
<1>4. ASSUME NEW t \in Recv, Adopt(t) PROVE TypeA'
  BY <1>4, PacketFields DEF Adopt, Goto, dialog, flow, history, TypeA, Threads, TypeB
<1>5. ASSUME NEW t \in Recv, OnConnect(t) PROVE TypeA'
  BY <1>5 DEF OnConnect, Accept, Goto, endpoint, dialog, flow, history, TypeA, Threads
<1>6. ASSUME NEW t \in Recv, Leave(t) PROVE TypeA'
  BY <1>6 DEF Leave, Goto, Forget, dialog, flow, history, TypeA, Threads
<1>7. ASSUME NEW t \in Threads, Unlink(t) PROVE TypeA'
  BY <1>7 DEF Unlink, Goto, dialog, flow, history, TypeA, Threads
<1>8. ASSUME NEW t \in Threads, Notify(t) PROVE TypeA'
  BY <1>8 DEF Notify, Goto, dialog, flow, TypeA, Threads
<1>9. ASSUME NEW t \in Threads, DestroyKey(t) PROVE TypeA'
  BY <1>9 DEF DestroyKey, Goto, endpoint, dialog, flow, history, TypeA, Threads
<1>10. ASSUME NEW t \in Threads, PostDisconnected(t) PROVE TypeA'
  BY <1>10 DEF PostDisconnected, Goto, endpoint, dialog, flow, history, TypeA, Threads
<1>11. ASSUME NEW b \in {"connect", "disconnect"}, Click(b) PROVE TypeA'
  BY <1>11 DEF Click, Goto, endpoint, dialog, flow, history, TypeA, Threads
<1>12. CASE SetPrivateKey
  BY <1>12 DEF SetPrivateKey, Goto, endpoint, dialog, flow, history, TypeA, Threads
<1>13. CASE InitEndpoint
  <2>1. attempt' \in 0 .. MaxConnects
    BY <1>13, BoundsAssumption DEF InitEndpoint, TypeA, Places
  <2>2. phase' \in {"off", "live", "closing"} /\ rcookie' \in 0 .. MaxSessions
    BY <1>13, BoundsAssumption DEF InitEndpoint, TypeA, None
  <2>3. stray' \in BOOLEAN
    BY <1>13 DEF InitEndpoint, TypeA
  <2> QED
    BY <1>13, <2>1, <2>2, <2>3 DEF InitEndpoint, TypeA
<1>14. CASE AddConnection
  BY <1>14 DEF AddConnection, Goto, dialog, flow, history, TypeA, Threads
<1>15. CASE SendConnect
  BY <1>15 DEF SendConnect, Goto, endpoint, dialog, flow, history, TypeA, Threads
<1>16. CASE Undo
  BY <1>16 DEF Undo, Goto, endpoint, dialog, flow, history, TypeA, Threads
<1>17. CASE Connected
  BY <1>17 DEF Connected, Goto, endpoint, flow, history, TypeA, Threads
<1>18. CASE Disconnect
  BY <1>18 DEF Disconnect, Goto, endpoint, dialog, flow, history, TypeA, Threads
<1>19. CASE Cleared
  BY <1>19 DEF Cleared, Goto, endpoint, flow, history, TypeA, Threads
<1>20. CASE WindowMessage
  BY <1>20
  DEF WindowMessage, OnConnected, OnDisconnected, endpoint, history, TypeA, Threads
<1>21. CASE Others \/ UNCHANGED vars
  BY <1>21, OthersSame DEF core, TypeA, Threads
<1>22. ASSUME NEW t \in Recv, Decode(t) PROVE TypeA'
  BY <1>22, PacketFields DEF Decode, Refuse, Goto, dialog, flow, TypeA, Threads, TypeB
<1>23. CASE InitCookie
  BY <1>23, BoundsAssumption DEF InitCookie, Goto, dialog, flow, history, TypeA, Threads, None
<1> QED
  BY <1>1, <1>2, <1>3, <1>4, <1>5, <1>6, <1>7, <1>8, <1>9, <1>10, <1>11, <1>12, <1>13,
     <1>14, <1>15, <1>16, <1>17, <1>18, <1>19, <1>20, <1>21, <1>22, <1>23
  DEF Next, RecvStep, End, UIStep, Others

LEMMA TypeBStep ==
    ASSUME TypeB, TypeC, Places, [Next]_vars
    PROVE  TypeB'
<1>1. ASSUME NEW t \in Recv, OnRecv(t) PROVE TypeB'
  BY <1>1
  DEF OnRecv, Goto, endpoint, dialog, flow, history, TypeB, RecvPcs, EndPcs, UIPcs,
      Threads, TypeC
<1>2. ASSUME NEW t \in Recv, Enter(t) PROVE TypeB'
  BY <1>2, NoPacketType
  DEF Enter, Goto, Forget, dialog, flow, history, TypeB, RecvPcs, EndPcs, UIPcs, Threads
<1>3. ASSUME NEW t \in Recv, OnData(t) PROVE TypeB'
  BY <1>3
  DEF OnData, AES_Decode, GetPrivateKey, Refuse, Accept, Goto, dialog, flow, history, TypeB, RecvPcs,
      EndPcs, UIPcs, Threads
<1>4. ASSUME NEW t \in Recv, Adopt(t) PROVE TypeB'
  BY <1>4 DEF Adopt, Goto, dialog, flow, history, TypeB, RecvPcs, EndPcs, UIPcs, Threads
<1>5. ASSUME NEW t \in Recv, OnConnect(t) PROVE TypeB'
  BY <1>5
  DEF OnConnect, Accept, Goto, endpoint, dialog, flow, history, TypeB, RecvPcs, EndPcs,
      UIPcs, Threads
<1>6. ASSUME NEW t \in Recv, Leave(t) PROVE TypeB'
  BY <1>6, NoPacketType
  DEF Leave, Goto, Forget, dialog, flow, history, TypeB, RecvPcs, EndPcs, UIPcs, Threads
<1>7. ASSUME NEW t \in Threads, Unlink(t) PROVE TypeB'
  BY <1>7 DEF Unlink, Goto, dialog, flow, history, TypeB, RecvPcs, EndPcs, UIPcs, Threads
<1>8. ASSUME NEW t \in Threads, Notify(t) PROVE TypeB'
  BY <1>8 DEF Notify, Goto, dialog, flow, TypeB, RecvPcs, EndPcs, UIPcs, Threads
<1>9. ASSUME NEW t \in Threads, DestroyKey(t) PROVE TypeB'
  BY <1>9
  DEF DestroyKey, Goto, endpoint, dialog, flow, history, TypeB, RecvPcs, EndPcs, UIPcs,
      Threads
<1>10. ASSUME NEW t \in Threads, PostDisconnected(t) PROVE TypeB'
  BY <1>10
  DEF PostDisconnected, Goto, endpoint, dialog, flow, history, TypeB, RecvPcs, EndPcs,
      UIPcs, Threads
<1>11. ASSUME NEW b \in {"connect", "disconnect"}, Click(b) PROVE TypeB'
  BY <1>11
  DEF Click, Goto, endpoint, dialog, flow, history, TypeB, RecvPcs, EndPcs, UIPcs, Threads
<1>12. CASE SetPrivateKey
  BY <1>12
  DEF SetPrivateKey, Goto, endpoint, dialog, flow, history, TypeB, RecvPcs, EndPcs, UIPcs,
      Threads
<1>13. CASE InitEndpoint
  BY <1>13 DEF InitEndpoint, Goto, flow, TypeB, RecvPcs, EndPcs, UIPcs, Threads
<1>14. CASE AddConnection
  BY <1>14
  DEF AddConnection, Goto, dialog, flow, history, TypeB, RecvPcs, EndPcs, UIPcs, Threads
<1>15. CASE SendConnect
  BY <1>15
  DEF SendConnect, Goto, endpoint, dialog, flow, history, TypeB, RecvPcs, EndPcs, UIPcs,
      Threads
<1>16. CASE Undo
  BY <1>16
  DEF Undo, Goto, endpoint, dialog, flow, history, TypeB, RecvPcs, EndPcs, UIPcs, Threads
<1>17. CASE Connected
  BY <1>17
  DEF Connected, Goto, endpoint, flow, history, TypeB, RecvPcs, EndPcs, UIPcs, Threads
<1>18. CASE Disconnect
  BY <1>18
  DEF Disconnect, Goto, endpoint, dialog, flow, history, TypeB, RecvPcs, EndPcs, UIPcs,
      Threads
<1>19. CASE Cleared
  BY <1>19
  DEF Cleared, Goto, endpoint, flow, history, TypeB, RecvPcs, EndPcs, UIPcs, Threads
<1>20. CASE WindowMessage
  BY <1>20
  DEF WindowMessage, OnConnected, OnDisconnected, endpoint, history, TypeB, RecvPcs,
      EndPcs, UIPcs, Threads
<1>21. CASE Others \/ UNCHANGED vars
  BY <1>21, OthersSame DEF core, TypeB, RecvPcs, EndPcs, UIPcs, Threads
<1>22. ASSUME NEW t \in Recv, Decode(t) PROVE TypeB'
  BY <1>22 DEF Decode, Refuse, Goto, dialog, flow, TypeB, RecvPcs, EndPcs, UIPcs, Threads
<1>23. CASE InitCookie
  BY <1>23
  DEF InitCookie, Goto, dialog, flow, history, TypeB, RecvPcs, EndPcs, UIPcs, Threads
<1> QED
  BY <1>1, <1>2, <1>3, <1>4, <1>5, <1>6, <1>7, <1>8, <1>9, <1>10, <1>11, <1>12, <1>13,
     <1>14, <1>15, <1>16, <1>17, <1>18, <1>19, <1>20, <1>21, <1>22, <1>23
  DEF Next, RecvStep, End, UIStep, Others

LEMMA PlacesStep ==
    ASSUME TypeA, TypeB, Places, [Next]_vars
    PROVE  Places'
<1>1. ASSUME NEW t \in Recv, OnRecv(t) PROVE Places'
  BY <1>1, UIAssumption
  DEF OnRecv, Goto, endpoint, dialog, flow, history, TypeB, Places, Inside, RecvPcs,
      EndPcs, UIPcs, Threads
<1>2. ASSUME NEW t \in Recv, Enter(t) PROVE Places'
  BY <1>2, UIAssumption
  DEF Enter, Goto, Forget, dialog, flow, history, TypeB, Places, Inside, RecvPcs, EndPcs,
      UIPcs, Threads
<1>3. ASSUME NEW t \in Recv, OnData(t) PROVE Places'
  BY <1>3, UIAssumption
  DEF OnData, AES_Decode, GetPrivateKey, Refuse, Accept, Goto, dialog, flow, history, TypeB, Places,
      Inside, RecvPcs, EndPcs, UIPcs, Threads
<1>4. ASSUME NEW t \in Recv, Adopt(t) PROVE Places'
  BY <1>4, UIAssumption
  DEF Adopt, Goto, dialog, flow, history, TypeB, Places, Inside, RecvPcs, EndPcs, UIPcs,
      Threads
<1>5. ASSUME NEW t \in Recv, OnConnect(t) PROVE Places'
  BY <1>5, UIAssumption
  DEF OnConnect, Accept, Goto, endpoint, dialog, flow, history, TypeB, Places, Inside,
      RecvPcs, EndPcs, UIPcs, Threads
<1>6. ASSUME NEW t \in Recv, Leave(t) PROVE Places'
  BY <1>6, UIAssumption
  DEF Leave, Goto, Forget, dialog, flow, history, TypeB, Places, Inside, RecvPcs, EndPcs,
      UIPcs, Threads
<1>7. ASSUME NEW t \in Threads, Unlink(t) PROVE Places'
  BY <1>7, UIAssumption
  DEF Unlink, Goto, dialog, flow, history, TypeB, Places, Inside, RecvPcs, EndPcs, UIPcs,
      Threads
<1>8. ASSUME NEW t \in Threads, Notify(t) PROVE Places'
  BY <1>8, UIAssumption
  DEF Notify, Goto, dialog, flow, TypeB, Places, Inside, RecvPcs, EndPcs, UIPcs, Threads
<1>9. ASSUME NEW t \in Threads, DestroyKey(t) PROVE Places'
  BY <1>9, UIAssumption
  DEF DestroyKey, Goto, endpoint, dialog, flow, history, TypeB, Places, Inside, RecvPcs,
      EndPcs, UIPcs, Threads
<1>10. ASSUME NEW t \in Threads, PostDisconnected(t) PROVE Places'
  BY <1>10, UIAssumption
  DEF PostDisconnected, Goto, endpoint, dialog, flow, history, TypeB, Places, Inside,
      RecvPcs, EndPcs, UIPcs, Threads
<1>11. ASSUME NEW b \in {"connect", "disconnect"}, Click(b) PROVE Places'
  BY <1>11, UIAssumption
  DEF Click, Goto, endpoint, dialog, flow, history, TypeB, Places, Inside, RecvPcs,
      EndPcs, UIPcs, Threads
<1>12. CASE SetPrivateKey
  BY <1>12, UIAssumption
  DEF SetPrivateKey, Goto, endpoint, dialog, flow, history, TypeB, Places, Inside,
      RecvPcs, EndPcs, UIPcs, Threads
<1>13. CASE InitEndpoint
  BY <1>13, UIAssumption
  DEF InitEndpoint, Goto, flow, TypeB, Places, Inside, RecvPcs, EndPcs, UIPcs, Threads,
      TypeA
<1>14. CASE AddConnection
  BY <1>14, UIAssumption
  DEF AddConnection, Goto, dialog, flow, history, TypeB, Places, Inside, RecvPcs, EndPcs,
      UIPcs, Threads
<1>15. CASE SendConnect
  BY <1>15, UIAssumption
  DEF SendConnect, Goto, endpoint, dialog, flow, history, TypeB, Places, Inside, RecvPcs,
      EndPcs, UIPcs, Threads
<1>16. CASE Undo
  BY <1>16, UIAssumption
  DEF Undo, Goto, endpoint, dialog, flow, history, TypeB, Places, Inside, RecvPcs, EndPcs,
      UIPcs, Threads
<1>17. CASE Connected
  BY <1>17, UIAssumption
  DEF Connected, Goto, endpoint, flow, history, TypeB, Places, Inside, RecvPcs, EndPcs,
      UIPcs, Threads
<1>18. CASE Disconnect
  BY <1>18, UIAssumption
  DEF Disconnect, Goto, endpoint, dialog, flow, history, TypeB, Places, Inside, RecvPcs,
      EndPcs, UIPcs, Threads
<1>19. CASE Cleared
  BY <1>19, UIAssumption
  DEF Cleared, Goto, endpoint, flow, history, TypeB, Places, Inside, RecvPcs, EndPcs,
      UIPcs, Threads
<1>20. CASE WindowMessage
  BY <1>20, UIAssumption
  DEF WindowMessage, OnConnected, OnDisconnected, endpoint, history, TypeB, Places,
      Inside, RecvPcs, EndPcs, UIPcs, Threads
<1>21. CASE Others \/ UNCHANGED vars
  BY <1>21, OthersSame, UIAssumption
  DEF core, TypeB, Places, Inside, RecvPcs, EndPcs, UIPcs, Threads
<1>22. ASSUME NEW t \in Recv, Decode(t) PROVE Places'
  BY <1>22, UIAssumption
  DEF Decode, Refuse, Goto, dialog, flow, TypeB, Places, Inside, RecvPcs, EndPcs, UIPcs,
      Threads
<1>23. CASE InitCookie
  BY <1>23, UIAssumption
  DEF InitCookie, Goto, dialog, flow, history, TypeB, Places, Inside, RecvPcs, EndPcs,
      UIPcs, Threads
<1> QED
  BY <1>1, <1>2, <1>3, <1>4, <1>5, <1>6, <1>7, <1>8, <1>9, <1>10, <1>11, <1>12, <1>13,
     <1>14, <1>15, <1>16, <1>17, <1>18, <1>19, <1>20, <1>21, <1>22, <1>23
  DEF Next, RecvStep, End, UIStep, Others

-----------------------------------------------------------------------------
\* What posting and handling a message does to the queue.
LEMMA SayConnected ==
    ASSUME TypeB, posted' = Append(posted, "e_connected")
    PROVE  /\ Told' <=> Told
           /\ ~Told => \A i \in 1 .. Len(posted') : posted'[i] = "e_disconnected" => i = Len(posted')
BY DEF TypeB, Told

LEMMA SayDisconnected ==
    ASSUME TypeB, ~Told, posted' = Append(posted, "e_disconnected")
    PROVE  \A i \in 1 .. Len(posted') : posted'[i] = "e_disconnected" => i = Len(posted')
BY DEF TypeB, Told

LEMMA HearMessage ==
    ASSUME TypeB, posted # <<>>, posted' = Tail(posted),
           \A i \in 1 .. Len(posted) : posted[i] = "e_disconnected" => i = Len(posted)
    PROVE  /\ Told' => Told
           /\ \A i \in 1 .. Len(posted') : posted'[i] = "e_disconnected" => i = Len(posted')
           /\ Head(posted) \in {"e_connected", "e_disconnected"}
           /\ Head(posted) = "e_disconnected" => Told
BY DEF TypeB, Told

LEMMA UserIn ==
    ASSUME Places, NEW t \in Recv, pc[t] \in Inside
    PROVE  phase # "off"
BY DEF Places

LEMMA OneEndStep ==
    ASSUME TypeA, TypeB, Places, OneEnd, Connecting, [Next]_vars
    PROVE  OneEnd'
<1>1. ASSUME NEW t \in Recv, OnRecv(t) PROVE OneEnd'
  BY <1>1, UIAssumption
  DEF OnRecv, Goto, endpoint, dialog, flow, history, OneEnd, Told, TypeB, Ender, Threads,
      Places, Inside, EndPcs, UIPcs, RecvPcs
<1>2. ASSUME NEW t \in Recv, Enter(t) PROVE OneEnd'
  BY <1>2, UIAssumption
  DEF Enter, Goto, Forget, dialog, flow, history, OneEnd, Told, TypeB, Ender, Threads,
      Places, Inside, EndPcs, UIPcs, RecvPcs
<1>3. ASSUME NEW t \in Recv, OnData(t) PROVE OneEnd'
  BY <1>3, UIAssumption
  DEF OnData, AES_Decode, GetPrivateKey, Refuse, Accept, Goto, dialog, flow, history, OneEnd, Told, TypeB,
      Ender, Threads, Places, Inside, EndPcs, UIPcs, RecvPcs
<1>4. ASSUME NEW t \in Recv, Adopt(t) PROVE OneEnd'
  BY <1>4, UIAssumption
  DEF Adopt, Goto, dialog, flow, history, OneEnd, Told, TypeB, Ender, Threads, Places,
      Inside, EndPcs, UIPcs, RecvPcs
<1>5. ASSUME NEW t \in Recv, OnConnect(t) PROVE OneEnd'
  BY <1>5, UIAssumption
  DEF OnConnect, Accept, Goto, endpoint, dialog, flow, history, OneEnd, Told, TypeB,
      Ender, Threads, Places, Inside, EndPcs, UIPcs, RecvPcs
<1>6. ASSUME NEW t \in Recv, Leave(t) PROVE OneEnd'
  BY <1>6, UIAssumption
  DEF Leave, Goto, Forget, dialog, flow, history, OneEnd, Told, TypeB, Ender, Threads,
      Places, Inside, EndPcs, UIPcs, RecvPcs
<1>7. ASSUME NEW t \in Threads, Unlink(t) PROVE OneEnd'
  BY <1>7, UIAssumption
  DEF Unlink, Goto, dialog, flow, history, OneEnd, Told, TypeB, Ender, Threads, Places,
      Inside, EndPcs, UIPcs, RecvPcs
<1>8. ASSUME NEW t \in Threads, Notify(t) PROVE OneEnd'
  <2>1. after[t] \notin {"key", "post"} /\ (t = UI => after[t] \in {"undo", "cleared"})
    BY <1>8, UIAssumption DEF Notify, Places, Threads, EndPcs
  <2>2. CASE phase = "live" /\ users = {}
    <3>1. phase' = "off" /\ pc' = [pc EXCEPT ![t] = "key"] /\ UNCHANGED <<posted, btnConnect, after>>
      BY <1>8, <2>2 DEF Notify, Goto, dialog
    <3>2. ~stray' => ~stray
      BY <1>8 DEF Notify
    <3> QED
      BY <2>1, <2>2, <3>1, <3>2 DEF OneEnd, Told, TypeB, Ender, Threads, Places, EndPcs, Notify
  <2>3. CASE ~(phase = "live" /\ users = {})
    <3>1. pc' = [pc EXCEPT ![t] = after[t]] /\ UNCHANGED <<posted, btnConnect, after>>
      BY <1>8, <2>3 DEF Notify, Goto, dialog
    <3>2. ~stray' => ~stray /\ after[t] # "undo"
      BY <1>8, <2>3 DEF Notify
    <3>3. phase' = "off" <=> phase = "off"
      BY <1>8, <2>3 DEF Notify
    <3> QED
      BY <1>8, <2>1, <3>1, <3>2, <3>3, UIAssumption DEF OneEnd, Told, TypeB, Ender, Threads, Places, EndPcs, Notify
  <2> QED
    BY <2>2, <2>3
<1>9. ASSUME NEW t \in Threads, DestroyKey(t) PROVE OneEnd'
  BY <1>9, UIAssumption
  DEF DestroyKey, Goto, endpoint, dialog, flow, history, OneEnd, Told, TypeB, Ender,
      Threads, Places, Inside, EndPcs, UIPcs, RecvPcs
<1>10. ASSUME NEW t \in Threads, PostDisconnected(t) PROVE OneEnd'
  BY <1>10, UIAssumption
  DEF PostDisconnected, Goto, endpoint, dialog, flow, history, OneEnd, Told, TypeB, Ender,
      Threads, Places, Inside, EndPcs, UIPcs, RecvPcs
<1>11. ASSUME NEW b \in {"connect", "disconnect"}, Click(b) PROVE OneEnd'
  BY <1>11, UIAssumption
  DEF Click, Goto, endpoint, dialog, flow, history, OneEnd, Told, TypeB, Ender, Threads,
      Places, Inside, EndPcs, UIPcs, RecvPcs
<1>12. CASE SetPrivateKey
  BY <1>12, UIAssumption
  DEF SetPrivateKey, Goto, endpoint, dialog, flow, history, OneEnd, Told, TypeB, Ender,
      Threads, Places, Inside, EndPcs, UIPcs, RecvPcs
<1>13. CASE InitEndpoint
  BY <1>13, UIAssumption
  DEF InitEndpoint, Goto, flow, OneEnd, Told, TypeB, Ender, Threads, Places, Inside,
      EndPcs, UIPcs, RecvPcs, Connecting, Over
<1>14. CASE AddConnection
  BY <1>14, UIAssumption
  DEF AddConnection, Goto, dialog, flow, history, OneEnd, Told, TypeB, Ender, Threads,
      Places, Inside, EndPcs, UIPcs, RecvPcs
<1>15. CASE SendConnect
  BY <1>15, UIAssumption
  DEF SendConnect, Goto, endpoint, dialog, flow, history, OneEnd, Told, TypeB, Ender,
      Threads, Places, Inside, EndPcs, UIPcs, RecvPcs
<1>16. CASE Undo
  BY <1>16, UIAssumption
  DEF Undo, Goto, endpoint, dialog, flow, history, OneEnd, Told, TypeB, Ender, Threads,
      Places, Inside, EndPcs, UIPcs, RecvPcs
<1>17. CASE Connected
  BY <1>17, UIAssumption
  DEF Connected, Goto, endpoint, flow, history, OneEnd, Told, TypeB, Ender, Threads,
      Places, Inside, EndPcs, UIPcs, RecvPcs
<1>18. CASE Disconnect
  BY <1>18, UIAssumption
  DEF Disconnect, Goto, endpoint, dialog, flow, history, OneEnd, Told, TypeB, Ender,
      Threads, Places, Inside, EndPcs, UIPcs, RecvPcs
<1>19. CASE Cleared
  BY <1>19, UIAssumption
  DEF Cleared, Goto, endpoint, flow, history, OneEnd, Told, TypeB, Ender, Threads, Places,
      Inside, EndPcs, UIPcs, RecvPcs
<1>20. CASE WindowMessage
  BY <1>20, UIAssumption
  DEF WindowMessage, OnConnected, OnDisconnected, endpoint, history, OneEnd, Told, TypeB,
      Ender, Threads, Places, Inside, EndPcs, UIPcs, RecvPcs
<1>21. CASE Others \/ UNCHANGED vars
  BY <1>21, OthersSame, UIAssumption
  DEF core, OneEnd, Told, TypeB, Ender, Threads, Places, Inside, EndPcs, UIPcs, RecvPcs
<1>22. ASSUME NEW t \in Recv, Decode(t) PROVE OneEnd'
  BY <1>22, UIAssumption
  DEF Decode, Refuse, Goto, dialog, flow, OneEnd, Told, TypeB, Ender, Threads, Places,
      Inside, EndPcs, UIPcs, RecvPcs
<1>23. CASE InitCookie
  BY <1>23, UIAssumption
  DEF InitCookie, Goto, dialog, flow, history, OneEnd, Told, TypeB, Ender, Threads,
      Places, Inside, EndPcs, UIPcs, RecvPcs
<1> QED
  BY <1>1, <1>2, <1>3, <1>4, <1>5, <1>6, <1>7, <1>8, <1>9, <1>10, <1>11, <1>12, <1>13,
     <1>14, <1>15, <1>16, <1>17, <1>18, <1>19, <1>20, <1>21, <1>22, <1>23
  DEF Next, RecvStep, End, UIStep, Others

LEMMA KeyInUseStep ==
    ASSUME TypeA, TypeB, Places, OneEnd, Connecting, KeyInUse, [Next]_vars
    PROVE  KeyInUse'
<1>1. ASSUME NEW t \in Recv, OnRecv(t) PROVE KeyInUse'
  BY <1>1, UIAssumption
  DEF OnRecv, Goto, endpoint, dialog, flow, history, KeyInUse, TypeB, Threads, Places,
      EndPcs, UIPcs, RecvPcs, Inside
<1>2. ASSUME NEW t \in Recv, Enter(t) PROVE KeyInUse'
  BY <1>2, UIAssumption
  DEF Enter, Goto, Forget, dialog, flow, history, KeyInUse, TypeB, Threads, Places,
      EndPcs, UIPcs, RecvPcs, Inside
<1>3. ASSUME NEW t \in Recv, OnData(t) PROVE KeyInUse'
  BY <1>3, UIAssumption
  DEF OnData, AES_Decode, GetPrivateKey, Refuse, Accept, Goto, dialog, flow, history, KeyInUse, TypeB,
      Threads, Places, EndPcs, UIPcs, RecvPcs, Inside
<1>4. ASSUME NEW t \in Recv, Adopt(t) PROVE KeyInUse'
  BY <1>4, UIAssumption
  DEF Adopt, Goto, dialog, flow, history, KeyInUse, TypeB, Threads, Places, EndPcs, UIPcs,
      RecvPcs, Inside
<1>5. ASSUME NEW t \in Recv, OnConnect(t) PROVE KeyInUse'
  BY <1>5, UIAssumption
  DEF OnConnect, Accept, Goto, endpoint, dialog, flow, history, KeyInUse, TypeB, Threads,
      Places, EndPcs, UIPcs, RecvPcs, Inside
<1>6. ASSUME NEW t \in Recv, Leave(t) PROVE KeyInUse'
  BY <1>6, UIAssumption
  DEF Leave, Goto, Forget, dialog, flow, history, KeyInUse, TypeB, Threads, Places,
      EndPcs, UIPcs, RecvPcs, Inside
<1>7. ASSUME NEW t \in Threads, Unlink(t) PROVE KeyInUse'
  BY <1>7, UIAssumption
  DEF Unlink, Goto, dialog, flow, history, KeyInUse, TypeB, Threads, Places, EndPcs,
      UIPcs, RecvPcs, Inside
<1>8. ASSUME NEW t \in Threads, Notify(t) PROVE KeyInUse'
  BY <1>8, UIAssumption
  DEF Notify, Goto, dialog, flow, KeyInUse, TypeB, Threads, Places, EndPcs, UIPcs,
      RecvPcs, Inside
<1>9. ASSUME NEW t \in Threads, DestroyKey(t) PROVE KeyInUse'
  BY <1>9, UIAssumption
  DEF DestroyKey, Goto, endpoint, dialog, flow, history, KeyInUse, TypeB, Threads, Places,
      EndPcs, UIPcs, RecvPcs, Inside
<1>10. ASSUME NEW t \in Threads, PostDisconnected(t) PROVE KeyInUse'
  BY <1>10, UIAssumption
  DEF PostDisconnected, Goto, endpoint, dialog, flow, history, KeyInUse, TypeB, Threads,
      Places, EndPcs, UIPcs, RecvPcs, Inside
<1>11. ASSUME NEW b \in {"connect", "disconnect"}, Click(b) PROVE KeyInUse'
  BY <1>11, UIAssumption
  DEF Click, Goto, endpoint, dialog, flow, history, KeyInUse, TypeB, Threads, Places,
      EndPcs, UIPcs, RecvPcs, Inside
<1>12. CASE SetPrivateKey
  BY <1>12, UIAssumption
  DEF SetPrivateKey, Goto, endpoint, dialog, flow, history, KeyInUse, TypeB, Threads,
      Places, EndPcs, UIPcs, RecvPcs, Inside
<1>13. CASE InitEndpoint
  BY <1>13, UIAssumption
  DEF InitEndpoint, Goto, flow, KeyInUse, TypeB, Threads, Places, EndPcs, UIPcs, RecvPcs,
      Inside
<1>14. CASE AddConnection
  BY <1>14, UIAssumption
  DEF AddConnection, Goto, dialog, flow, history, KeyInUse, TypeB, Threads, Places,
      EndPcs, UIPcs, RecvPcs, Inside
<1>15. CASE SendConnect
  BY <1>15, UIAssumption
  DEF SendConnect, Goto, endpoint, dialog, flow, history, KeyInUse, TypeB, Threads,
      Places, EndPcs, UIPcs, RecvPcs, Inside
<1>16. CASE Undo
  BY <1>16, UIAssumption
  DEF Undo, Goto, endpoint, dialog, flow, history, KeyInUse, TypeB, Threads, Places,
      EndPcs, UIPcs, RecvPcs, Inside
<1>17. CASE Connected
  BY <1>17, UIAssumption
  DEF Connected, Goto, endpoint, flow, history, KeyInUse, TypeB, Threads, Places, EndPcs,
      UIPcs, RecvPcs, Inside
<1>18. CASE Disconnect
  BY <1>18, UIAssumption
  DEF Disconnect, Goto, endpoint, dialog, flow, history, KeyInUse, TypeB, Threads, Places,
      EndPcs, UIPcs, RecvPcs, Inside
<1>19. CASE Cleared
  BY <1>19, UIAssumption
  DEF Cleared, Goto, endpoint, flow, history, KeyInUse, TypeB, Threads, Places, EndPcs,
      UIPcs, RecvPcs, Inside
<1>20. CASE WindowMessage
  BY <1>20, UIAssumption
  DEF WindowMessage, OnConnected, OnDisconnected, endpoint, history, KeyInUse, TypeB,
      Threads, Places, EndPcs, UIPcs, RecvPcs, Inside
<1>21. CASE Others \/ UNCHANGED vars
  BY <1>21, OthersSame, UIAssumption
  DEF core, KeyInUse, TypeB, Threads, Places, EndPcs, UIPcs, RecvPcs, Inside
<1>22. ASSUME NEW t \in Recv, Decode(t) PROVE KeyInUse'
  BY <1>22, UIAssumption
  DEF Decode, Refuse, Goto, dialog, flow, KeyInUse, TypeB, Threads, Places, EndPcs, UIPcs,
      RecvPcs, Inside
<1>23. CASE InitCookie
  BY <1>23, UIAssumption
  DEF InitCookie, Goto, dialog, flow, history, KeyInUse, TypeB, Threads, Places,
      EndPcs, UIPcs, RecvPcs, Inside
<1> QED
  BY <1>1, <1>2, <1>3, <1>4, <1>5, <1>6, <1>7, <1>8, <1>9, <1>10, <1>11, <1>12, <1>13,
     <1>14, <1>15, <1>16, <1>17, <1>18, <1>19, <1>20, <1>21, <1>22, <1>23
  DEF Next, RecvStep, End, UIStep, Others

LEMMA KeysStep ==
    ASSUME TypeA, TypeB, Places, Keys, [Next]_vars
    PROVE  Keys'
<1>1. ASSUME NEW t \in Recv, OnRecv(t) PROVE Keys'
  BY <1>1, UIAssumption
  DEF OnRecv, Goto, endpoint, dialog, flow, history, Keys, TypeB, Threads, Places, EndPcs,
      UIPcs, RecvPcs, Inside
<1>2. ASSUME NEW t \in Recv, Enter(t) PROVE Keys'
  BY <1>2, UIAssumption
  DEF Enter, Goto, Forget, dialog, flow, history, Keys, TypeB, Threads, Places, EndPcs,
      UIPcs, RecvPcs, Inside
<1>3. ASSUME NEW t \in Recv, OnData(t) PROVE Keys'
  BY <1>3 DEF OnData, AES_Decode, GetPrivateKey, Refuse, Accept, Goto, history, Keys, TypeB, Threads
<1>4. ASSUME NEW t \in Recv, Adopt(t) PROVE Keys'
  BY <1>4, UIAssumption
  DEF Adopt, Goto, dialog, flow, history, Keys, TypeB, Threads, Places, EndPcs, UIPcs,
      RecvPcs, Inside
<1>5. ASSUME NEW t \in Recv, OnConnect(t) PROVE Keys'
  BY <1>5, UIAssumption
  DEF OnConnect, Accept, Goto, endpoint, dialog, flow, history, Keys, TypeB, Threads,
      Places, EndPcs, UIPcs, RecvPcs, Inside
<1>6. ASSUME NEW t \in Recv, Leave(t) PROVE Keys'
  BY <1>6, UIAssumption
  DEF Leave, Goto, Forget, dialog, flow, history, Keys, TypeB, Threads, Places, EndPcs,
      UIPcs, RecvPcs, Inside
<1>7. ASSUME NEW t \in Threads, Unlink(t) PROVE Keys'
  BY <1>7, UIAssumption
  DEF Unlink, Goto, dialog, flow, history, Keys, TypeB, Threads, Places, EndPcs, UIPcs,
      RecvPcs, Inside
<1>8. ASSUME NEW t \in Threads, Notify(t) PROVE Keys'
  BY <1>8, UIAssumption
  DEF Notify, Goto, dialog, flow, Keys, TypeB, Threads, Places, EndPcs, UIPcs, RecvPcs,
      Inside
<1>9. ASSUME NEW t \in Threads, DestroyKey(t) PROVE Keys'
  BY <1>9, UIAssumption
  DEF DestroyKey, Goto, endpoint, dialog, flow, history, Keys, TypeB, Threads, Places,
      EndPcs, UIPcs, RecvPcs, Inside
<1>10. ASSUME NEW t \in Threads, PostDisconnected(t) PROVE Keys'
  BY <1>10, UIAssumption
  DEF PostDisconnected, Goto, endpoint, dialog, flow, history, Keys, TypeB, Threads,
      Places, EndPcs, UIPcs, RecvPcs, Inside
<1>11. ASSUME NEW b \in {"connect", "disconnect"}, Click(b) PROVE Keys'
  BY <1>11, UIAssumption
  DEF Click, Goto, endpoint, dialog, flow, history, Keys, TypeB, Threads, Places, EndPcs,
      UIPcs, RecvPcs, Inside
<1>12. CASE SetPrivateKey
  BY <1>12, UIAssumption
  DEF SetPrivateKey, Goto, endpoint, dialog, flow, history, Keys, TypeB, Threads, Places,
      EndPcs, UIPcs, RecvPcs, Inside
<1>13. CASE InitEndpoint
  BY <1>13, UIAssumption
  DEF InitEndpoint, Goto, flow, Keys, TypeB, Threads, Places, EndPcs, UIPcs, RecvPcs,
      Inside
<1>14. CASE AddConnection
  BY <1>14, UIAssumption
  DEF AddConnection, Goto, dialog, flow, history, Keys, TypeB, Threads, Places, EndPcs,
      UIPcs, RecvPcs, Inside
<1>15. CASE SendConnect
  BY <1>15, UIAssumption
  DEF SendConnect, Goto, endpoint, dialog, flow, history, Keys, TypeB, Threads, Places,
      EndPcs, UIPcs, RecvPcs, Inside
<1>16. CASE Undo
  BY <1>16, UIAssumption
  DEF Undo, Goto, endpoint, dialog, flow, history, Keys, TypeB, Threads, Places, EndPcs,
      UIPcs, RecvPcs, Inside
<1>17. CASE Connected
  BY <1>17, UIAssumption
  DEF Connected, Goto, endpoint, flow, history, Keys, TypeB, Threads, Places, EndPcs,
      UIPcs, RecvPcs, Inside
<1>18. CASE Disconnect
  BY <1>18, UIAssumption
  DEF Disconnect, Goto, endpoint, dialog, flow, history, Keys, TypeB, Threads, Places,
      EndPcs, UIPcs, RecvPcs, Inside
<1>19. CASE Cleared
  BY <1>19, UIAssumption
  DEF Cleared, Goto, endpoint, flow, history, Keys, TypeB, Threads, Places, EndPcs, UIPcs,
      RecvPcs, Inside
<1>20. CASE WindowMessage
  BY <1>20, UIAssumption
  DEF WindowMessage, OnConnected, OnDisconnected, endpoint, history, Keys, TypeB, Threads,
      Places, EndPcs, UIPcs, RecvPcs, Inside
<1>21. CASE Others \/ UNCHANGED vars
  BY <1>21, OthersSame, UIAssumption
  DEF core, Keys, TypeB, Threads, Places, EndPcs, UIPcs, RecvPcs, Inside
<1>22. ASSUME NEW t \in Recv, Decode(t) PROVE Keys'
  <2>1. CASE pc' = [pc EXCEPT ![t] = "adopt"]
    <3>1. aeskey' = pkt[t].s /\ UNCHANGED <<rcookie, pkt>>
      BY <1>22, <2>1 DEF Decode, Refuse, Goto, TypeB, Threads
    <3>2. ~mixed' => ~mixed /\ rcookie = None /\ \A u \in Recv : pc[u] # "adopt"
      BY <1>22, <2>1 DEF Decode, Refuse, Goto, TypeB, Threads
    <3> QED
      BY <2>1, <3>1, <3>2 DEF Keys, TypeB, Threads
  <2>2. CASE pc' = [pc EXCEPT ![t] = "leave"]
    <3>1. UNCHANGED <<rcookie, pkt, aeskey, mixed>>
      BY <1>22, <2>2 DEF Decode, Goto, TypeB, Threads
    <3> QED
      BY <1>22, <2>2, <3>1 DEF Decode, Keys, TypeB, Threads
  <2> QED
    BY <1>22, <2>1, <2>2 DEF Decode, Refuse, Goto
<1>23. CASE InitCookie
  BY <1>23, UIAssumption
  DEF InitCookie, Goto, dialog, flow, history, Keys, TypeB, Threads, Places, EndPcs,
      UIPcs, RecvPcs, Inside
<1> QED
  BY <1>1, <1>2, <1>3, <1>4, <1>5, <1>6, <1>7, <1>8, <1>9, <1>10, <1>11, <1>12, <1>13,
     <1>14, <1>15, <1>16, <1>17, <1>18, <1>19, <1>20, <1>21, <1>22, <1>23
  DEF Next, RecvStep, End, UIStep, Others

LEMMA ConnectingStep ==
    ASSUME TypeA, TypeB, Places, OneEnd, Connecting, [Next]_vars
    PROVE  Connecting'
<1>1. ASSUME NEW t \in Recv, OnRecv(t) PROVE Connecting'
  BY <1>1, UIAssumption
  DEF OnRecv, Goto, endpoint, dialog, flow, history, Connecting, Over, Ender, TypeB,
      Threads, Places, EndPcs, UIPcs, RecvPcs, Inside
<1>2. ASSUME NEW t \in Recv, Enter(t) PROVE Connecting'
  BY <1>2, UIAssumption
  DEF Enter, Goto, Forget, dialog, flow, history, Connecting, Over, Ender, TypeB, Threads,
      Places, EndPcs, UIPcs, RecvPcs, Inside
<1>3. ASSUME NEW t \in Recv, OnData(t) PROVE Connecting'
  BY <1>3, UIAssumption
  DEF OnData, AES_Decode, GetPrivateKey, Refuse, Accept, Goto, dialog, flow, history, Connecting, Over,
      Ender, TypeB, Threads, Places, EndPcs, UIPcs, RecvPcs, Inside
<1>4. ASSUME NEW t \in Recv, Adopt(t) PROVE Connecting'
  BY <1>4, UIAssumption
  DEF Adopt, Goto, dialog, flow, history, Connecting, Over, Ender, TypeB, Threads, Places,
      EndPcs, UIPcs, RecvPcs, Inside
<1>5. ASSUME NEW t \in Recv, OnConnect(t) PROVE Connecting'
  BY <1>5, UIAssumption
  DEF OnConnect, Accept, Goto, endpoint, dialog, flow, history, Connecting, Over, Ender,
      TypeB, Threads, Places, EndPcs, UIPcs, RecvPcs, Inside
<1>6. ASSUME NEW t \in Recv, Leave(t) PROVE Connecting'
  BY <1>6, UIAssumption
  DEF Leave, Goto, Forget, dialog, flow, history, Connecting, Over, Ender, TypeB, Threads,
      Places, EndPcs, UIPcs, RecvPcs, Inside
<1>7. ASSUME NEW t \in Threads, Unlink(t) PROVE Connecting'
  BY <1>7, UIAssumption
  DEF Unlink, Goto, dialog, flow, history, Connecting, Over, Ender, TypeB, Threads,
      Places, EndPcs, UIPcs, RecvPcs, Inside
<1>8. ASSUME NEW t \in Threads, Notify(t) PROVE Connecting'
  <2>1. after[t] \notin {"key", "post"} /\ (t = UI => after[t] \in {"undo", "cleared"})
    BY <1>8, UIAssumption DEF Notify, Places, Threads, EndPcs
  <2>2. CASE phase = "live" /\ users = {}
    <3>1. phase' = "off" /\ pc' = [pc EXCEPT ![t] = "key"] /\ UNCHANGED <<posted, btnConnect, after>>
      BY <1>8, <2>2 DEF Notify, Goto, dialog
    <3>2. ~stray' => ~stray
      BY <1>8 DEF Notify
    <3>3. pc'[UI] = (IF t = UI THEN "key" ELSE pc[UI]) /\ pc[t] = "notify"
      BY <1>8, <3>1 DEF Notify, TypeB, Threads
    <3>4. ~Over
      BY <2>2 DEF Over
    <3> QED
      BY <2>1, <3>1, <3>2, <3>3, <3>4 DEF Connecting, EndPcs
  <2>3. CASE ~(phase = "live" /\ users = {})
    <3>1. pc' = [pc EXCEPT ![t] = after[t]] /\ UNCHANGED <<posted, btnConnect, after>>
      BY <1>8, <2>3 DEF Notify, Goto, dialog
    <3>2. ~stray' => ~stray /\ after[t] # "undo"
      BY <1>8, <2>3 DEF Notify
    <3>3. phase' = "off" <=> phase = "off"
      BY <1>8, <2>3 DEF Notify
    <3> QED
      BY <1>8, <2>1, <3>1, <3>2, <3>3, UIAssumption DEF Connecting, OneEnd, Over, Ender, Threads, TypeB, Places, EndPcs, Notify
  <2> QED
    BY <2>2, <2>3
<1>9. ASSUME NEW t \in Threads, DestroyKey(t) PROVE Connecting'
  BY <1>9, UIAssumption
  DEF DestroyKey, Goto, endpoint, dialog, flow, history, Connecting, Over, Ender, TypeB,
      Threads, Places, EndPcs, UIPcs, RecvPcs, Inside
<1>10. ASSUME NEW t \in Threads, PostDisconnected(t) PROVE Connecting'
  <2>1. (t = UI => after[t] \in {"undo", "cleared"}) /\ after[t] \notin {"key", "post"}
    BY <1>10, UIAssumption DEF PostDisconnected, Places, Threads, EndPcs
  <2>2. ~stray => phase = "off" /\ \A u \in Threads : Ender(u) => u = t
    BY <1>10 DEF PostDisconnected, OneEnd, Ender
  <2>3. ~stray /\ t # UI => ~(pc[UI] \in {"setkey", "init"})
    BY <1>10, UIAssumption DEF PostDisconnected, Connecting, Over, Ender, EndPcs
  <2>4. ~stray => Over'
    BY <1>10, <2>1, <2>2 DEF PostDisconnected, Goto, endpoint, Over, Ender, TypeB
  <2>5. pc'[UI] = (IF t = UI THEN after[t] ELSE pc[UI])
    BY <1>10 DEF PostDisconnected, Goto, TypeB, Threads
  <2> QED
    BY <1>10, <2>1, <2>3, <2>4, <2>5 DEF PostDisconnected, Connecting, history
<1>11. ASSUME NEW b \in {"connect", "disconnect"}, Click(b) PROVE Connecting'
  BY <1>11, UIAssumption
  DEF Click, Goto, endpoint, dialog, flow, history, Connecting, Over, Ender, TypeB,
      Threads, Places, EndPcs, UIPcs, RecvPcs, Inside
<1>12. CASE SetPrivateKey
  BY <1>12, UIAssumption
  DEF SetPrivateKey, Goto, endpoint, dialog, flow, history, Connecting, Over, Ender,
      TypeB, Threads, Places, EndPcs, UIPcs, RecvPcs, Inside
<1>13. CASE InitEndpoint
  BY <1>13, UIAssumption
  DEF InitEndpoint, Goto, flow, Connecting, Over, Ender, TypeB, Threads, Places, EndPcs,
      UIPcs, RecvPcs, Inside
<1>14. CASE AddConnection
  BY <1>14, UIAssumption
  DEF AddConnection, Goto, dialog, flow, history, Connecting, Over, Ender, TypeB, Threads,
      Places, EndPcs, UIPcs, RecvPcs, Inside
<1>15. CASE SendConnect
  BY <1>15, UIAssumption
  DEF SendConnect, Goto, endpoint, dialog, flow, history, Connecting, Over, Ender, TypeB,
      Threads, Places, EndPcs, UIPcs, RecvPcs, Inside
<1>16. CASE Undo
  BY <1>16, UIAssumption
  DEF Undo, Goto, endpoint, dialog, flow, history, Connecting, Over, Ender, TypeB,
      Threads, Places, EndPcs, UIPcs, RecvPcs, Inside
<1>17. CASE Connected
  BY <1>17, UIAssumption
  DEF Connected, Goto, endpoint, flow, history, Connecting, Over, Ender, TypeB, Threads,
      Places, EndPcs, UIPcs, RecvPcs, Inside
<1>18. CASE Disconnect
  BY <1>18, UIAssumption
  DEF Disconnect, Goto, endpoint, dialog, flow, history, Connecting, Over, Ender, TypeB,
      Threads, Places, EndPcs, UIPcs, RecvPcs, Inside
<1>19. CASE Cleared
  BY <1>19, UIAssumption
  DEF Cleared, Goto, endpoint, flow, history, Connecting, Over, Ender, TypeB, Threads,
      Places, EndPcs, UIPcs, RecvPcs, Inside
<1>20. CASE WindowMessage
  <2>1. ~stray /\ Head(posted) = "e_disconnected" => Over
    BY <1>20, HearMessage DEF WindowMessage, OneEnd, Over
  <2>2. Head(posted) # "e_connected" => Head(posted) = "e_disconnected"
    BY <1>20 DEF WindowMessage, TypeB
  <2>3. Over' <=> Over
    BY <1>20 DEF WindowMessage, endpoint, Over, Ender
  <2>4. pc[UI] = "idle" /\ UNCHANGED <<pc, after, stray>>
    BY <1>20 DEF WindowMessage, history
  <2>5. btnConnect' = btnConnect \/ Head(posted) # "e_connected"
    BY <1>20 DEF WindowMessage, OnConnected, OnDisconnected
  <2> QED
    BY <2>1, <2>2, <2>3, <2>4, <2>5 DEF Connecting, EndPcs
<1>21. CASE Others \/ UNCHANGED vars
  BY <1>21, OthersSame, UIAssumption
  DEF core, Connecting, Over, Ender, TypeB, Threads, Places, EndPcs, UIPcs, RecvPcs,
      Inside
<1>22. ASSUME NEW t \in Recv, Decode(t) PROVE Connecting'
  BY <1>22, UIAssumption
  DEF Decode, Refuse, Goto, dialog, flow, Connecting, Over, Ender, TypeB, Threads, Places,
      EndPcs, UIPcs, RecvPcs, Inside
<1>23. CASE InitCookie
  BY <1>23, UIAssumption
  DEF InitCookie, Goto, dialog, flow, history, Connecting, Over, Ender, TypeB, Threads,
      Places, EndPcs, UIPcs, RecvPcs, Inside
<1> QED
  BY <1>1, <1>2, <1>3, <1>4, <1>5, <1>6, <1>7, <1>8, <1>9, <1>10, <1>11, <1>12, <1>13,
     <1>14, <1>15, <1>16, <1>17, <1>18, <1>19, <1>20, <1>21, <1>22, <1>23
  DEF Next, RecvStep, End, UIStep, Others

-----------------------------------------------------------------------------
LEMMA NetType ==
    ASSUME TypeA, TypeB, TypeC, [Next]_vars
    PROVE  BagToSet(net') \subseteq Packets
<1>1. CASE UNCHANGED net
  BY <1>1 DEF TypeC
<1>2. ASSUME NEW p, Take(p) PROVE BagToSet(net') \subseteq Packets
  BY <1>2, TakeType DEF TypeC
<1>3. ASSUME NEW p \in Packets, Send(p) PROVE BagToSet(net') \subseteq Packets
  BY <1>3, SendType DEF TypeC
<1>4. ASSUME NEW t \in Recv, OnRecv(t) PROVE BagToSet(net') \subseteq Packets
  BY <1>2, <1>4 DEF OnRecv
<1>5. CASE SendConnect
  BY <1>1, <1>3, <1>5, PacketTypes DEF SendConnect, TypeA
<1>6. CASE Disconnect
  BY <1>1, <1>3, <1>6, PacketTypes DEF Disconnect, TypeA
<1>7. CASE WindowMessage
  BY <1>1, <1>3, <1>7, PacketTypes DEF WindowMessage, OnConnected, OnDisconnected, TypeA
<1>8. CASE OnTick
  BY <1>3, <1>8, PacketTypes DEF OnTick, TypeA
<1>9. ASSUME NEW s \in Sessions, ServerSend(s) \/ Silence(s) \/ OnTimer(s) \/ CameraFails(s)
      PROVE  BagToSet(net') \subseteq Packets
  <2>1. s \in 0 .. MaxSessions /\ None \in 0 .. MaxSessions
    BY BoundsAssumption DEF Sessions, None
  <2>2. Data("client", s, s) \in Packets /\ Bye("client", None) \in Packets
    BY <2>1, PacketTypes
  <2> QED
    BY <1>1, <1>3, <1>9, <2>2 DEF ServerSend, Silence, OnTimer, CameraFails
<1>10. CASE Lose \/ Duplicate
  BY <1>2, <1>3, <1>10 DEF Lose, Duplicate, TypeC
<1>11. CASE ServerRecv
  <2>1. PICK p \in BagToSet(net) :
           \/ Take(p)
           \/ p.kind = "connect" /\ Answered(p.key)
    BY <1>11 DEF ServerRecv
  <2>2. CASE Take(p)
    BY <1>2, <2>2
  <2>3. CASE Take(ConnectPacket(p.key))
    BY <1>2, <2>3
  <2>4. ASSUME NEW s \in Sessions, p.kind = "connect",
               net' = (net (-) SetToBag({ConnectPacket(p.key)})) (+) SetToBag({Answer(s, p.key)})
        PROVE  BagToSet(net') \subseteq Packets
    <3>1. Answer(s, p.key) \in Packets
      BY BoundsAssumption DEF TypeC, Packets, Answer, Sessions
    <3> QED
      BY <2>4, <3>1 DEF TypeC, BagToSet, SetToBag, (+), (-)
  <2> QED
    BY <2>1, <2>2, <2>3, <2>4 DEF Answered
<1> QED
  <2>1. CASE \E t \in Recv : RecvStep(t)
    BY <1>1, <2>1 DEF RecvStep, Enter, OnData, Decode, Adopt, OnConnect, Leave
  <2>2. CASE \E t \in Threads : End(t)
    BY <1>1, <2>2 DEF End, Unlink, Notify, DestroyKey, PostDisconnected
  <2>3. CASE \E b \in {"connect", "disconnect"} : Click(b)
    BY <1>1, <2>3 DEF Click
  <2>4. CASE SetPrivateKey \/ InitEndpoint \/ InitCookie \/ AddConnection \/ Undo \/ Connected \/ Cleared
    BY <1>1, <2>4 DEF SetPrivateKey, InitEndpoint, InitCookie, AddConnection, Undo, Connected, Cleared
  <2>5. CASE UNCHANGED vars
    BY <1>1, <2>5 DEF vars
  <2> QED
    BY <1>4, <1>5, <1>6, <1>7, <1>8, <1>9, <1>10, <1>11, <2>1, <2>2, <2>3, <2>4, <2>5
    DEF Next, UIStep

LEMMA TypeCStep ==
    ASSUME TypeA, TypeB, TypeC, [Next]_vars
    PROVE  TypeC'
<1>1. BagToSet(net') \subseteq Packets
  BY NetType
<1>2. server' \in [Sessions -> {"none", "live", "gone"}] /\ fresh' \in [Sessions -> BOOLEAN]
  <2>1. CASE UNCHANGED <<server, fresh>>
    BY <2>1 DEF TypeC
  <2>2. CASE ServerRecv
    BY <2>1, <2>2 DEF ServerRecv, Answered, Goodbye, Gone, OnPing, ServerData, TypeC
  <2>3. CASE \E s \in Sessions : Silence(s) \/ OnTimer(s) \/ CameraFails(s)
    BY <2>3 DEF Silence, OnTimer, CameraFails, Gone, TypeC
  <2> QED
    BY <2>1, <2>2, <2>3 DEF Next, RecvStep, End, UIStep, OnRecv, Enter, OnData, Decode, Adopt, OnConnect,
       Leave, Unlink, Notify, DestroyKey, PostDisconnected, Click, SetPrivateKey, InitEndpoint,
       InitCookie, AddConnection, SendConnect, Undo, Connected, Disconnect, Cleared, WindowMessage, OnTick,
       ServerSend, Lose, Duplicate, vars
<1>3. traffic' \in 0 .. MaxTraffic
  <2>1. traffic' = traffic \/ (traffic < MaxTraffic /\ traffic' = traffic + 1)
    BY DEF Next, RecvStep, End, UIStep, OnRecv, Enter, OnData, Decode, Adopt, OnConnect,
       Leave, Unlink, Notify, DestroyKey, PostDisconnected, Click, SetPrivateKey, InitEndpoint,
       InitCookie, AddConnection, SendConnect, Undo, Connected, Disconnect, Cleared, WindowMessage, OnConnected,
       OnDisconnected, OnTick, ServerRecv, Silence, OnTimer, CameraFails, ServerSend, Lose, Duplicate,
       flow, vars
  <2> QED
    BY <2>1, BoundsAssumption DEF TypeC
<1>4. faults' \in 0 .. MaxFaults
  <2>1. faults' = faults \/ (faults < MaxFaults /\ faults' = faults + 1)
    BY DEF Next, RecvStep, End, UIStep, OnRecv, Enter, OnData, Decode, Adopt, OnConnect,
       Leave, Unlink, Notify, DestroyKey, PostDisconnected, Click, SetPrivateKey, InitEndpoint,
       InitCookie, AddConnection, SendConnect, Undo, Connected, Disconnect, Cleared, WindowMessage,
       OnTick, ServerRecv, Silence, OnTimer, CameraFails, ServerSend, Lose, Duplicate, flow, vars
  <2> QED
    BY <2>1, BoundsAssumption DEF TypeC
<1>5. lossy' \in BOOLEAN
  <2>1. CASE UNCHANGED lossy
    BY <2>1 DEF TypeC
  <2>2. CASE ServerRecv \/ Lose
    BY <2>1, <2>2 DEF ServerRecv, Answered, Lose, TypeC
  <2> QED
    BY <2>1, <2>2 DEF Next, RecvStep, End, UIStep, OnRecv, Enter, OnData, Decode, Adopt, OnConnect,
       Leave, Unlink, Notify, DestroyKey, PostDisconnected, Click, SetPrivateKey, InitEndpoint,
       InitCookie, AddConnection, SendConnect, Undo, Connected, Disconnect, Cleared, WindowMessage, OnTick,
       Silence, OnTimer, CameraFails, ServerSend, Duplicate, history, vars
<1> QED
  BY <1>1, <1>2, <1>3, <1>4, <1>5 DEF TypeC

-----------------------------------------------------------------------------
LEMMA InitIInv == Init => IInv
<1> SUFFICES ASSUME Init PROVE IInv
  OBVIOUS
<1>1. Places
  BY UIAssumption DEF Init, Places, Inside, RecvPcs, EndPcs, UIPcs, Threads
<1>2. ~Told
  BY DEF Init, Told
<1>3. \A t \in Threads : pc[t] = "idle"
  BY DEF Init
<1>4. OneEnd /\ Connecting /\ KeyInUse /\ Keys
  BY <1>2, <1>3 DEF Init, OneEnd, Connecting, KeyInUse, Keys, Over, Ender, Threads, EndPcs
<1> QED
  BY <1>1, <1>4, InitType DEF IInv

LEMMA StepIInv == IInv /\ [Next]_vars => IInv'
<1> SUFFICES ASSUME IInv, [Next]_vars PROVE IInv'
  OBVIOUS
<1>1. TypeA /\ TypeB /\ TypeC
  BY Parts DEF IInv
<1>2. TypeOK'
  <2>1. TypeA' /\ TypeB' /\ TypeC'
    BY <1>1, TypeAStep, TypeBStep, TypeCStep DEF IInv
  <2> QED
    BY <2>1 DEF TypeOK, TypeA, TypeB, TypeC
<1> QED
  BY <1>1, <1>2, PlacesStep, OneEndStep, ConnectingStep, KeyInUseStep, KeysStep DEF IInv

LEMMA Invariant == Spec => []IInv
BY InitIInv, StepIInv, PTL DEF Spec

\* For any number of receives, clicks, sessions and faults of the network: the
\* variables have their types.
THEOREM TypeCorrect == Spec => []TypeOK
<1>1. IInv => TypeOK
  BY DEF IInv
<1> QED
  BY <1>1, Invariant, PTL

\* However a session ends, and on however many threads: when the dialog connects
\* again the private key of the last attempt is destroyed (SetPrivateKey's
\* __debugbreak is not reached) and the endpoint is free for Init.
THEOREM ConnectIsClean == Spec => []ConnectStartsClean
<1>1. IInv => ConnectStartsClean
  <2> SUFFICES ASSUME IInv, ~stray PROVE ConnectStartsClean
    BY DEF ConnectStartsClean, PrivateKeyIsFree, ConnectFindsItFree
  <2>1. pc[UI] \in {"setkey", "init"} => Over
    BY DEF IInv, Connecting, EndPcs
  <2>2. pc[UI] = "setkey" => ~hKey
    BY <2>1 DEF IInv, KeyInUse, Over, Ender
  <2> QED
    BY <2>1, <2>2 DEF ConnectStartsClean, PrivateKeyIsFree, ConnectFindsItFree, Over
<1> QED
  BY <1>1, Invariant, PTL

\* Whatever answers the network delivers, late, twice or of another attempt: the
\* client's key is that of the session whose cookie it uses, unless two receives
\* decoded an answer at once.
THEOREM KeyMatches == Spec => []KeyOfTheSession
<1>1. IInv => KeyOfTheSession
  BY DEF IInv, Keys, KeyOfTheSession
<1> QED
  BY <1>1, Invariant, PTL
=============================================================================
