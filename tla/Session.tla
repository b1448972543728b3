------------------------------- MODULE Session -------------------------------
(***************************************************************************)
(* A session from end to end: the dialog of the client (WCDlg), its one    *)
(* endpoint (CClient over TUDP.cpp), a network that loses, duplicates and  *)
(* reorders, and the endpoints the server makes, one per hello it answers. *)
(*                                                                         *)
(* The client keeps one cookie for all its connections, so the server's    *)
(* packets of an earlier connection still find it.  Which server endpoint  *)
(* the client belongs to (m_rcookie) and the AES key (m_hKey) come out of  *)
(* the server's answer to the connect packet, decoded with the private key *)
(* _hKey, on any of the client's receives; the dialog learns of it by      *)
(* window messages, which it handles before its buttons and timer.         *)
(*                                                                         *)
(* The rundown lock m_rp is that of module RundownSpec; reference counts   *)
(* are module EndpointLife, messages in fragments Reassembly, the camera   *)
(* Capture.  A server handler is one step here.                            *)
(***************************************************************************)
EXTENDS Integers, Sequences, FiniteSets, Bags

CONSTANTS Recv,         \* the client's receives (4 in the code)
          UI,           \* the thread of the dialog
          MaxSessions,  \* bound on the endpoints the server makes
          MaxConnects,  \* bound on the clicks on Connect
          MaxTraffic,   \* bound on the messages and pings, both ways
          MaxFaults     \* bound on the packets lost or duplicated

ASSUME UIAssumption == UI \notin Recv
ASSUME BoundsAssumption ==
    {MaxSessions, MaxConnects, MaxTraffic, MaxFaults} \subseteq Nat

Threads == Recv \cup {UI}
Sessions == 1 .. MaxSessions
None == 0           \* a zero cookie, no key

VARIABLES
    phase, users,   \* m_rp of the client's endpoint: "off", "live", "closing"; who is in
    linked,         \* the endpoint is in the client's list
    rcookie,        \* m_rcookie: the server endpoint it belongs to
    aeskey,         \* m_hKey: the server endpoint that made the key
    hKey,           \* _hKey: the private key is there
    connected,      \* WCDlg::_bConnected
    btnConnect, btnDisconnect,  \* ID_CONNECT, ID_DISCONNECT are enabled
    timer,          \* SetTimer was called, KillTimer not yet
    posted,         \* the window messages in the dialog's queue
    pc, pkt,        \* per thread: where it is, the packet it has
    after,          \* per thread: where RemoveConnection, OnDisconnect return to
    attempt,        \* clicks on Connect so far
    server,         \* per server endpoint: "none", "live", "gone"
    fresh,          \* per server endpoint: m_tick lies in the future
    net,            \* the bag of the packets in flight
    traffic, faults, \* counts for the bounds
    lossy,          \* history: a packet of the set-up was not delivered
    mixed,          \* history: two receives decoded an answer at once
    stray           \* history: Connect failed without completing m_rp

endpoint == <<phase, users, linked, rcookie, aeskey>>
dialog == <<connected, btnConnect, btnDisconnect, timer, attempt>>
flow == <<traffic, faults>>
history == <<lossy, mixed, stray>>
vars == <<endpoint, hKey, dialog, posted, pc, pkt, after, server, fresh, net, flow, history>>

ConnectPacket(a) == [to |-> "server", kind |-> "connect", s |-> None, key |-> a]
Answer(s, a) == [to |-> "client", kind |-> "answer", s |-> s, key |-> a]
Data(to, s, k) == [to |-> to, kind |-> "data", s |-> s, key |-> k]
Ping(s) == [to |-> "server", kind |-> "ping", s |-> s, key |-> None]
Bye(to, s) == [to |-> to, kind |-> "bye", s |-> s, key |-> None]
Packets ==
    [to : {"server", "client"}, kind : {"connect", "answer", "data", "ping", "bye"},
     s : 0 .. MaxSessions, key : 0 .. MaxSessions + MaxConnects]
NoPacket == Ping(None)

RecvPcs == {"idle", "enter", "decode", "private", "adopt", "onconnect", "leave"}
EndPcs == {"unlink", "notify", "key", "post"}
UIPcs == {"idle", "setkey", "init", "reset", "add", "send", "undo", "connected", "disconnect", "cleared"}

TypeOK ==
    /\ phase \in {"off", "live", "closing"} /\ users \subseteq Threads /\ linked \in BOOLEAN
    /\ rcookie \in 0 .. MaxSessions /\ aeskey \in 0 .. MaxSessions
    /\ {hKey, connected, btnConnect, btnDisconnect, timer, lossy, mixed, stray} \subseteq BOOLEAN
    /\ posted \in Seq({"e_connected", "e_disconnected"})
    /\ pc \in [Threads -> RecvPcs \cup EndPcs \cup UIPcs]
    /\ pkt \in [Recv -> Packets] /\ after \in [Threads -> RecvPcs \cup EndPcs \cup UIPcs]
    /\ attempt \in 0 .. MaxConnects
    /\ server \in [Sessions -> {"none", "live", "gone"}] /\ fresh \in [Sessions -> BOOLEAN]
    /\ BagToSet(net) \subseteq Packets
    /\ traffic \in 0 .. MaxTraffic /\ faults \in 0 .. MaxFaults

Init ==
    /\ phase = "off" /\ users = {} /\ linked = FALSE /\ rcookie = None /\ aeskey = None
    /\ hKey = FALSE
    /\ connected = FALSE /\ btnConnect = TRUE /\ btnDisconnect = FALSE /\ timer = FALSE
    /\ posted = <<>> /\ attempt = 0
    /\ pc = [t \in Threads |-> "idle"] /\ after = [t \in Threads |-> "idle"]
    /\ pkt = [t \in Recv |-> NoPacket]
    /\ server = [s \in Sessions |-> "none"] /\ fresh = [s \in Sessions |-> FALSE]
    /\ net = EmptyBag
    /\ traffic = 0 /\ faults = 0
    /\ lossy = FALSE /\ mixed = FALSE /\ stray = FALSE

Goto(t, l) == pc' = [pc EXCEPT ![t] = l]
Send(p) == net' = net (+) SetToBag({p})
Take(p) == net' = net (-) SetToBag({p})

-----------------------------------------------------------------------------
\* The end of a session, on any thread: RemoveConnection ...
Unlink(t) ==
    /\ pc[t] = "unlink"
    /\ linked' = FALSE
    /\ Goto(t, "notify")
    /\ after' = [after EXCEPT ![t] = IF t \in Recv THEN "idle" ELSE @]
    /\ UNCHANGED <<phase, users, rcookie, aeskey, hKey, dialog, posted, pkt, server,
                   fresh, net, flow, history>>

\* ... notify_disconnect, which runs OnDisconnect itself if nobody is inside ...
Notify_Silent(t) ==     \* mutant: OnDisconnect is left to whoever is inside
    /\ pc[t] = "notify"
    /\ phase' = CASE phase = "live" /\ users = {} -> "off"
                 [] phase = "live" /\ users # {} -> "closing"
                 [] OTHER -> phase
    /\ Goto(t, after[t])
    /\ UNCHANGED <<users, linked, rcookie, aeskey, hKey, dialog, posted, pkt, after, server,
                   fresh, net, flow, history>>

Notify(t) ==
    /\ pc[t] = "notify"
    /\ CASE phase = "live" /\ users = {} -> phase' = "off" /\ Goto(t, "key")
         [] phase = "live" /\ users # {} -> phase' = "closing" /\ Goto(t, after[t])
         [] OTHER -> UNCHANGED phase /\ Goto(t, after[t])
    /\ stray' = (stray \/ (after[t] = "undo" /\ ~(phase = "live" /\ users = {})))
    /\ UNCHANGED <<users, linked, rcookie, aeskey, hKey, dialog, posted, pkt, after, server,
                   fresh, net, flow, lossy, mixed>>

\* ... and CClient::OnDisconnect: DestroyKey, then the dialog is told.
DestroyKey_Not(t) ==    \* mutant: only OnConnect destroys the key
    /\ pc[t] = "key"
    /\ Goto(t, "post")
    /\ UNCHANGED <<endpoint, hKey, dialog, posted, pkt, after, server, fresh, net, flow, history>>

DestroyKey(t) ==
    /\ pc[t] = "key"
    /\ hKey' = FALSE
    /\ Goto(t, "post")
    /\ UNCHANGED <<endpoint, dialog, posted, pkt, after, server, fresh, net, flow, history>>

PostDisconnected(t) ==
    /\ pc[t] = "post"
    /\ posted' = Append(posted, "e_disconnected")
    /\ Goto(t, after[t])
    /\ UNCHANGED <<endpoint, hKey, dialog, pkt, after, server, fresh, net, flow, history>>

End(t) == Unlink(t) \/ Notify(t) \/ DestroyKey(t) \/ PostDisconnected(t)

-----------------------------------------------------------------------------
Forget(t) == pkt' = [pkt EXCEPT ![t] = NoPacket]

\* The client's receives.  OnRecv: a goodbye, or a packet for OnData; without a
\* connection a client drops everything (CreatePubKey refuses).
OnRecv(t) ==
    /\ pc[t] = "idle"
    /\ \E p \in BagToSet(net) :
         /\ p.to = "client"
         /\ Take(p)
         /\ IF ~linked THEN UNCHANGED <<pc, pkt>>
            ELSE IF p.kind = "bye" THEN Goto(t, "unlink") /\ UNCHANGED pkt
            ELSE Goto(t, "enter") /\ pkt' = [pkt EXCEPT ![t] = p]
    /\ UNCHANGED <<endpoint, hKey, dialog, posted, after, server, fresh, flow, history>>

\* m_rp.Acquire; too late for a session that is over: RemoveConnection.
Enter(t) ==
    /\ pc[t] = "enter"
    /\ IF phase = "live" THEN users' = users \cup {t} /\ Goto(t, "decode") /\ UNCHANGED pkt
                         ELSE UNCHANGED users /\ Goto(t, "unlink") /\ Forget(t)
    /\ UNCHANGED <<phase, linked, rcookie, aeskey, hKey, dialog, posted, after, server,
                   fresh, net, flow, history>>

\* What does not decode, or OnUserData refuses, ends the session.
Refuse(t) == Goto(t, "leave") /\ after' = [after EXCEPT ![t] = "unlink"]
Accept(t) == Goto(t, "leave") /\ UNCHANGED after

\* Connected: AES_Decode, with the key of the session.
AES_Decode(t) ==
    /\ rcookie # None
    /\ \/ pkt[t].kind = "data" /\ pkt[t].key = aeskey /\ Accept(t)
       \/ Refuse(t)

\* Not connected: the private key, if it is still there ...
GetPrivateKey(t) ==
    /\ rcookie = None
    /\ IF hKey THEN Goto(t, "private") /\ UNCHANGED after ELSE Refuse(t)

OnData(t) ==
    /\ pc[t] = "decode"
    /\ AES_Decode(t) \/ GetPrivateKey(t)
    /\ UNCHANGED <<phase, users, linked, rcookie, aeskey, hKey, dialog, posted, pkt, server,
                   fresh, net, flow, history>>

\* ... and Decode, which writes m_hKey.  An answer to an earlier attempt decodes
\* if that one used the same key file.  (History: another receive decoded too.)
Decode_KeepsKey(t) ==   \* mutant: a key that is there is not replaced
    /\ pc[t] = "private"
    /\ \/ /\ pkt[t].kind = "answer"
          /\ aeskey' = IF aeskey = None THEN pkt[t].s ELSE aeskey
          /\ mixed' = (mixed \/ rcookie # None \/ \E u \in Recv : pc[u] = "adopt")
          /\ Goto(t, "adopt") /\ UNCHANGED after
       \/ Refuse(t) /\ UNCHANGED <<aeskey, mixed>>
    /\ UNCHANGED <<phase, users, linked, rcookie, hKey, dialog, posted, pkt, server, fresh,
                   net, flow, lossy, stray>>

Decode(t) ==
    /\ pc[t] = "private"
    /\ \/ /\ pkt[t].kind = "answer"
          /\ aeskey' = pkt[t].s
          /\ mixed' = (mixed \/ rcookie # None \/ \E u \in Recv : pc[u] = "adopt")
          /\ Goto(t, "adopt") /\ UNCHANGED after
       \/ /\ ~(hKey /\ pkt[t].kind = "answer" /\ pkt[t].key = attempt)
          /\ Refuse(t)
          /\ UNCHANGED <<aeskey, mixed>>
    /\ UNCHANGED <<phase, users, linked, rcookie, hKey, dialog, posted, pkt, server, fresh,
                   net, flow, lossy, stray>>

\* m_rcookie is set; then CClient::OnConnect: DestroyKey, the dialog is told.
Adopt(t) ==
    /\ pc[t] = "adopt"
    /\ rcookie' = pkt[t].s
    /\ Goto(t, "onconnect")
    /\ UNCHANGED <<phase, users, linked, aeskey, hKey, dialog, posted, pkt, after, server,
                   fresh, net, flow, history>>

OnConnect(t) ==
    /\ pc[t] = "onconnect"
    /\ hKey' = FALSE
    /\ posted' = Append(posted, "e_connected")
    /\ Accept(t)
    /\ UNCHANGED <<endpoint, dialog, pkt, server, fresh, net, flow, history>>

\* m_rp.Release: the last one out runs OnDisconnect; an error ends the session.
Leave(t) ==
    /\ pc[t] = "leave"
    /\ users' = users \ {t}
    /\ IF phase = "closing" /\ users = {t}
       THEN phase' = "off" /\ Goto(t, "key")
       ELSE UNCHANGED phase /\ Goto(t, after[t])
    /\ Forget(t)
    /\ UNCHANGED <<linked, rcookie, aeskey, hKey, dialog, posted, after, server, fresh,
                   net, flow, history>>

RecvStep(t) ==
    Enter(t) \/ OnData(t) \/ Decode(t) \/ Adopt(t) \/ OnConnect(t) \/ Leave(t)

-----------------------------------------------------------------------------
\* The dialog.  Windows hands out a click only when no message is posted, and
\* none to a disabled button; messages may be posted before it is handled.
Click(button) ==
    /\ pc[UI] = "idle" /\ posted = <<>>
    /\ \/ button = "connect" /\ btnConnect /\ attempt < MaxConnects /\ Goto(UI, "setkey")
       \/ button = "disconnect" /\ btnDisconnect /\ Goto(UI, "disconnect")
    /\ UNCHANGED <<endpoint, hKey, dialog, posted, pkt, after, server, fresh, net, flow, history>>

\* WCDlg::Connect: SetPrivateKey, which stops the program if there is a key.
SetPrivateKey ==
    /\ pc[UI] = "setkey"
    /\ IF connected THEN UNCHANGED hKey /\ Goto(UI, "idle")
                    ELSE hKey' = TRUE /\ Goto(UI, "init")
    /\ UNCHANGED <<endpoint, dialog, posted, pkt, after, server, fresh, net, flow, history>>

\* Endpoint::Connect: Init fails unless the last session is complete, and, the
\* first time, when it cannot allocate: m_rp stays live then.
InitEndpoint ==
    /\ pc[UI] = "init"
    /\ attempt' = attempt + 1
    /\ \/ /\ phase = "off"
          /\ phase' = "live" /\ Goto(UI, "reset") /\ UNCHANGED stray
       \/ /\ phase = "off" /\ attempt = 0
          /\ phase' = "live" /\ stray' = TRUE /\ Goto(UI, "undo")
       \/ /\ phase # "off"
          /\ Goto(UI, "undo") /\ UNCHANGED <<phase, stray>>
    /\ UNCHANGED <<users, linked, rcookie, aeskey, hKey, connected, btnConnect, btnDisconnect, timer,
                   posted, pkt, after, server, fresh, net, flow, lossy, mixed>>

\* A receive that found the endpoint in its last session may be inside by now.
InitCookie ==
    /\ pc[UI] = "reset"
    /\ rcookie' = None
    /\ Goto(UI, "add")
    /\ UNCHANGED <<phase, users, linked, aeskey, hKey, dialog, posted, pkt, after, server,
                   fresh, net, flow, history>>

AddConnection ==
    /\ pc[UI] = "add"
    /\ linked' = TRUE
    /\ Goto(UI, "send")
    /\ UNCHANGED <<phase, users, rcookie, aeskey, hKey, dialog, posted, pkt, after, server,
                   fresh, net, flow, history>>

\* SendTo fails when it cannot allocate: RemoveConnection.
SendConnect ==
    /\ pc[UI] = "send"
    /\ \/ Send(ConnectPacket(attempt)) /\ Goto(UI, "connected") /\ UNCHANGED after
       \/ after' = [after EXCEPT ![UI] = "undo"] /\ Goto(UI, "unlink") /\ UNCHANGED net
    /\ UNCHANGED <<endpoint, hKey, dialog, posted, pkt, server, fresh, flow, history>>

Undo ==
    /\ pc[UI] = "undo"
    /\ hKey' = FALSE
    /\ Goto(UI, "idle")
    /\ UNCHANGED <<endpoint, dialog, posted, pkt, after, server, fresh, net, flow, history>>

Connected ==
    /\ pc[UI] = "connected"
    /\ connected' = TRUE /\ btnConnect' = FALSE
    /\ Goto(UI, "idle")
    /\ UNCHANGED <<endpoint, hKey, btnDisconnect, timer, attempt, posted, pkt, after, server,
                   fresh, net, flow, history>>

\* ID_DISCONNECT: Endpoint::Disconnect says goodbye and removes the connection;
\* _bConnected is cleared after that.
Disconnect ==
    /\ pc[UI] = "disconnect"
    /\ IF connected
       THEN /\ Send(Bye("server", rcookie))
            /\ after' = [after EXCEPT ![UI] = "cleared"]
            /\ Goto(UI, "unlink")
       ELSE Goto(UI, "idle") /\ UNCHANGED <<net, after>>
    /\ UNCHANGED <<endpoint, hKey, dialog, posted, pkt, server, fresh, flow, history>>

Cleared_EnablesConnect ==   \* mutant: the user may connect again at once
    /\ pc[UI] = "cleared"
    /\ connected' = FALSE /\ btnDisconnect' = FALSE /\ btnConnect' = TRUE
    /\ Goto(UI, "idle")
    /\ UNCHANGED <<endpoint, hKey, timer, attempt, posted, pkt, after, server,
                   fresh, net, flow, history>>

Cleared ==
    /\ pc[UI] = "cleared"
    /\ connected' = FALSE /\ btnDisconnect' = FALSE
    /\ Goto(UI, "idle")
    /\ UNCHANGED <<endpoint, hKey, btnConnect, timer, attempt, posted, pkt, after, server,
                   fresh, net, flow, history>>

\* e_connected: the buttons, GetFormats (a message to the server), the timer.
OnConnected ==
    /\ btnDisconnect' = TRUE /\ timer' = TRUE
    /\ \/ traffic < MaxTraffic /\ traffic' = traffic + 1 /\ Send(Data("server", rcookie, aeskey))
       \/ UNCHANGED <<traffic, net>>
    /\ UNCHANGED <<connected, btnConnect>>

\* e_disconnected.
OnDisconnected ==
    /\ timer' = FALSE /\ connected' = FALSE
    /\ btnConnect' = TRUE /\ btnDisconnect' = FALSE
    /\ UNCHANGED <<traffic, net>>

WindowMessage ==
    /\ pc[UI] = "idle" /\ posted # <<>>
    /\ posted' = Tail(posted)
    /\ IF Head(posted) = "e_connected" THEN OnConnected ELSE OnDisconnected
    /\ UNCHANGED <<endpoint, hKey, attempt, pc, pkt, after, server, fresh, faults, history>>

\* WM_TIMER: a ping for the session.
OnTick ==
    /\ pc[UI] = "idle" /\ posted = <<>>
    /\ timer /\ connected /\ traffic < MaxTraffic
    /\ traffic' = traffic + 1
    /\ Send(Ping(rcookie))
    /\ UNCHANGED <<endpoint, hKey, dialog, posted, pc, pkt, after, server, fresh, faults, history>>

UIStep ==
    \/ SetPrivateKey \/ InitEndpoint \/ InitCookie \/ AddConnection \/ SendConnect \/ Undo
    \/ Connected \/ Disconnect \/ Cleared \/ WindowMessage

-----------------------------------------------------------------------------
\* The server.  OnConnect: an endpoint, linked for 15 s, and its answer; or it
\* cannot be allocated or answered.
Live(s) == s \in Sessions /\ server[s] = "live"

Answered(a) ==
    \/ \E s \in Sessions :
         /\ server[s] = "none" /\ \A r \in 1 .. s - 1 : server[r] # "none"
         /\ server' = [server EXCEPT ![s] = "live"]
         /\ fresh' = [fresh EXCEPT ![s] = TRUE]
         /\ net' = (net (-) SetToBag({ConnectPacket(a)})) (+) SetToBag({Answer(s, a)})
         /\ UNCHANGED lossy
    \/ lossy' = TRUE /\ Take(ConnectPacket(a)) /\ UNCHANGED <<server, fresh>>

\* OnDisconnect.
Gone(s) ==
    /\ server' = [server EXCEPT ![s] = "gone"]
    /\ fresh' = [fresh EXCEPT ![s] = FALSE]
Goodbye(s) == Gone(s)

\* OnPing.
OnPing(s) == fresh' = [fresh EXCEPT ![s] = TRUE] /\ UNCHANGED server

\* OnData: the key must be that of the session, which sets m_tick as a ping does;
\* and OnUserData must accept it.
ServerData(s, k) ==
    \/ k = s /\ OnPing(s)
    \/ Gone(s)

ServerRecv ==
    /\ \E p \in BagToSet(net) :
         /\ p.to = "server"
         /\ \/ p.kind = "connect" /\ Answered(p.key)
            \/ p.kind # "connect" /\ ~Live(p.s) /\ Take(p) /\ UNCHANGED <<server, fresh, lossy>>
            \/ p.kind = "bye" /\ Live(p.s) /\ Take(p) /\ Goodbye(p.s) /\ UNCHANGED lossy
            \/ p.kind = "ping" /\ Live(p.s) /\ Take(p) /\ OnPing(p.s) /\ UNCHANGED lossy
            \/ p.kind = "data" /\ Live(p.s) /\ Take(p) /\ ServerData(p.s, p.key) /\ UNCHANGED lossy
    /\ UNCHANGED <<endpoint, hKey, dialog, posted, pc, pkt, after, flow, mixed, stray>>

\* SendUserData: formats, frames, 'stop'.
ServerSend(s) ==
    /\ Live(s) /\ traffic < MaxTraffic
    /\ traffic' = traffic + 1
    /\ Send(Data("client", s, s))
    /\ UNCHANGED <<endpoint, hKey, dialog, posted, pc, pkt, after, server, fresh, faults, history>>

\* 15 s pass without a ping; OnTimer then drops the endpoint and says goodbye,
\* to the one cookie of the client.
Silence(s) ==
    /\ Live(s) /\ fresh[s]
    /\ fresh' = [fresh EXCEPT ![s] = FALSE]
    /\ UNCHANGED <<endpoint, hKey, dialog, posted, pc, pkt, after, server, net, flow, history>>

Expired_Never(s) == FALSE   \* mutant: m_tick is compared the wrong way round
Expired(s) == Live(s) /\ ~fresh[s]

OnTimer(s) ==
    /\ Expired(s)
    /\ Gone(s)
    /\ Send(Bye("client", None))
    /\ UNCHANGED <<endpoint, hKey, dialog, posted, pc, pkt, after, flow, history>>

\* H264::Stop when the camera of the session fails (which session has a camera
\* is not kept here): Disconnect, which says goodbye too.
CameraFails(s) ==
    /\ Live(s)
    /\ Gone(s)
    /\ Send(Bye("client", None))
    /\ UNCHANGED <<endpoint, hKey, dialog, posted, pc, pkt, after, flow, history>>

\* The network.
Lose ==
    /\ faults < MaxFaults
    /\ faults' = faults + 1
    /\ \E p \in BagToSet(net) :
         /\ Take(p)
         /\ lossy' = (lossy \/ p.kind \in {"connect", "answer"})
    /\ UNCHANGED <<endpoint, hKey, dialog, posted, pc, pkt, after, server, fresh, traffic,
                   mixed, stray>>

Duplicate ==
    /\ faults < MaxFaults
    /\ faults' = faults + 1
    /\ \E p \in BagToSet(net) : Send(p)
    /\ UNCHANGED <<endpoint, hKey, dialog, posted, pc, pkt, after, server, fresh, traffic,
                   history>>

Next ==
    \/ \E t \in Recv : OnRecv(t) \/ RecvStep(t)
    \/ \E t \in Threads : End(t)
    \/ \E b \in {"connect", "disconnect"} : Click(b)
    \/ UIStep \/ OnTick \/ ServerRecv \/ Lose \/ Duplicate
    \/ \E s \in Sessions : ServerSend(s) \/ Silence(s) \/ OnTimer(s) \/ CameraFails(s)

Spec == Init /\ [][Next]_vars

\* Threads go on, packets that are not lost arrive, time passes and the
\* server's timer is periodic.  The user need not do anything.
FairSpec ==
    /\ Spec
    /\ \A t \in Recv : WF_vars(RecvStep(t))
    /\ \A t \in Threads : WF_vars(End(t))
    /\ WF_vars(\E t \in Recv : OnRecv(t)) /\ WF_vars(UIStep) /\ WF_vars(ServerRecv)
    /\ \A s \in Sessions : WF_vars(Silence(s)) /\ WF_vars(OnTimer(s))

-----------------------------------------------------------------------------
\* SetPrivateKey never meets a key (its __debugbreak): every way a session ends
\* destroys it before the dialog can connect again; unless Connect failed in Init,
\* or to send while a receive, which may be slow, has to run OnDisconnect.
PrivateKeyIsFree == pc[UI] = "setkey" /\ ~connected /\ ~stray => ~hKey

\* The dialog is never ahead of its endpoint: when it lets the user connect, the
\* last session is complete and Init takes the endpoint.
ConnectFindsItFree == pc[UI] = "init" /\ ~stray => phase = "off"

\* So the next Connect finds nothing of the last one, whatever of it is still going on.
ConnectStartsClean == PrivateKeyIsFree /\ ConnectFindsItFree

\* A connected client uses the key of the session it belongs to, however many
\* answers, of this attempt and of earlier ones, are on their way; unless two
\* receives decode an answer at the same time.
KeyOfTheSession ==
    rcookie # None /\ ~mixed /\ (\A t \in Recv : pc[t] \notin {"adopt"}) => aeskey = rcookie

\* A server endpoint its client does not belong to (any more) goes away.
AbandonedSessionEnds ==
    \A s \in Sessions :
        (server[s] = "live" /\ ~(phase = "live" /\ rcookie = s))
            ~> (server[s] = "gone" \/ (phase = "live" /\ rcookie = s))

\* The dialog is never stuck with both buttons disabled, if the packets of the
\* set-up arrive.
DialogComesBack == (~btnConnect /\ ~btnDisconnect) ~> (btnConnect \/ btnDisconnect \/ lossy)
=============================================================================
