----------------------------- MODULE ClientVideo -----------------------------
(***************************************************************************)
(* The picture and the list of cameras of the remote client, in one        *)
(* session: CClient on the receives (client.cpp), the dialog WCDlg (ep.cpp)*)
(* and the window YCameraWnd (render.cpp) on the user's thread.            *)
(*                                                                         *)
(* A picture (VBmp) is counted: the dialog makes it, CClient::_vid and the *)
(* window keep it, and a frame is decoded into it on whatever receive      *)
(* brought the frame.  _vid is a plain pointer that the dialog (Start), the*)
(* message 'stop' and OnDisconnect change.  The list of cameras is copied  *)
(* out of the buffer its message was put together in (a slot), when the    *)
(* dialog gets to e_list; the combo box points into the copy.              *)
(*                                                                         *)
(* The server is what its OnUserData (server.cpp) and H264::Stop answer;   *)
(* a packet is one message.  After a use of freed memory, or of a picture  *)
(* that is not there, the program is undefined and the behaviour ends.     *)
(***************************************************************************)
EXTENDS Integers, SequencesExt

CONSTANTS Recv,         \* the client's receives (4 in the code)
          UI,           \* the thread of the dialog and the window
          NumSlots,     \* message buffers of the endpoint (e_nb, 4 in the code)
          Formats,      \* TRUE: the camera has '2YUY' formats, FALSE: it has others
          MaxPics,      \* bound on the pictures the dialog makes
          MaxLists,     \* bound on the requests for a list
          MaxFrames,    \* bound on the frames, and 'stop's too many, the server sends
          MaxFaults     \* bound on packets lost or duplicated, and failed sends

ASSUME UIAssumption == UI \notin Recv
ASSUME FormatsAssumption == Formats \subseteq BOOLEAN
ASSUME SlotsAssumption == IsFiniteSet(Recv) /\ NumSlots \in Nat /\ NumSlots >= Cardinality(Recv)
ASSUME BoundsAssumption == MaxPics \in Nat /\ MaxLists \in Nat

Threads == Recv \cup {UI}
Pics == 1 .. MaxPics
Slots == 1 .. NumSlots
None == 0           \* no picture, no list

VARIABLES
    phase,          \* m_rp of the endpoint: "live", "closing", "off"
    users,          \* the receives inside m_rp
    pc, slot, pic,  \* per thread: place, buffer of its message, picture in use
    count,          \* VBmp::_dwRef of each picture
    made,           \* pictures made so far
    vid, yuy2,      \* CClient::_vid, and whether _biCompression is '2YUY'
    wnd,            \* YCameraWnd::_vid
    content,        \* per slot: the list in it; None when it holds something else
    posted,         \* window messages in the dialog's queue
    connected, bVideo, enabled, bits,  \* WCDlg's flags (bits: there is one to hide), buttons
    buf, items,     \* the list in WCDlg::_buf; what the combo boxes point into
    camera,         \* the server's _pin: "off" or "stopped" (it was there: the encoder
                    \* may still be at work), "on", "failed"; "gone": no session
    asked, lists, frames,  \* requests for a list, lists and frames sent
    toClient, toServer,  \* packets in flight
    faults,         \* faults so far
    undefined,      \* why the program is undefined from here on
    overtaken,      \* history: a picture was released while a frame was decoded into it
    lossy, impatient, doubled  \* history: lost; asked again too early; duplicated

threads == <<pc, slot, pic>>
pictures == <<count, made, vid, yuy2, wnd>>
dialog == <<connected, bVideo, enabled, bits, buf, items, asked>>
server == <<camera, lists, frames>>
net == <<toClient, toServer>>
history == <<undefined, overtaken, lossy, impatient, doubled>>
vars == <<phase, users, threads, pictures, content, posted, dialog, server, net, faults, history>>

Packet(k, n) == [kind |-> k, list |-> n]
Posted(k, s) == [kind |-> k, slot |-> s]

TypeOK ==
    /\ phase \in {"live", "closing", "off"} /\ users \subseteq Recv
    /\ pic \in [Threads -> 0 .. MaxPics] /\ slot \in [Recv -> 0 .. NumSlots]
    /\ count \in [Pics -> Nat] /\ made \in 0 .. MaxPics
    /\ {vid, wnd} \subseteq 0 .. MaxPics
    /\ {connected, bVideo, bits, yuy2, overtaken, lossy, impatient, doubled} \subseteq BOOLEAN
    /\ content \in [Slots -> 0 .. MaxLists] /\ buf \in 0 .. MaxLists
    /\ items \in {"none", "kept", "freed"}
    /\ enabled \subseteq {"IDOK", "IDABORT", "ID_REFRESH", "ID_HIDE"}
    /\ camera \in {"off", "on", "failed", "stopped", "gone"}
    /\ undefined \subseteq {"race", "no_picture", "freed_picture", "freed_list"}

\* OnConnect has posted e_connected.
Init ==
    /\ phase = "live" /\ users = {}
    /\ pc = [t \in Threads |-> "idle"]
    /\ slot = [t \in Recv |-> 0] /\ pic = [t \in Threads |-> None]
    /\ count = [p \in Pics |-> 0] /\ made = 0 /\ vid = None /\ yuy2 = FALSE /\ wnd = None
    /\ content = [s \in Slots |-> None] /\ posted = <<Posted("e_connected", 0)>>
    /\ connected = TRUE /\ bVideo = FALSE /\ enabled = {} /\ bits = FALSE
    /\ buf = None /\ items = "none"
    /\ camera = "off" /\ asked = 0 /\ lists = 0 /\ frames = 0
    /\ toClient = <<>> /\ toServer = <<>> /\ faults = 0
    /\ undefined = {} /\ overtaken = FALSE /\ lossy = FALSE /\ impatient = FALSE /\ doubled = FALSE

Goto(t, l) == pc' = [pc EXCEPT ![t] = l]
\* A use of memory that is freed or of nothing, or two threads in one pointer.
Undefined(why, b) == undefined' = undefined \cup {k \in {why} : b}

\* Release of a picture that is freed already is a use of freed memory.
Release(p) ==
    /\ count' = [count EXCEPT ![p] = IF @ = 0 THEN 0 ELSE @ - 1]
    /\ Undefined("freed_picture", count[p] = 0)

-----------------------------------------------------------------------------
\* OnData puts the message together in a slot that holds none (the first) and
\* calls OnUserData, inside m_rp.
Used == {slot[t] : t \in users}
FirstFree == CHOOSE s \in Slots \ Used : \A r \in Slots \ Used : s <= r

OnRecv(t) ==
    /\ pc[t] = "idle" /\ phase = "live"     \* else the packet is dropped
    /\ toClient # <<>> /\ toClient' = Tail(toClient)
    /\ LET p == Head(toClient)
       IN  IF p.kind = "bye"    \* OnDisconnect of a goodbye: RemoveConnection
           THEN Goto(t, "remove") /\ UNCHANGED <<users, slot, content>>
           ELSE /\ Goto(t, p.kind)
                /\ users' = users \cup {t}
                /\ slot' = [slot EXCEPT ![t] = FirstFree]
                /\ content' = [content EXCEPT ![FirstFree] = p.list]
    /\ UNCHANGED <<phase, pic, pictures, posted, dialog, server, toServer, faults, history>>

\* 'fmts': a valid list; the dialog is given the address of the slot.
OnFormats(t) ==
    /\ pc[t] = "fmts"
    /\ posted' = Append(posted, Posted("e_list", slot[t]))
    /\ Goto(t, "leave")
    /\ UNCHANGED <<phase, users, slot, pic, pictures, content, dialog, server,
                   net, faults, history>>

\* 'stop': the dialog is told first, then the picture is released.
OnStop_Silent(t) ==     \* mutant: the dialog is not told
    /\ pc[t] = "stop"
    /\ Goto(t, "release")
    /\ UNCHANGED <<phase, users, slot, pic, pictures, content, posted, dialog, server,
                   net, faults, history>>

OnStop(t) ==
    /\ pc[t] = "stop"
    /\ posted' = Append(posted, Posted("e_set", 0))
    /\ Goto(t, "release")
    /\ UNCHANGED <<phase, users, slot, pic, pictures, content, dialog, server,
                   net, faults, history>>

\* if (_vid) _vid->Release(), by 'stop' and by OnDisconnect ...
Starting == pc[UI] \in {"start", "set", "undo"}
Stopping(t) == pc[t] \in {"release", "clear"}
Decoding == \E r \in Recv : pc[r] = "decode"

ReleaseVid(t) ==
    /\ pc[t] = "release"
    /\ IF vid = None
       THEN Goto(t, IF t \in users THEN "leave" ELSE "post") /\ UNCHANGED <<count, overtaken>>
       ELSE /\ count' = [count EXCEPT ![vid] = IF @ = 0 THEN 0 ELSE @ - 1]
            /\ overtaken' = (overtaken \/ Decoding)
            /\ Goto(t, "clear")
    /\ undefined' = {k \in {"race"} : Starting \/ \E r \in Threads \ {t} : pc[r] = "clear"}
         \cup {k \in {"freed_picture"} : vid # None /\ count[vid] = 0}
    /\ UNCHANGED <<phase, users, slot, pic, made, vid, yuy2, wnd, content, posted,
                   dialog, server, net, faults, lossy, impatient, doubled>>

\* ... _vid = 0.
ClearVid(t) ==
    /\ pc[t] = "clear"
    /\ vid' = None
    /\ Goto(t, IF t \in users THEN "leave" ELSE "post")
    /\ UNCHANGED <<phase, users, slot, pic, count, made, yuy2, wnd, content, posted,
                   dialog, server, net, faults, history>>

\* 'H264': _vid->GetBits() with no test, or the format is refused; ...
OnH264(t) ==
    /\ pc[t] = "H264"
    /\ pic' = [pic EXCEPT ![t] = IF yuy2 THEN vid ELSE None]
    /\ Goto(t, IF yuy2 THEN "decode" ELSE "fail")
    /\ Undefined("no_picture", yuy2 /\ vid = None)
    /\ overtaken' = (overtaken \/ pc[UI] = "set" \/ \E r \in Recv : Stopping(r))
    /\ UNCHANGED <<phase, users, slot, pictures, content, posted, dialog, server, net,
                   faults, lossy, impatient, doubled>>

\* ... OnFrame decodes into the bits of the picture (e_update only repaints).
OnFrame(t) ==
    /\ pc[t] = "decode"
    /\ Undefined("freed_picture", count[pic[t]] = 0)
    /\ pic' = [pic EXCEPT ![t] = None]
    /\ Goto(t, "leave")
    /\ UNCHANGED <<phase, users, slot, pictures, content, posted, dialog, server, net,
                   faults, overtaken, lossy, impatient, doubled>>

\* The slot is free (m_bits = 0), m_rp.Release; the last one out of an endpoint
\* that runs down calls OnDisconnect; an error removes the connection.
Leave(t) ==
    /\ pc[t] \in {"leave", "fail"}
    /\ users' = users \ {t}
    /\ slot' = [slot EXCEPT ![t] = 0]
    /\ IF phase = "closing" /\ users = {t}
       THEN phase' = "off" /\ Goto(t, "release")
       ELSE Goto(t, IF pc[t] = "fail" THEN "remove" ELSE "idle") /\ UNCHANGED phase
    /\ UNCHANGED <<pic, pictures, content, posted, dialog, server, net, faults, history>>

\* RemoveConnection, notify_disconnect: OnDisconnect here, or by the last one out.
Return(t) == Goto(t, IF t = UI THEN "cleared" ELSE "idle")
RemoveConnection(t) ==
    /\ pc[t] = "remove"
    /\ CASE phase = "live" /\ users = {} -> phase' = "off" /\ Goto(t, "release")
         [] phase = "live" /\ users # {} -> phase' = "closing" /\ Return(t)
         [] OTHER -> Return(t) /\ UNCHANGED phase
    /\ toClient' = <<>>     \* what comes now is dropped
    /\ UNCHANGED <<users, slot, pic, pictures, content, posted, dialog, server, toServer, faults,
                   history>>

\* OnDisconnect ends with e_disconnected.
PostDisconnected(t) ==
    /\ pc[t] = "post"
    /\ posted' = Append(posted, Posted("e_disconnected", 0))
    /\ Return(t)
    /\ UNCHANGED <<phase, users, slot, pic, pictures, content, dialog, server, net,
                   faults, history>>

Step(t) ==
    \/ OnFormats(t) \/ OnStop(t) \/ ReleaseVid(t) \/ ClearVid(t) \/ OnH264(t) \/ OnFrame(t)
    \/ Leave(t) \/ RemoveConnection(t) \/ PostDisconnected(t)

-----------------------------------------------------------------------------
\* The dialog sends: it is in flight, or the send fails.
Sent(k) ==
    /\ toServer' = IF camera = "gone" THEN <<>> ELSE Append(toServer, k)
    /\ UNCHANGED <<toClient, faults, lossy>>
NotSent == faults < MaxFaults /\ faults' = faults + 1 /\ lossy' = TRUE /\ UNCHANGED net

\* FreeFormats.
FreeFormats == items' = "none" /\ buf' = None

GetFormats ==
    /\ asked < MaxLists /\ asked' = asked + 1
    /\ Sent("init") \/ NotSent

Idle == pc[UI] = "idle"

\* OnOk, for a format chosen in a list that is there: a new picture.
OnOk(y) ==
    /\ Idle /\ "IDOK" \in enabled
    /\ ~bVideo /\ items # "none" /\ made < MaxPics
    /\ Undefined("freed_list", items = "freed")
    /\ made' = made + 1 /\ count' = [count EXCEPT ![made + 1] = 1]
    /\ pic' = [pic EXCEPT ![UI] = made + 1]
    /\ yuy2' = y
    /\ Goto(UI, "start")
    /\ UNCHANGED <<phase, users, slot, vid, wnd, content, posted, dialog, server, net,
                   faults, overtaken, lossy, impatient, doubled>>

\* CClient::Start: a picture still there is released ...
StartRelease ==
    /\ pc[UI] = "start"
    /\ count' = [p \in Pics |-> IF p = vid /\ count[p] > 0 THEN count[p] - 1 ELSE count[p]]
    /\ undefined' = {k \in {"race"} : \E t \in Threads : Stopping(t)}
         \cup {k \in {"freed_picture"} : vid # None /\ count[vid] = 0}
    /\ overtaken' = (overtaken \/ (vid # None /\ Decoding))
    /\ Goto(UI, "set")
    /\ UNCHANGED <<phase, users, slot, pic, made, vid, yuy2, wnd, content, posted,
                   dialog, server, net, faults, lossy, impatient, doubled>>

\* ... the window gives back what it shows and keeps p (Set) ...
Shown(p, c) ==
    [q \in Pics |-> c[q] + (IF q = p THEN 1 ELSE 0) - (IF q = wnd /\ c[q] > 0 THEN 1 ELSE 0)]

Set(p) ==
    /\ wnd' = p /\ count' = Shown(p, count)
    /\ Undefined("freed_picture", wnd # None /\ count[wnd] = 0)

\* ... after the new one is set and counted; and 'strt' is sent (only the store into
\* _vid is seen by another thread before that).
StartSet_NotCounted ==  \* mutant: _vid does not count what it keeps
    /\ pc[UI] = "set"
    /\ vid' = pic[UI]
    /\ Set(pic[UI])
    /\ \/ Sent("strt") /\ Goto(UI, "started")
       \/ NotSent /\ Goto(UI, "undo")
    /\ UNCHANGED <<phase, users, slot, pic, made, yuy2, content, posted, dialog, server, overtaken,
                   impatient, doubled>>

StartSet ==
    /\ pc[UI] = "set"
    /\ vid' = pic[UI]
    /\ wnd' = pic[UI] /\ count' = Shown(pic[UI], [count EXCEPT ![pic[UI]] = @ + 1])
    /\ Undefined("freed_picture", wnd # None /\ count[wnd] = 0)
    /\ \/ Sent("strt") /\ Goto(UI, "started")
       \/ NotSent /\ Goto(UI, "undo")
    /\ UNCHANGED <<phase, users, slot, pic, made, yuy2, content, posted, dialog, server, overtaken,
                   impatient, doubled>>

\* If it was not sent: the window gives the picture back, _vid = 0, Release.
StartUndo ==
    /\ pc[UI] = "undo"
    /\ wnd' = None /\ vid' = None
    /\ count' = [count EXCEPT ![pic[UI]] = IF @ > 1 THEN @ - 2 ELSE 0]
    /\ Undefined("freed_picture", count[pic[UI]] < 2)
    /\ overtaken' = (overtaken \/ Decoding)
    /\ Goto(UI, "drop")
    /\ UNCHANGED <<phase, users, slot, pic, made, yuy2, content, posted, dialog, server, net,
                   faults, lossy, impatient, doubled>>

\* The rest of OnOk: the buttons and flags if it started; its own reference.
OnOkEnds ==
    /\ pc[UI] \in {"started", "drop"}
    /\ IF pc[UI] = "started"
       THEN bVideo' = TRUE /\ bits' = TRUE /\ enabled' = {"IDABORT"}
       ELSE UNCHANGED <<bVideo, bits, enabled>>
    /\ Release(pic[UI]) /\ pic' = [pic EXCEPT ![UI] = None]
    /\ Goto(UI, "idle")
    /\ UNCHANGED <<phase, users, slot, made, vid, yuy2, wnd, content, posted, connected,
                   buf, items, asked, server, net, faults, overtaken, lossy, impatient, doubled>>

OnOkStep ==
    StartRelease \/ StartSet \/ StartUndo \/ OnOkEnds

\* IDABORT.
OnAbort ==
    /\ Idle /\ "IDABORT" \in enabled /\ bVideo
    /\ \/ Sent("stop") /\ enabled' = enabled \ {"IDABORT"}
       \/ NotSent /\ UNCHANGED enabled
    /\ UNCHANGED <<phase, users, threads, pictures, content, posted, connected, bVideo, bits, buf,
                   items, asked, server, undefined, overtaken, impatient, doubled>>

\* ID_HIDE: the window gives the picture back.
OnHide ==
    /\ Idle /\ "ID_HIDE" \in enabled /\ bits
    /\ Set(None)
    /\ bits' = FALSE /\ enabled' = enabled \ {"ID_HIDE"}
    /\ UNCHANGED <<phase, users, threads, made, vid, yuy2, content, posted, connected, bVideo, buf,
                   items, asked, server, net, faults, overtaken, lossy, impatient, doubled>>

\* An answer to GetFormats is on its way, or the request for it.
Awaited ==
    \/ Contains(toServer, "init") \/ \E i \in DOMAIN toClient : toClient[i].kind = "fmts"
    \/ \E t \in Recv : pc[t] = "fmts"
    \/ \E i \in DOMAIN posted : posted[i].kind = "e_list"

\* ID_REFRESH.
OnRefresh ==
    /\ Idle /\ "ID_REFRESH" \in enabled /\ connected
    /\ FreeFormats
    /\ enabled' = enabled \ {"IDOK"}
    /\ GetFormats
    /\ impatient' = (impatient \/ Awaited)
    /\ UNCHANGED <<phase, users, threads, pictures, content, posted, connected, bVideo, bits,
                   server, undefined, overtaken, doubled>>

\* ID_DISCONNECT: a goodbye, RemoveConnection, then _bConnected is cleared.
OnDisconnectButton ==
    /\ Idle /\ connected
    /\ Goto(UI, "remove")
    /\ UNCHANGED <<phase, users, slot, pic, pictures, content, posted, dialog, server, net,
                   faults, history>>

Cleared ==
    /\ pc[UI] = "cleared"
    /\ connected' = FALSE
    /\ Goto(UI, "idle")
    /\ UNCHANGED <<phase, users, slot, pic, pictures, content, posted, bVideo, enabled,
                   bits, buf, items, asked, server, net, faults, history>>

\* e_connected: GetFormats.
OnConnected ==
    /\ enabled' = enabled \cup {"ID_REFRESH"}
    /\ GetFormats
    /\ UNCHANGED <<connected, bVideo, bits, buf, items>>

\* e_list, AddCameras: what is in the slot now is copied and checked again; the
\* last list is freed, and the combo box filled, if it was empty.
AddCameras_NotChecked(l) == \* mutant: what is copied is not checked again
    IF items # "none" /\ buf = l
    THEN UNCHANGED <<buf, items, enabled>>
    ELSE /\ buf' = l
         /\ items' = IF items = "none" THEN "kept" ELSE "freed"
         /\ enabled' = enabled \cup {b \in {"IDOK"} : items = "none"}

AddCameras(l) ==
    IF l = None
    THEN UNCHANGED <<buf, items, enabled>>
    ELSE /\ buf' = l
         /\ items' = IF items = "none" THEN "kept" ELSE "freed"
         /\ enabled' = enabled \cup {b \in {"IDOK"} : items = "none"}

\* e_set.
OnSet_StillVideo ==     \* mutant: the flag stays
    /\ enabled' = enabled \cup {"IDOK", "ID_REFRESH", "ID_HIDE"}
    /\ UNCHANGED <<connected, bVideo, bits, buf, items, asked>>

OnSet ==
    /\ bVideo' = FALSE
    /\ enabled' = enabled \cup {"IDOK", "ID_REFRESH", "ID_HIDE"}
    /\ UNCHANGED <<connected, bits, buf, items, asked>>

\* e_disconnected.
OnDisconnected ==
    /\ connected' = FALSE /\ bVideo' = FALSE
    /\ enabled' = {b \in enabled \cup {"ID_HIDE"} : b = "ID_HIDE" /\ (bVideo \/ b \in enabled)}
    /\ FreeFormats
    /\ UNCHANGED <<bits, asked>>

WindowMessage ==
    /\ Idle /\ posted # <<>>
    /\ posted' = Tail(posted)
    /\ LET m == Head(posted)
       IN  \/ m.kind = "e_connected" /\ OnConnected
           \/ m.kind = "e_list" /\ AddCameras(content[m.slot])
                /\ UNCHANGED <<connected, bVideo, bits, asked, net, faults, lossy>>
           \/ m.kind = "e_set" /\ OnSet /\ UNCHANGED <<net, faults, lossy>>
           \/ m.kind = "e_disconnected" /\ OnDisconnected /\ UNCHANGED <<net, faults, lossy>>
    /\ UNCHANGED <<phase, users, threads, pictures, content, server, undefined, overtaken, impatient,
                   doubled>>

-----------------------------------------------------------------------------
\* The server's OnUserData: an error ends its session, and it answers no more.
Reply(k, n) ==
    toClient' = IF phase = "live" THEN Append(toClient, Packet(k, n)) ELSE toClient

\* 'strt' without a list, or of what is not in it, changes nothing.
NoPin == camera \in {"off", "stopped"}

ServerRecv ==
    /\ camera # "gone"
    /\ toServer # <<>> /\ toServer' = Tail(toServer)
    /\ LET k == Head(toServer)
       IN  \/ /\ k = "init" /\ lists < MaxLists
              /\ lists' = lists + 1 /\ Reply("fmts", lists + 1) /\ UNCHANGED camera
           \/ /\ k = "init"
              /\ camera' = "gone" /\ UNCHANGED <<lists, toClient>>
           \/ /\ k = "strt"
              /\ camera' \in {camera} \cup {c \in {"on", "gone"} : NoPin}
              /\ UNCHANGED <<lists, toClient>>
           \/ /\ k = "stop" /\ ~NoPin
              /\ camera' = "stopped" /\ Reply("stop", None) /\ UNCHANGED lists
           \/ /\ k = "stop" /\ NoPin
              /\ camera' = "gone" /\ UNCHANGED <<lists, toClient>>
    /\ UNCHANGED <<phase, users, threads, pictures, content, posted, dialog, frames, faults,
                   history>>

\* The encoder's frames; its thread may be about to send one when H264::Stop
\* sends 'stop'.
SendFrame ==
    /\ camera \in {"on", "failed", "stopped"} /\ frames < MaxFrames
    /\ frames' = frames + 1
    /\ Reply("H264", None) /\ UNCHANGED toServer
    /\ UNCHANGED <<phase, users, threads, pictures, content, posted, dialog, camera, lists, faults,
                   history>>

\* A read of the camera fails: H264::Stop; and so may the other reads.
CameraFails ==
    /\ \/ camera = "on" /\ UNCHANGED frames
       \/ camera = "failed" /\ frames < MaxFrames /\ frames' = frames + 1
    /\ camera' = "failed"
    /\ Reply("stop", None) /\ UNCHANGED toServer
    /\ UNCHANGED <<phase, users, threads, pictures, content, posted, dialog, lists, faults,
                   history>>

\* The server gives the session up; its goodbye.
Goodbye ==
    /\ camera # "gone"
    /\ camera' = "gone"
    /\ Reply("bye", None) /\ UNCHANGED toServer
    /\ UNCHANGED <<phase, users, threads, pictures, content, posted, dialog, lists, frames, faults,
                   history>>

\* The network.
Lose ==
    /\ faults < MaxFaults /\ faults' = faults + 1 /\ lossy' = TRUE
    /\ \/ toClient # <<>> /\ toClient' = Tail(toClient) /\ UNCHANGED toServer
       \/ toServer # <<>> /\ toServer' = Tail(toServer) /\ UNCHANGED toClient
    /\ UNCHANGED <<phase, users, threads, pictures, content, posted, dialog, server, undefined, overtaken,
                   impatient, doubled>>

Duplicate ==
    /\ faults < MaxFaults /\ faults' = faults + 1 /\ doubled' = TRUE
    /\ \/ toClient # <<>> /\ toClient' = Append(toClient, Head(toClient)) /\ UNCHANGED toServer
       \/ toServer # <<>> /\ toServer' = Append(toServer, Head(toServer)) /\ UNCHANGED toClient
    /\ UNCHANGED <<phase, users, threads, pictures, content, posted, dialog, server, undefined, overtaken,
                   impatient, lossy>>

UIStep == OnOkStep \/ Cleared \/ WindowMessage
Click == (\E y \in Formats : OnOk(y)) \/ OnAbort \/ OnHide \/ OnRefresh \/ OnDisconnectButton

Next ==
    /\ undefined = {}
    /\ \/ \E t \in Recv : OnRecv(t)
       \/ \E t \in Threads : Step(t)
       \/ UIStep \/ Click \/ ServerRecv \/ SendFrame \/ CameraFails \/ Goodbye \/ Lose \/ Duplicate

Spec == Init /\ [][Next]_vars

-----------------------------------------------------------------------------
\* The count of a picture is the number of those who keep it; none is freed twice
\* or while it is kept, whatever the order of the dialog, the window and the
\* receives; and none while a frame is decoded into it, unless 'stop' or the
\* next Start overtook that frame.
Holders(p) == Cardinality({h \in {"_vid", "window", "OnOk"} :
    p = CASE h = "_vid" -> vid [] h = "window" -> wnd [] h = "OnOk" -> pic[UI]})
PictureIsCounted ==
    /\ "freed_picture" \in undefined => overtaken \/ "race" \in undefined
    /\ undefined = {} /\ pc[UI] # "set" /\ (\A t \in Threads : pc[t] # "clear")
         => \A p \in Pics : count[p] = Holders(p)

\* While the dialog says there is video the frames go into the picture the
\* window shows, unless the end of it is on its way to the dialog.
Ending ==
    \/ \E t \in Threads : Stopping(t) \/ pc[t] = "post"
    \/ \E i \in DOMAIN posted : posted[i].kind \in {"e_set", "e_disconnected"}
ShownIsDecoded ==
    bVideo /\ Idle /\ ~Ending /\ undefined = {} => vid # None /\ vid = wnd

\* The combo boxes point into the list that is kept, and that list is one the
\* server sent, whatever has been put into the message's slot meanwhile; unless
\* the user asked again before the answer came, or a packet came twice.
ListIsCurrent ==
    /\ ~impatient /\ ~doubled => items # "freed"
    /\ items = "kept" => buf # None

\* A picture the user stopped is over for the dialog in the end; unless a packet
\* was lost, the server has dropped the session, or the program is undefined.
Stopped == bVideo /\ "IDABORT" \notin enabled
StopDone == ~bVideo \/ lossy \/ camera = "gone" \/ undefined # {}
=============================================================================
