----------------------------- MODULE LocalViewer -----------------------------
(***************************************************************************)
(* The program camera, which shows a camera of its own computer.  The      *)
(* dialog WCDlg opens a pin (module KsRead) for a new picture (VBmp), and  *)
(* the window YCameraWnd shows the picture.  The pin's reads complete on   *)
(* pool threads, fill the picture and post e_update to the window; the     *)
(* destructor of the pin posts e_set, which takes the picture off the      *)
(* window.  After the dialog the process lives until its last IO object    *)
(* is gone.                                                                *)
(*                                                                         *)
(* Every pin has one picture, which has its number.  Owners is the one     *)
(* thread of the dialog and the window.  A behaviour ends with the use of  *)
(* a picture that is not there, or of one of another pin.                  *)
(***************************************************************************)
EXTENDS KsRead

CONSTANT MaxImages      \* bound on the frames the camera delivers

VARIABLES
    dialog,             \* "up", "closed", "ended" (BeginRundown was called), "exited"
    yuy2,               \* biCompression is '2YUY'
    wnd,                \* YCameraWnd::_vid
    count,              \* per picture: VBmp::_dwRef
    msgs,               \* posted to the window
    images,             \* frames so far
    undefined,          \* what was used that was not there
    hasty               \* history: a pin was made before the last one's e_set was handled

screen == <<wnd, count, msgs, undefined>>
phases == <<dialog, yuy2, images, hasty>>
vars   == <<pinVars, screen, phases>>

UI == CHOOSE t \in Owners : TRUE
NoPicture == NoPin

TypeOK ==
    /\ PinTypeOK
    /\ wnd \in {NoPicture} \cup 1 .. made /\ count \in [Pins -> Nat]
    /\ \A i \in DOMAIN msgs : msgs[i] \in [kind : {"e_set", "e_update"}, pic : Pins]
    /\ dialog \in {"up", "closed", "ended", "exited"} /\ {yuy2, hasty} \subseteq BOOLEAN
    /\ images \in 0 .. MaxImages /\ undefined \subseteq {"no_picture", "another_picture"}

Init ==
    /\ PinInit
    /\ wnd = NoPicture /\ count = [p \in Pins |-> 0] /\ msgs = <<>> /\ undefined = {}
    /\ dialog = "up" /\ yuy2 \in BOOLEAN /\ images = 0 /\ hasty = FALSE

OfPic(op, p) == [op |-> op, pic |-> p]
Pic(t) == Head(todo[t]).pic
UIIdle == todo[UI] = <<>>
Others == UNCHANGED <<pin, made, handle, users, refs, running, free, posted, dead, lost, dry>>

-----------------------------------------------------------------------------
\* The window.  Set: the picture of before is let go, the new one is kept.
Shown_NotKept(p) ==     \* mutant: AddRef forgotten
    /\ wnd' = p
    /\ count' = [q \in Pins |-> count[q] - Cardinality({q} \cap {wnd})]
Shown(p) ==
    /\ wnd' = p
    /\ count' = [q \in Pins |->
                    count[q] - Cardinality({q} \cap {wnd}) + Cardinality({q} \cap {p})]

\* The constructor of KsRead sends e_set.
Set ==
    /\ At(UI, "set")
    /\ Shown(Pic(UI)) /\ Do(UI, <<>>)
    /\ Others /\ UNCHANGED <<msgs, undefined, phases>>

\* ConvertImage decodes, for other formats than '2YUY', out of the buffer of the
\* picture that is shown, what the sender of e_update has put into its own.
Update(p) ==
    undefined' = undefined \cup
        (IF yuy2 \/ wnd = p THEN {}
         ELSE {IF wnd = NoPicture THEN "no_picture" ELSE "another_picture"})

\* e_set and e_update as they were posted, also while a message box is up.
WindowMessage ==
    /\ dialog = "up" /\ (UIIdle \/ At(UI, "box")) /\ msgs # <<>>
    /\ msgs' = Tail(msgs)
    /\ \/ Head(msgs).kind = "e_set" /\ Shown(NoPicture) /\ UNCHANGED undefined
       \/ Head(msgs).kind = "e_update" /\ Update(Head(msgs).pic) /\ UNCHANGED <<wnd, count>>
    /\ UNCHANGED <<pinVars, phases>>

\* A window that is gone gets no messages.
Posted(kind, p) ==
    msgs' = IF dialog = "up" THEN Append(msgs, [kind |-> kind, pic |-> p]) ELSE msgs

-----------------------------------------------------------------------------
\* OnOk: a picture and a pin for it.  The constructor of the pin takes a reference to
\* the picture, then OnOk gives up its own.
Awaited == \/ 1 .. made \ lost # dead
           \/ \E t \in Threads : At(t, "vidrel") \/ At(t, "post")
           \/ \E i \in DOMAIN msgs : msgs[i].kind = "e_set"

OnOk ==
    /\ dialog = "up" /\ UIIdle /\ pin = NoPin /\ made < MaxPins
    /\ made' = made + 1
    /\ refs' = [refs EXCEPT ![made + 1] = 1]
    /\ count' = [count EXCEPT ![made + 1] = 2]
    /\ todo' = [todo EXCEPT ![UI] =
          <<OfPic("set", made + 1), OfPic("vidrel", made + 1), On("create", made + 1)>>]
    /\ hasty' = (hasty \/ Awaited)
    /\ UNCHANGED <<pin, handle, users, running, free, posted, dead, lost, dry, wnd, msgs,
                   undefined, dialog, yuy2, images>>

VidRelease(t) ==
    /\ At(t, "vidrel")
    /\ count' = [count EXCEPT ![Pic(t)] = @ - 1]
    /\ Do(t, <<>>)
    /\ Others /\ UNCHANGED <<wnd, msgs, undefined, phases>>

\* A pin that Create cannot open is forgotten; one that does not run is released.
Opening ==
    /\ \/ Create(UI, <<Call("box")>>)
       \/ Run(UI, <<On("release", Arg(UI)), Call("box")>>)
    /\ UNCHANGED <<screen, phases>>

\* ShowErrorBox, until the user closes it.
Box ==
    /\ At(UI, "box") /\ msgs = <<>>
    /\ Do(UI, <<>>)
    /\ Others /\ UNCHANGED <<screen, phases>>

\* WCDlg::Stop, for IDABORT, and for WM_DESTROY, after which the windows are gone.
Stop_NotReleased ==     \* mutant: Release forgotten
    IF pin = NoPin THEN <<>> ELSE StopCalls(pin) \o <<Call("clear")>>
Stop ==
    IF pin = NoPin THEN <<>> ELSE StopCalls(pin) \o <<On("release", pin), Call("clear")>>

StopAnd(calls) == todo' = [todo EXCEPT ![UI] = Stop \o calls]

Leave ==
    /\ dialog = "up" /\ UIIdle
    /\ \/ pin # NoPin /\ StopAnd(<<>>)
       \/ StopAnd(<<Call("destroy"), Call("rundown")>>)
    /\ Others /\ UNCHANGED <<screen, phases>>

Destroy ==
    /\ At(UI, "destroy")
    /\ dialog' = "closed" /\ msgs' = <<>> /\ Shown(NoPicture)
    /\ Do(UI, <<>>)
    /\ Others /\ UNCHANGED <<undefined, yuy2, images, hasty>>

\* g_IoRundown: from here no request is made, and the last object to go ends the process.
BeginRundown ==
    /\ At(UI, "rundown")
    /\ dialog' = "ended"
    /\ Do(UI, <<>>)
    /\ Others /\ UNCHANGED <<screen, yuy2, images, hasty>>

RundownCompleted ==
    /\ dialog = "ended" /\ dead = 1 .. made /\ \A t \in Threads : todo[t] = <<>>
    /\ dialog' = "exited"
    /\ UNCHANGED <<pinVars, screen, yuy2, images, hasty>>

-----------------------------------------------------------------------------
\* OnReadComplete fills the pin's picture, if the frame has its size.
Process(t) ==
    /\ At(t, "process")
    /\ Posted("e_update", Arg(t)) \/ UNCHANGED msgs
    /\ Do(t, <<>>)
    /\ Others /\ UNCHANGED <<wnd, count, undefined, phases>>

\* A read that fails closes the pin; the dialog does not hear of it.
Fail(p) == <<On("close", p)>>

\* The destructor lets the picture go and posts e_set.
Destructor(p) == <<OfPic("vidrel", p), OfPic("post", p)>>

Post(t) ==
    /\ At(t, "post")
    /\ Posted("e_set", Pic(t))
    /\ Do(t, <<>>)
    /\ Others /\ UNCHANGED <<wnd, count, undefined, phases>>

PinStep(t) ==
    /\ \/ OwnStep(t) /\ (dialog = "ended" => refs' = refs)
       \/ todo[t] # <<>> /\ "pin" \in DOMAIN Head(todo[t])
            /\ \/ NoRequest(t, Fail(Arg(t))) \/ ReadFailed(t, Fail(Arg(t)))
               \/ Release(t, Destructor(Arg(t)))
    /\ UNCHANGED <<screen, phases>>

\* The camera delivers some frames, and can fail a read at any time.
Delivered(t) ==
    /\ ReadDone(t)
    /\ images' = images + (IF todo'[t][1].op = "fail" THEN 0 ELSE 1)
    /\ images' <= MaxImages
    /\ UNCHANGED <<screen, dialog, yuy2, hasty>>

Step(t) == PinStep(t) \/ VidRelease(t) \/ Process(t) \/ Post(t)
UIStep == Set \/ WindowMessage \/ Opening \/ Box \/ Destroy \/ BeginRundown

Next ==
    /\ undefined = {}
    /\ \/ OnOk \/ Leave \/ UIStep \/ RundownCompleted
       \/ \E t \in Threads : Step(t)
       \/ \E t \in Pool : Delivered(t)

Spec == Init /\ [][Next]_vars

\* Threads go on, the window gets its messages, the driver completes the reads it has,
\* and the last one out ends the process.  The user need not do anything.
GoesOn(t) ==
    /\ undefined = {}
    /\ Step(t) \/ (t \in Pool /\ Delivered(t)) \/ (t = UI /\ (UIStep \/ RundownCompleted))
FairSpec == Spec /\ \A t \in Threads : WF_vars(GoesOn(t))

-----------------------------------------------------------------------------
\* The count of a picture is that of its pin, of the window, and of OnOk or the pin's
\* destructor, which will still drop it: a picture is freed once, and not while a
\* frame is decoded into it or while it is painted.
Dropping(p) == UNION {{t} \X {i \in DOMAIN todo[t] : todo[t][i] = OfPic("vidrel", p)} :
                          t \in Threads}
PictureIsCounted ==
    \A p \in 1 .. made :
        count[p] = Cardinality(Dropping(p)) + Cardinality({wnd} \cap {p})
                                            + Cardinality({p} \ dead)

\* While the dialog has a pin the window shows this pin's picture, and never is a frame
\* decoded out of a picture that is not there or not its own; unless the user starts
\* again before the last pin is gone: its e_set then takes the new picture away.
PictureIsShown ==
    ~hasty => undefined = {} /\ (pin # NoPin /\ UIIdle => wnd = pin)

\* When the process ends its cameras are off.
ExitsClean == dialog = "exited" => \A p \in 1 .. made : handle[p] \in {"none", "closed"}

\* And it does end, unless a pin that Create could not open holds it.
Exited == dialog = "exited" \/ lost # {} \/ undefined # {}
ProcessEnds == (dialog = "ended") ~> Exited
=============================================================================
