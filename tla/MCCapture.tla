----------------------------- MODULE MCCapture -----------------------------
(***************************************************************************)
(* The users of KsRead for TLC: Capture in two sizes, and LocalViewer; a   *)
(* behaviour is of one of them.  The constants of the configuration are    *)
(* those of two pins, one after the other, under two receives, each with   *)
(* one buffer, so that a read finds none; in the other size there is one   *)
(* pin whose completions run on two threads, with a buffer for each of     *)
(* them.  The viewer has two pins and one thread of each kind.             *)
(***************************************************************************)
EXTENDS Capture

CONSTANTS OneOwner, TwoPool, MoreFrames, FewerPackets,  \* of the instances
          ViewerFrames, ViewerImages

ASSUME InstancesAssumption ==
    /\ OneOwner # {} /\ IsFiniteSet(OneOwner) /\ IsFiniteSet(TwoPool)
    /\ OneOwner \cap (Pool \cup TwoPool) = {}
    /\ IsFiniteSet(MoreFrames) /\ IsFiniteSet(ViewerFrames)

VARIABLES size, dialog, yuy2, wnd, count, msgs, images, undefined, hasty

viewer == <<dialog, yuy2, wnd, count, msgs, images, undefined, hasty>>

OnePin == INSTANCE Capture WITH
              Owners <- OneOwner, Pool <- TwoPool, Frames <- MoreFrames,
              MaxPins <- 1, MaxPackets <- FewerPackets
Viewer == INSTANCE LocalViewer WITH
              Owners <- OneOwner, Frames <- ViewerFrames, MaxImages <- ViewerImages
ViewerPins == INSTANCE KsRead WITH Owners <- OneOwner, Frames <- ViewerFrames

NoViewer ==
    /\ dialog = "up" /\ yuy2 = FALSE /\ wnd = NoPin /\ count = <<>> /\ msgs = <<>>
    /\ images = 0 /\ undefined = {} /\ hasty = FALSE
NoSession ==
    /\ phase = "live" /\ inside = {} /\ packets = 0 /\ overlap = FALSE /\ stoping = <<>>

MCInit ==
    \/ size = "two_pins" /\ Init /\ NoViewer
    \/ size = "one_pin" /\ OnePin!Init /\ NoViewer
    \/ size = "viewer" /\ Viewer!Init /\ NoSession

MCNext ==
    /\ UNCHANGED size
    /\ \/ size = "two_pins" /\ Next /\ UNCHANGED viewer
       \/ size = "one_pin" /\ OnePin!Next /\ UNCHANGED viewer
       \/ size = "viewer" /\ Viewer!Next /\ UNCHANGED <<session, stoping>>

\* A thread goes on in all three alike.
MCGoesOn(t) ==
    /\ UNCHANGED size
    /\ \/ size = "two_pins" /\ t \in Threads /\ GoesOn(t) /\ UNCHANGED viewer
       \/ size = "one_pin" /\ t \in OnePin!Threads /\ OnePin!GoesOn(t) /\ UNCHANGED viewer
       \/ size = "viewer" /\ t \in Viewer!Threads /\ Viewer!GoesOn(t)
                          /\ UNCHANGED <<session, stoping>>

MCSpec ==
    /\ MCInit /\ [][MCNext]_<<vars, viewer, size>>
    /\ \A t \in Threads \cup TwoPool : WF_<<vars, viewer, size>>(MCGoesOn(t))

\* The invariants, of whichever it is.
Of(two, one, view) == CASE size = "two_pins" -> two
                        [] size = "one_pin" -> one
                        [] size = "viewer" -> view

\* A frame buffer is in one place, and a completed read is followed by another (the
\* size with two pins has no buffer to spare, so the others are about this).
FramesGoRound ==
    /\ Of(OnePlacePerFrame, OnePin!OnePlacePerFrame, ViewerPins!OnePlacePerFrame)
    /\ Of(EveryReadIsReplaced, OnePin!EveryReadIsReplaced, ViewerPins!EveryReadIsReplaced)

\* A pin outlives its use.
PinInUse  == Of(PinOutlivesUse, OnePin!PinOutlivesUse, ViewerPins!PinOutlivesUse)

\* The camera is off when its session, or the viewer's process, is over.
CameraOff == Of(CameraOffAfterSession, OnePin!CameraOffAfterSession, Viewer!ExitsClean)

\* The viewer's picture is freed once and when nobody uses it, and the window shows the
\* picture of the pin.
PictureInWindow == size = "viewer" => Viewer!PictureIsCounted /\ Viewer!PictureIsShown

\* The end of a session frees its pins, and the viewer's process ends.
PinsAreFreed ==
    (phase # "live" \/ dialog = "ended") ~> Of(PinsFreed, OnePin!PinsFreed, Viewer!Exited)
=============================================================================
