--------------------------- MODULE MCClientVideo ---------------------------
(***************************************************************************)
(* Three instances of ClientVideo for TLC; a behaviour is one instance's.  *)
(*   pictures  (the configuration's constants) two pictures, a frame, two  *)
(*             receives                                                    *)
(*   lists     two requests for a list, one picture, one receive           *)
(*   faults    a packet lost or duplicated or a send that fails, one       *)
(*             picture of any format, a frame, one receive                 *)
(***************************************************************************)
EXTENDS ClientVideo

VARIABLE mode

TheRecv == CHOOSE t \in Recv : TRUE
OneRecv == {TheRecv}

Lists == INSTANCE ClientVideo WITH
    MaxPics <- 1, MaxLists <- 2, MaxFaults <- 0,
    Recv <- OneRecv

Faults == INSTANCE ClientVideo WITH
    MaxPics <- 1, MaxLists <- 1, MaxFrames <- 1, MaxFaults <- 1,
    Formats <- BOOLEAN, Recv <- OneRecv

MCInit ==
    \/ mode = "pictures" /\ Init
    \/ mode = "lists" /\ Lists!Init
    \/ mode = "faults" /\ Faults!Init

MCNext ==
    /\ UNCHANGED mode
    /\ \/ mode = "pictures" /\ Next
       \/ mode = "lists" /\ Lists!Next
       \/ mode = "faults" /\ Faults!Next

\* In the instance with faults threads go on, and packets that are not lost
\* arrive; the user need not click.
MCSpec ==
    /\ MCInit /\ [][MCNext]_<<vars, mode>>
    /\ WF_vars(mode = "faults" /\ undefined = {}
                 /\ (Faults!OnRecv(TheRecv) \/ Faults!Step(TheRecv)))
    /\ WF_vars(mode = "faults" /\ undefined = {}
                 /\ (Faults!Step(UI) \/ Faults!UIStep \/ Faults!ServerRecv))

\* In every instance the pictures are counted, and the window shows what is decoded.
PictureInUse ==
    /\ mode = "pictures" => PictureIsCounted /\ ShownIsDecoded
    /\ mode = "lists" => Lists!PictureIsCounted /\ Lists!ShownIsDecoded
    /\ mode = "faults" => Faults!PictureIsCounted /\ Faults!ShownIsDecoded

\* The combo boxes point into the list that is kept.
ListsCurrent ==
    /\ mode = "pictures" => ListIsCurrent
    /\ mode = "lists" => Lists!ListIsCurrent
    /\ mode = "faults" => Faults!ListIsCurrent

\* A picture the user stopped is over for the dialog in the end (IDABORT, 'stop',
\* e_set); unless a packet is lost, the server has dropped the session, or the
\* program is undefined.
StopIsAnswered == (mode = "faults" /\ Faults!Stopped) ~> Faults!StopDone
=============================================================================
