---------------------------- MODULE MCReassembly ----------------------------
(***************************************************************************)
(* Four instances of Reassembly for TLC; a behaviour is one instance's.    *)
(* FragSize is 2 in all of them: lengths 0, 1 and 2 are one fragment, 3    *)
(* and 4 are two.  The first two are two messages of two fragments on a    *)
(* network that reorders and duplicates one packet, with two receives at   *)
(* once; the fragments come in any order although one thread sends them,   *)
(* and a packet that is lost is one that stays in flight.                  *)
(*   race  (the configuration's constants) one buffer, which the other     *)
(*         message gets when it is free or was not written for too long    *)
(*   each  a buffer for each message, so that the clock does not matter    *)
(* The other two are the directions of a session on a channel that keeps   *)
(* the order, where one receive works at a time:                           *)
(*   down  what a server sends to a client: long and short messages of two *)
(*         threads, fragment by fragment among each other, two packets     *)
(*         lost or not sent; the number of the first message comes back on *)
(*         the last, which is as long                                      *)
(*   up    what a client sends to a server: one fragment each, also empty, *)
(*         by two threads, one message too long, one packet lost; the      *)
(*         number comes back after four, on the same and another length    *)
(***************************************************************************)
EXTENDS Reassembly

CONSTANTS t1, s1, s2
VARIABLE mode

TwoLong == <<3, 4>>

Each == INSTANCE Reassembly WITH NumSlots <- 2, MaxTime <- 0, InitTicks <- {0}

Down == INSTANCE Reassembly WITH
    MsgLens <- <<4, 3, 1, 4>>, MaxFrags <- 3, Header <- 1, NumSlots <- 3, MMod <- 3,
    Strict <- FALSE, Senders <- {s1, s2}, Threads <- {t1}, Reorder <- FALSE,
    MaxLoss <- 2, MaxDup <- 0, Stale <- 0, MaxTime <- 1, InitTicks <- {0}

Up == INSTANCE Reassembly WITH
    MsgLens <- <<0, 2, 5, 1, 0, 2, 2>>, Header <- 0, NumSlots <- 3, MMod <- 4,
    Strict <- TRUE, Senders <- {s1, s2}, Threads <- {t1}, Reorder <- FALSE,
    MaxLoss <- 1, MaxDup <- 0, Stale <- 0, MaxTime <- 1, InitTicks <- {0}

MCInit ==
    \/ mode = "race" /\ Init
    \/ mode = "each" /\ Each!Init
    \/ mode = "down" /\ Down!Init
    \/ mode = "up" /\ Up!Init

MCNext ==
    /\ UNCHANGED mode
    /\ \/ mode = "race" /\ Next
       \/ mode = "each" /\ Each!Next
       \/ mode = "down" /\ Down!Next
       \/ mode = "up" /\ Up!Next

\* The ordered channels go on as long as a thread is in SendUserData's loop, a
\* packet in flight that a pending receive gets (OnRecv posts the receive again)
\* or a receive in OnRecv.  All of these end, so that no order between them is
\* needed.
Working ==
    \/ mode = "down" /\ (\/ Down!SendMsg(s1) \/ Down!SendMsg(s2)
                         \/ Down!OnRecv(t1) \/ Down!RecvStep(t1))
    \/ mode = "up" /\ (\/ Up!SendMsg(s1) \/ Up!SendMsg(s2)
                       \/ Up!OnRecv(t1) \/ Up!RecvStep(t1))

MCSpec == MCInit /\ [][MCNext]_<<vars, mode>> /\ WF_vars(Working)

\* OnUserData sees its own message's bytes and no others; and threads, losses
\* and duplicates make no delivery up.  Where the numbers come back it sees
\* messages with its own message's number, and only its own until it meets a
\* buffer that still has an earlier one.
MessageIntact ==
    /\ mode = "race" => BufferIntact /\ NoMoreThanArrived
    /\ mode = "each" => Each!BufferIntact /\ Each!NoMoreThanArrived
    /\ mode = "down" => Down!NumberIntact /\ Down!UnmixedIntact
    /\ mode = "up" => Up!NumberIntact /\ Up!UnmixedIntact

\* Both directions keep the connection, while a buffer is to spare and no
\* number is back on a buffer that still has it, with the same length.
OrderedChannelStaysOpen ==
    /\ mode = "down" => Down!ChannelStaysOpen
    /\ mode = "up" => Up!ChannelStaysOpen

\* What lost no packet is delivered in the end, beside messages that did and
\* among the fragments of other threads' messages.
WholeMessagesDelivered ==
    <>[](/\ mode = "down" => Down!WholeMessages
         /\ mode = "up" => Up!WholeMessages)
=============================================================================
