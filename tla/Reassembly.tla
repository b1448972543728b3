----------------------------- MODULE Reassembly -----------------------------
(***************************************************************************)
(* User messages over UDP: Endpoint::SendUserData cuts a message into at   *)
(* most 0x40 fragments, Endpoint::get and OnData put them together again   *)
(* in one of e_nb message buffers.  A buffer has a set of bits (the        *)
(* fragments that came), the 16-bit number M of its message, and the count *)
(* m_cbNeed of bytes still missing.  Only get runs under the lock: the     *)
(* bits and the count are interlocked, the bytes, the tick and the final   *)
(* m_bits = 0 are not, and four receives are outstanding, so every access  *)
(* to shared memory is one step here.  The sender has no lock at all: a    *)
(* call takes its number with an interlocked increment and then sends one  *)
(* fragment after the other, among those of the other threads' calls.      *)
(*                                                                         *)
(* Lengths are in units; FragSize units fit into one fragment.  A buffer   *)
(* is a function from fragment numbers to the number of the message whose  *)
(* bytes are there (the payload itself is not modelled; 0: nothing yet).   *)
(* Encryption is not modelled: a packet here is one that AES_Decode let    *)
(* through.                                                                *)
(***************************************************************************)
EXTENDS Integers, Sequences, FiniteSets, FiniteSetsExt, SequencesExt

CONSTANTS
    MsgLens,    \* the calls of SendUserData, in the order in which they take
                \* their numbers: a sequence of lengths
    Senders,    \* the threads that call SendUserData
    FragSize,   \* max_packet_size
    MaxFrags,   \* 0x40, the bits of m_bits
    Header,     \* what the length check adds: sizeof(E_PACKET), or 0 (client)
    NumSlots,   \* e_nb
    MMod,       \* 2^16: M is a USHORT
    Strict,     \* TRUE: the server's OnData, FALSE: the client's
    Threads,    \* receives outstanding (4 in the code)
    NoPacket,   \* a model value
    Reorder,    \* may the network reorder?
    MaxLoss, MaxDup,    \* bounds on packets lost and duplicated
    Stale,      \* 999 ms, in ticks of the clock
    MaxTime,    \* bound on the ticks of the clock
    TickMod,    \* 2^32: GetTickCount wraps
    InitTicks   \* the values an uninitialised m_tick may have

ASSUME MessagesAssumption == MsgLens \in Seq(Nat) /\ Header \in Nat
ASSUME SizesAssumption == {FragSize, MaxFrags, NumSlots, MMod, TickMod} \subseteq Nat \ {0}
ASSUME ThreadsAssumption == IsFiniteSet(Threads) /\ NoPacket \notin Threads
ASSUME SendersAssumption == IsFiniteSet(Senders)
ASSUME TicksAssumption == InitTicks \subseteq 0 .. TickMod - 1
ASSUME SwitchesAssumption == {Strict, Reorder} \subseteq BOOLEAN
ASSUME BoundsAssumption ==
    /\ {MaxLoss, MaxDup, MaxTime} \subseteq Nat
    /\ MaxTime < TickMod   \* the clock itself does not wrap in a run

Slots  == 1 .. NumSlots
FragNo == 0 .. MaxFrags - 1
NoM    == MMod              \* MAXULONG: no USHORT is equal to it
NoSlot == 0

\* do ... while: an empty message is one empty fragment.
Frags(len) == IF len = 0 THEN 1 ELSE (len + FragSize - 1) \div FragSize
TooLong(len) == MaxFrags * FragSize < Header + len
Msgs == {k \in 1 .. Len(MsgLens) : ~TooLong(MsgLens[k])}

\* The number of message k: how often the counter moved up to it.
Accepted(k) == {j \in 1 .. k : ~TooLong(MsgLens[j])}
Number(k) == Cardinality(Accepted(k)) % MMod

VARIABLES
    sent,       \* calls of SendUserData so far
    m_M,        \* the sender's message counter
    sending,    \* per sender: the packet it sends next, or NoPacket
    net,        \* the packets in flight, oldest first
    lost, dups, \* packets lost and duplicated
    now,        \* GetTickCount()
    open,       \* the endpoint is in the list: OnRecv still finds it
    m_lock,     \* the holder of m_lock, or NoPacket
    slot,       \* m_msgb: bits, M, cbMsg, cbNeed, tick, buf
    pc, pkt, tick, mine, \* per thread: place, packet, the locals tick and msgb
    arrived,    \* history: arrived[k][n]: copies of fragment n given to OnData
    delivered,  \* history: delivered[k]: calls of OnUserData for message k
    damaged,    \* history: the messages of which a packet was lost
    met,        \* history: met[k]: what the first packet of message k met in get:
                \* no buffer of its number, or one of an earlier message with it
    refused,    \* history: OnUserData answered an error
    stolen      \* history: get gave away a buffer that another thread was using

netVars  == <<sent, m_M, sending, net, lost, dups, damaged>>
history  == <<arrived, met, refused, stolen>>
recvVars == <<open, m_lock, slot, pc, pkt, tick, mine, delivered, history>>
vars     == <<netVars, now, recvVars>>

Packet == [M : 0 .. MMod - 1, N : Nat, len : Nat, cb : 0 .. FragSize, msg : Msgs]

TypeOK ==
    /\ sent \in 0 .. Len(MsgLens) /\ m_M \in 0 .. MMod - 1
    /\ sending \in [Senders -> Packet \cup {NoPacket}]
    /\ net \in Seq(Packet) /\ damaged \subseteq Msgs
    /\ lost \in 0 .. MaxLoss /\ dups \in 0 .. MaxDup /\ now \in 0 .. MaxTime
    /\ open \in BOOLEAN /\ stolen \in BOOLEAN /\ refused \in BOOLEAN
    /\ met \in [Msgs -> {"none", "new", "same", "other"}]
    /\ m_lock \in Threads \cup {NoPacket}
    /\ slot \in [Slots -> [bits : SUBSET FragNo, M : 0 .. NoM, cbMsg : Nat, cbNeed : Int,
                           tick : 0 .. TickMod - 1, buf : [FragNo -> Msgs \cup {0}]]]
    /\ pc \in [Threads -> {"idle", "lock", "get", "bit", "copy", "tick", "count",
                           "user", "fail"}]
    /\ pkt \in [Threads -> Packet \cup {NoPacket}]
    /\ tick \in [Threads -> 0 .. MaxTime] /\ mine \in [Threads -> Slots \cup {NoSlot}]
    /\ delivered \in [Msgs -> Nat] /\ arrived \in [Msgs -> [FragNo -> Nat]]

Init ==
    /\ sent = 0 /\ m_M = 0 /\ net = <<>> /\ lost = 0 /\ dups = 0 /\ damaged = {}
    /\ sending = [s \in Senders |-> NoPacket]
    /\ now = 0 /\ open = TRUE /\ m_lock = NoPacket /\ stolen = FALSE
    /\ refused = FALSE /\ met = [k \in Msgs |-> "none"]
    /\ slot \in [Slots -> {[bits |-> {}, M |-> NoM, cbMsg |-> 0, cbNeed |-> 0, tick |-> i,
                            buf |-> [n \in FragNo |-> 0]] : i \in InitTicks}]
    /\ pc = [t \in Threads |-> "idle"] /\ pkt = [t \in Threads |-> NoPacket]
    /\ tick = [t \in Threads |-> 0] /\ mine = [t \in Threads |-> NoSlot]
    /\ arrived = [k \in Msgs |-> [n \in FragNo |-> 0]]
    /\ delivered = [k \in Msgs |-> 0]

-----------------------------------------------------------------------------
\* The sender.

\* The length of fragment n of a message: __min(cb, max_packet_size).
FragLen(len, n) == Min({len - n * FragSize, FragSize})

\* SendMsg n of message k, whose number is M.
Fragment(k, M, n) ==
    [M |-> M, N |-> n, len |-> MsgLens[k], cb |-> FragLen(MsgLens[k], n), msg |-> k]

NextM(M) == (M + 1) % MMod

\* A message too long is refused before the counter moves.
SendUserData(s) ==
    /\ sending[s] = NoPacket /\ sent < Len(MsgLens)
    /\ sent' = sent + 1
    /\ IF TooLong(MsgLens[sent + 1])
       THEN UNCHANGED <<m_M, sending>>
       ELSE /\ m_M' = NextM(m_M)
            /\ sending' = [sending EXCEPT ![s] = Fragment(sent + 1, m_M', 0)]
    /\ UNCHANGED <<net, lost, dups, damaged, now, recvVars>>

\* do ... while: what the loop sends after packet p.
Following_Rest(p) ==    \* mutant: the loop ends when less than a fragment is left
    IF (p.N + 2) * FragSize <= p.len THEN Fragment(p.msg, p.M, p.N + 1) ELSE NoPacket
Following(p) ==
    IF p.N + 1 < Frags(p.len) THEN Fragment(p.msg, p.M, p.N + 1) ELSE NoPacket

SendMsg(s) ==
    /\ sending[s] # NoPacket
    /\ net' = Append(net, sending[s])
    /\ sending' = [sending EXCEPT ![s] = Following(sending[s])]
    /\ UNCHANGED <<sent, m_M, lost, dups, damaged, now, recvVars>>

\* SendMsg found no memory, or SendTo failed: SendUserData returns at once.
SendFails(s) ==
    /\ lost < MaxLoss
    /\ sending[s] # NoPacket
    /\ damaged' = damaged \cup {sending[s].msg}
    /\ sending' = [sending EXCEPT ![s] = NoPacket]
    /\ lost' = lost + 1
    /\ UNCHANGED <<sent, m_M, net, dups, now, recvVars>>

\* The network.
Reachable == IF Reorder THEN DOMAIN net ELSE {1} \cap DOMAIN net

Lose ==
    /\ lost < MaxLoss
    /\ \E i \in DOMAIN net :
        /\ net' = RemoveAt(net, i)
        /\ damaged' = damaged \cup {net[i].msg}
    /\ lost' = lost + 1
    /\ UNCHANGED <<sent, m_M, sending, dups, now, recvVars>>

Duplicate ==
    /\ dups < MaxDup
    /\ \E i \in DOMAIN net : net' = InsertAt(net, i, net[i])
    /\ dups' = dups + 1
    /\ UNCHANGED <<sent, m_M, sending, lost, damaged, now, recvVars>>

Clock ==
    /\ now < MaxTime
    /\ now' = now + 1
    /\ UNCHANGED <<netVars, recvVars>>

-----------------------------------------------------------------------------
\* The receiver.
Goto(t, l) == pc' = [pc EXCEPT ![t] = l]
Done(t) ==
    /\ Goto(t, "idle")
    /\ pkt' = [pkt EXCEPT ![t] = NoPacket]
    /\ mine' = [mine EXCEPT ![t] = NoSlot]

\* OnRecv: the endpoint is found by its cookie, or the packet is dropped.
OnRecv(t) ==
    /\ pc[t] = "idle"
    /\ \E i \in Reachable :
        /\ net' = RemoveAt(net, i)
        /\ IF open
           THEN /\ Goto(t, "lock")
                /\ pkt' = [pkt EXCEPT ![t] = net[i]]
                /\ arrived' = [arrived EXCEPT ![net[i].msg][net[i].N] = @ + 1]
           ELSE UNCHANGED <<pc, pkt, arrived>>
    /\ UNCHANGED <<sent, m_M, sending, lost, dups, damaged, now, open, m_lock, slot, tick,
                   mine, delivered, met, refused, stolen>>

\* get, its first line: the clock is read before the buffers are.
OnData(t) ==
    /\ pc[t] = "lock" /\ m_lock = NoPacket
    /\ m_lock' = t
    /\ tick' = [tick EXCEPT ![t] = now]
    /\ Goto(t, "get")
    /\ UNCHANGED <<netVars, now, open, slot, pkt, mine, delivered, history>>

\* get, the loop: the buffer of the message; else the first one with no bits;
\* else the one not written for longest, if that is more than 999 ms.
Empty == {i \in Slots : slot[i].bits = {}}
Age(t, i) == (tick[t] - slot[i].tick) % TickMod
Oldest(t) == {i \in Slots : Age(t, i) > Stale /\ \A j \in Slots : Age(t, j) <= Age(t, i)}

Candidates_Oldest(t) == \* mutant: the old ones are looked for first
    IF Oldest(t) # {} THEN Oldest(t) ELSE Empty
Candidates(t) == IF Empty # {} THEN Empty ELSE Oldest(t)

Assign_KeepsNeed(i, p) ==   \* mutant: the count of missing bytes is not set
    slot' = [slot EXCEPT ![i].M = p.M, ![i].cbMsg = p.len]
Assign(i, p) ==
    slot' = [slot EXCEPT ![i].M = p.M, ![i].cbMsg = p.len, ![i].cbNeed = p.len]

InUse(t, i) == \E u \in Threads \ {t} : mine[u] = i

\* An early return: the message has a buffer already; with another length the
\* packet is dropped, and OnData returns 0.
Found(t, i) ==
    /\ IF slot[i].cbMsg = pkt[t].len
       THEN Goto(t, "bit") /\ mine' = [mine EXCEPT ![t] = i] /\ UNCHANGED pkt
       ELSE Done(t)
    /\ UNCHANGED <<slot, stolen>>

\* (History.)  A buffer of its number is an earlier message's when its first
\* packet comes.
WhatItMeets(t, matching) ==
    CASE matching = {} -> "new"
      [] matching # {} -> IF slot[Min(matching)].cbMsg = pkt[t].len THEN "same" ELSE "other"

Get(t) ==
    LET matching == {i \in Slots : slot[i].M = pkt[t].M} IN
    /\ pc[t] = "get"
    /\ m_lock' = NoPacket
    /\ tick' = [tick EXCEPT ![t] = 0]       \* the local goes out of scope
    /\ CASE matching # {} -> Found(t, Min(matching))
         [] matching = {} /\ Candidates(t) # {} ->
                LET i == Min(Candidates(t)) IN
                /\ Assign(i, pkt[t])
                /\ stolen' = (stolen \/ InUse(t, i))
                /\ mine' = [mine EXCEPT ![t] = i]
                /\ Goto(t, "bit")
                /\ UNCHANGED pkt
         [] OTHER -> Done(t) /\ UNCHANGED <<slot, stolen>>
    /\ met' = [met EXCEPT ![pkt[t].msg] =
                IF @ # "none" THEN @ ELSE WhatItMeets(t, matching)]
    /\ UNCHANGED <<netVars, now, open, delivered, arrived, refused>>

\* _interlockedbittestandset64: a fragment that came before is bad data.
Fresh_NoTest(t) == pkt[t].N < MaxFrags          \* mutant: bts without the test
Fresh(t) == pkt[t].N < MaxFrags /\ pkt[t].N \notin slot[mine[t]].bits

BitTestAndSet(t) ==
    /\ pc[t] = "bit"
    /\ IF Fresh(t)
       THEN /\ slot' = [slot EXCEPT ![mine[t]].bits = @ \cup {pkt[t].N}]
            /\ Goto(t, "copy")
       ELSE Goto(t, "fail") /\ UNCHANGED slot
    /\ UNCHANGED <<netVars, now, open, m_lock, pkt, tick, mine, delivered, history>>

\* memcpy into the fragment's place.
Place(n) == n

Copy(t) ==
    /\ pc[t] = "copy"
    /\ slot' = [slot EXCEPT ![mine[t]].buf[Place(pkt[t].N)] = pkt[t].msg]
    /\ Goto(t, "tick")
    /\ UNCHANGED <<netVars, now, open, m_lock, pkt, tick, mine, delivered, history>>

Touch(t) ==
    /\ pc[t] = "tick"
    /\ slot' = [slot EXCEPT ![mine[t]].tick = now]
    /\ Goto(t, "count")
    /\ UNCHANGED <<netVars, now, open, m_lock, pkt, tick, mine, delivered, history>>

\* InterlockedExchangeAdd returned exactly cb: this was the last byte.  (The
\* other half of the test reads Endpoint::m_bits, which is always 0.)  When
\* more is missing the server's OnData returns STATUS_BAD_DATA all the same,
\* the client's returns NOERROR.
LastByte_Sloppy(t) ==  \* mutant: what is left is compared, without the sign
    slot[mine[t]].cbNeed <= pkt[t].cb
LastByte(t) == slot[mine[t]].cbNeed = pkt[t].cb

ExchangeAdd(t) ==
    /\ pc[t] = "count"
    /\ slot' = [slot EXCEPT ![mine[t]].cbNeed = @ - pkt[t].cb]
    /\ \/ /\ LastByte(t)
          /\ Goto(t, "user")
          /\ delivered' = [delivered EXCEPT ![pkt[t].msg] = @ + 1]
          /\ UNCHANGED <<pkt, mine>>
       \/ /\ ~LastByte(t)
          /\ IF Strict THEN Goto(t, "fail") /\ UNCHANGED <<pkt, mine>> ELSE Done(t)
          /\ UNCHANGED delivered
    /\ UNCHANGED <<netVars, now, open, m_lock, tick, history>>

\* OnUserData reads the buffer until it returns; only then is the buffer free.
FreeSlot_Keep(i) == UNCHANGED slot      \* mutant: m_bits = 0 is forgotten
FreeSlot(i) == slot' = [slot EXCEPT ![i].bits = {}]

\* OnData returns its status.
OnUserData(t) ==
    /\ pc[t] = "user"
    /\ FreeSlot(mine[t])
    /\ mine' = [mine EXCEPT ![t] = NoSlot]
    /\ \/ /\ Goto(t, "idle")
          /\ pkt' = [pkt EXCEPT ![t] = NoPacket]
          /\ UNCHANGED refused
       \/ /\ Goto(t, "fail")
          /\ refused' = TRUE
          /\ UNCHANGED pkt
    /\ UNCHANGED <<netVars, now, open, m_lock, tick, delivered, arrived, met, stolen>>

\* OnData returned an error: RemoveConnection.
Fail(t) ==
    /\ pc[t] = "fail"
    /\ open' = FALSE
    /\ Done(t)
    /\ UNCHANGED <<netVars, now, m_lock, slot, tick, delivered, history>>

RecvStep(t) ==
    \/ OnData(t) \/ Get(t) \/ BitTestAndSet(t) \/ Copy(t) \/ Touch(t)
    \/ ExchangeAdd(t) \/ OnUserData(t) \/ Fail(t)

Next ==
    \/ \E s \in Senders : SendUserData(s) \/ SendMsg(s) \/ SendFails(s)
    \/ Lose \/ Duplicate \/ Clock
    \/ \E t \in Threads : OnRecv(t) \/ RecvStep(t)

Spec == Init /\ [][Next]_vars

-----------------------------------------------------------------------------
\* OnUserData sees the bytes of its own message and of no other, in every
\* fragment, from its first instruction to its last, whatever the network
\* reorders, duplicates and loses and whoever else is in OnData: unless get
\* gave the buffer to a second message while a thread held it, which is the one
\* hole (a buffer counts as empty until its first bit is set, outside the lock).
BufferIntact ==
    \A t \in Threads :
        pc[t] = "user" /\ ~stolen =>
            \A n \in 0 .. Frags(pkt[t].len) - 1 : slot[mine[t]].buf[n] = pkt[t].msg

\* A message is not delivered more often than the rarest of its fragments came:
\* no delivery is made up from fragments that were counted before.
NoMoreThanArrived ==
    ~stolen => \A k \in Msgs : \A n \in 0 .. Frags(MsgLens[k]) - 1 :
                    delivered[k] <= arrived[k][n]

\* What OnUserData reads is at least of messages with the number of its own.
NumberIntact ==
    \A t \in Threads :
        pc[t] = "user" /\ ~stolen =>
            \A n \in 0 .. Frags(pkt[t].len) - 1 :
                /\ slot[mine[t]].buf[n] \in Msgs
                /\ Number(slot[mine[t]].buf[n]) = Number(pkt[t].msg)

\* 65536 messages later the number is back, and with it the buffer that was
\* last used for it: complete or not, its bits and its count are the old ones.
\* A message of its length is mixed with what is there, one of another length
\* is dropped.
Swallowed == {k \in Msgs : met[k] \in {"same", "other"}}
Mixed == {k \in Msgs : \E j \in Msgs : met[j] = "same" /\ Number(j) = Number(k)}

\* A message that lost a packet, or met such a buffer, keeps a buffer for good.
\* There is one to spare for each of them and for what each thread now sends.
Spare == Cardinality(damaged \cup Swallowed) + Cardinality(Senders) <= NumSlots

\* OnUserData sees its own message, unless an earlier one left it its buffer.
UnmixedIntact ==
    \A t \in Threads :
        pc[t] = "user" /\ ~stolen /\ pkt[t].msg \notin Mixed =>
            \A n \in 0 .. Frags(pkt[t].len) - 1 : slot[mine[t]].buf[n] = pkt[t].msg

\* On a channel that keeps order and duplicates nothing OnData fails, whatever
\* was lost and however the threads' messages interleave, only because
\* OnUserData did, because no buffer was to spare, or because a number was back
\* on a buffer of the same length.
Failed == ~open \/ \E t \in Threads : pc[t] = "fail"
ChannelStaysOpen == Failed /\ ~refused => Mixed # {} \/ ~Spare

\* With a buffer to spare, and while the connection is there, every message
\* that lost no packet is delivered in the end, once: beside messages that
\* were damaged, among the messages of other threads, and although the numbers
\* wrap; except where a number is back on a buffer that still has it.
WholeMessages ==
    open => \A k \in Msgs : k <= sent /\ delivered[k] # 1 =>
                k \in damaged \cup Swallowed \cup Mixed \/ ~Spare
=============================================================================
