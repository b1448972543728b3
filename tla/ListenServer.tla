---------------------------- MODULE ListenServer ----------------------------
(***************************************************************************)
(* CClientServerR: the object that owns the socket, the receives and the   *)
(* list of connections.  Start posts the receives and counts them in       *)
(* m_nPackets; a receive that ends takes itself off the count, and the     *)
(* last one calls Stop, which takes the whole list over with the lock held *)
(* and walks it without.  Meanwhile the timer and other receives may       *)
(* remove connections.  The object is deleted with its last reference: its *)
(* creator's, a receive's or an endpoint's.                                *)
(*                                                                         *)
(* The list is modelled at the level of its links, because Stop's local    *)
(* list head and the order of its four assignments are what can go wrong.  *)
(* The head of thread t's Stop is the node t.  What happens inside one     *)
(* endpoint is the subject of EndpointLife: here notify_disconnect and     *)
(* Release of an endpoint are one step.                                    *)
(***************************************************************************)
EXTENDS Integers, FiniteSets

CONSTANTS Recv,         \* the receives that Start posts
          Ends,         \* the endpoints that OnConnect may create
          Starter, Timer, List,
          MaxPackets    \* bound on the packets for an endpoint that arrive

ASSUME NodesAssumption ==
    /\ IsFiniteSet(Recv) /\ Recv # {} /\ IsFiniteSet(Ends)
    /\ Recv \cap Ends = {} /\ List \notin Recv \cup Ends
    /\ Starter # Timer /\ {Starter, Timer} \cap Recv = {}
ASSUME BoundAssumption == MaxPackets \in Nat

Threads == Recv \cup {Starter, Timer}
Nodes   == Recv \cup Ends \cup {List}
NoEnd   == List                 \* "no endpoint" in a local variable

VARIABLES
    flink, blink,   \* the links of the list head, the endpoints, the local heads
    refs,           \* per endpoint: m_dwRefCount, 0: freed or not created
    fresh,          \* the endpoints not created yet
    m_nPackets,     \* counted receives
    pc, mine, next, \* per thread: place; the endpoint it handles; Stop's entry
    chain,          \* the endpoints OnTimer has chained in m_next
    timer,          \* SetTimer was called
    server,         \* "up", "ending" (in the destructor), "stuck", "gone"
    packets,        \* packets for an endpoint and expiries so far
    owed,           \* history: the endpoints whose list reference nobody claimed
    twice,          \* history: a list reference was claimed a second time
    miscounted,     \* history: a receive ended before it was counted
    broken          \* history: freed memory was used

links == <<flink, blink>>
ends  == <<refs, fresh>>
hist  == <<owed, twice, miscounted, broken>>
vars  == <<links, ends, m_nPackets, pc, mine, next, chain, timer, server, packets, hist>>

Init ==
    /\ flink = [n \in Nodes |-> n] /\ blink = [n \in Nodes |-> n]
    /\ refs = [e \in Ends |-> 0] /\ fresh = Ends /\ m_nPackets = 0
    /\ pc = [t \in Threads |-> IF t = Starter THEN "listen" ELSE "none"]
    /\ mine = [t \in Threads |-> NoEnd] /\ next = [t \in Threads |-> NoEnd]
    /\ chain = {} /\ timer = FALSE /\ server = "up" /\ packets = 0
    /\ owed = {} /\ twice = FALSE /\ miscounted = FALSE /\ broken = FALSE

Goto(t, l) == pc' = [pc EXCEPT ![t] = l]

\* Memory that may be used: a local head lives as long as its Stop runs.
Valid(n) ==
    CASE n \in Ends -> refs[n] > 0
      [] n \in Recv -> pc[n] \in {"first", "walk", "visit"}
      [] OTHER      -> TRUE

Use(S) == broken' = \E n \in S : ~Valid(n)

\* Whoever takes an endpoint out of the list gives back the list's reference.
Claim(S) ==
    /\ owed' = owed \ S
    /\ twice' = (twice \/ ~(S \subseteq owed))

\* Who keeps the object: its creator, its receives, its endpoints.
Unreferenced ==
    /\ pc[Starter] = "done"
    /\ \A r \in Recv : pc[r] \in {"none", "done"}
    /\ \A e \in Ends : refs[e] = 0

\* IO_OBJECT::Release.  The destructor waits for the timer's callback, which
\* never comes when it is the callback that runs the destructor.
ReleaseServer(t) ==
    server' = IF ~Unreferenced' THEN server ELSE IF t = Timer THEN "stuck" ELSE "ending"

-----------------------------------------------------------------------------
\* The list macros, on a pair of links.
Cut(e, l) ==
    LET f == l[1]  b == l[2]
    IN  <<[f EXCEPT ![b[e]] = f[e], ![e] = e], [b EXCEPT ![f[e]] = b[e], ![e] = e]>>

SetLinks(l) == flink' = l[1] /\ blink' = l[2]
RemoveEntryList(e) == SetLinks(Cut(e, links))

InsertHeadList(e) ==
    SetLinks(<<[flink EXCEPT ![e] = flink[List], ![List] = e],
               [blink EXCEPT ![e] = List, ![flink[List]] = e]>>)

\* The four assignments of Stop, on its local head h.  Blink is read after
\* Flink->Blink was written, which for an empty list is the same field.
TakeList_OldBlink(h) ==     \* mutant: Head.Blink instead of Blink
    SetLinks(<<[flink EXCEPT ![h] = flink[List], ![blink[List]] = h, ![List] = List],
               [blink EXCEPT ![h] = blink[List], ![flink[List]] = h, ![List] = List]>>)

TakeList(h) ==
    LET b == [blink EXCEPT ![h] = blink[List], ![flink[List]] = h]
        f == [[flink EXCEPT ![h] = flink[List]] EXCEPT ![b[List]] = h]
    IN  SetLinks(<<[f EXCEPT ![List] = List], [b EXCEPT ![List] = List]>>)

\* What a walk of the list under the lock meets: the least set that is closed
\* under its links.
InList ==
    {e \in Ends : \A S \in SUBSET Nodes :
        List \in S /\ (\A n \in S : flink[n] \in S) => e \in S}

\* m_lock is held for one step, or by the timer's walk.
Unlocked == pc[Timer] # "collect"

-----------------------------------------------------------------------------
\* Start: RecvFrom posts a receive, which may end before it is counted, or
\* AddListen has no memory, and this receive is never there.
Post ==
    /\ pc[Starter] = "listen"
    /\ \E r \in Recv :
        /\ pc[r] = "none"
        /\ \/ pc' = [pc EXCEPT ![Starter] = "count", ![r] = "posted"]
           \/ Goto(r, "done")
    /\ UNCHANGED <<links, ends, m_nPackets, mine, next, chain, timer, server, packets, hist>>

Count ==
    /\ pc[Starter] = "count"
    /\ m_nPackets' = m_nPackets + 1
    /\ Goto(Starter, "listen")
    /\ UNCHANGED <<links, ends, mine, next, chain, timer, server, packets, hist>>

\* StartServer: with no receive left there is no timer; the creator's
\* reference is dropped in any case.
Started ==
    /\ pc[Starter] = "listen" /\ \A r \in Recv : pc[r] # "none"
    /\ timer' = (m_nPackets # 0)
    /\ Goto(Starter, "done")
    /\ UNCHANGED <<links, ends, m_nPackets, mine, next, chain, packets, hist>>
    /\ ReleaseServer(Starter)

-----------------------------------------------------------------------------
\* A receive.  OnConnect makes an endpoint and puts it in the list; when Init,
\* Accept, Encode or SendTo fails it removes it, and in any case it releases its
\* own reference.
OnConnect(r) ==
    /\ pc[r] = "posted" /\ Unlocked
    /\ \E e \in fresh :
        /\ fresh' = fresh \ {e}
        /\ InsertHeadList(e)
        /\ refs' = [refs EXCEPT ![e] = 2]
        /\ owed' = owed \cup {e}
        /\ mine' = [mine EXCEPT ![r] = e]
    /\ \E l \in {"unlink", "release"} : Goto(r, l)
    /\ UNCHANGED <<m_nPackets, next, chain, timer, server, packets, twice, miscounted, broken>>

\* get finds the endpoint in the list and takes a reference.
Get(r, l) ==
    /\ pc[r] = "posted" /\ packets < MaxPackets /\ Unlocked
    /\ \E e \in InList :
        /\ mine' = [mine EXCEPT ![r] = e]
        /\ refs' = [refs EXCEPT ![e] = @ + 1]
    /\ packets' = packets + 1
    /\ Goto(r, l)
    /\ UNCHANGED <<links, fresh, m_nPackets, next, chain, timer, server, hist>>

\* OnDisconnect of the server removes the endpoint; a ping or data only use it.
OnDisconnect(r) == Get(r, "unlink")
OnPing(r)       == Get(r, "release")

\* RemoveConnection: under the lock the endpoint is taken out of the list it
\* is in, the server's or a local one; then notify_disconnect and Release.
\* What the timer removes it took out of the list before.
Unlink(t) ==
    LET e == mine[t] IN
    /\ pc[t] = "unlink" /\ Unlocked
    /\ Use({e, flink[e], blink[e]})
    /\ RemoveEntryList(e)
    /\ IF t = Timer THEN UNCHANGED <<owed, twice>> ELSE Claim({e})
    /\ Goto(t, "drop")
    /\ UNCHANGED <<ends, m_nPackets, mine, next, chain, timer, server, packets, miscounted>>

\* Endpoint::Release: the last one deletes the endpoint, and with it its
\* reference to the server.
Drop(t) ==
    /\ Use({mine[t]})
    /\ refs' = [refs EXCEPT ![mine[t]] = IF @ = 0 THEN 0 ELSE @ - 1]
    /\ UNCHANGED <<links, fresh, m_nPackets, next, chain, timer, packets, miscounted>>

RemoveEnd(t) ==
    /\ pc[t] = "drop"
    /\ Drop(t)
    /\ Goto(t, "release")
    /\ UNCHANGED <<mine, owed, twice>>
    /\ ReleaseServer(t)

\* The receive's own reference; the timer releases what Disconnect released.
Release(t) ==
    /\ pc[t] = "release"
    /\ Drop(t)
    /\ mine' = [mine EXCEPT ![t] = NoEnd]
    /\ Goto(t, IF t = Timer THEN "none" ELSE "posted")
    /\ twice' = (twice \/ t = Timer)
    /\ UNCHANGED owed
    /\ ReleaseServer(t)

-----------------------------------------------------------------------------
\* The receive fails and is not posted again: the last one stops the server.
IsLast(n) == n = 0

RecvEnds(r) ==
    /\ pc[r] = "posted"
    /\ m_nPackets' = m_nPackets - 1
    /\ miscounted' = (miscounted \/ m_nPackets = 0)
    /\ Goto(r, IF IsLast(m_nPackets') THEN "take" ELSE "complete")
    /\ UNCHANGED <<links, ends, mine, next, chain, timer, server, packets, owed, twice, broken>>

\* OnIoComplete: the receive's reference to the server.
Complete(r) ==
    /\ pc[r] = "complete"
    /\ Goto(r, "done")
    /\ UNCHANGED <<links, ends, m_nPackets, mine, next, chain, timer, packets, hist>>
    /\ ReleaseServer(r)

\* Stop.
StopTake(r) ==
    /\ pc[r] = "take" /\ Unlocked
    /\ TakeList(r)
    /\ Goto(r, "first")
    /\ UNCHANGED <<ends, m_nPackets, mine, next, chain, timer, server, packets, hist>>

\* PLIST_ENTRY entry = Head.Flink, and in the loop entry = entry->Flink before
\* the endpoint is given away.  Any entry but the local head is taken for an
\* endpoint.
Advance(r, n) ==
    /\ next' = [next EXCEPT ![r] = flink[n]]
    /\ Claim({flink[n]} \cap Ends)

StopFirst(r) ==
    /\ pc[r] = "first"
    /\ Advance(r, r)
    /\ Goto(r, "walk")
    /\ UNCHANGED <<links, ends, m_nPackets, mine, chain, timer, server, packets, miscounted, broken>>

StopWalk(r) ==
    /\ pc[r] = "walk" /\ next[r] # r
    /\ mine' = [mine EXCEPT ![r] = next[r]]
    /\ Advance(r, next[r])
    /\ broken' = (next[r] \notin Ends \/ ~Valid(next[r]))
    /\ Goto(r, "visit")
    /\ UNCHANGED <<links, ends, m_nPackets, chain, timer, server, packets, miscounted>>

Visit_Keeps(r) ==           \* mutant: the list's reference is forgotten
    /\ UNCHANGED <<refs, broken, links, fresh, m_nPackets, next, chain, timer, packets, miscounted>>
Visit(r) == Drop(r)

StopVisit(r) ==
    /\ pc[r] = "visit"
    /\ Visit(r)
    /\ mine' = [mine EXCEPT ![r] = NoEnd]
    /\ Goto(r, "walk")
    /\ UNCHANGED <<owed, twice>>
    /\ ReleaseServer(r)

StopEnd(r) ==
    /\ pc[r] = "walk" /\ next[r] = r
    /\ next' = [next EXCEPT ![r] = NoEnd]
    /\ Goto(r, "complete")
    /\ UNCHANGED <<links, ends, m_nPackets, mine, chain, timer, server, packets, hist>>

-----------------------------------------------------------------------------
\* OnTimer: with the lock held what is too old moves, one by one, to a chain of
\* its own; then it is disconnected, one after the other.
OnTimer ==
    /\ pc[Timer] = "none" /\ chain = {} /\ timer /\ server = "up" /\ packets < MaxPackets
    /\ packets' = packets + 1
    /\ Goto(Timer, "collect")
    /\ UNCHANGED <<links, ends, m_nPackets, mine, next, chain, timer, server, hist>>

Collect ==
    /\ pc[Timer] = "collect"
    /\ \E e \in InList :
        /\ RemoveEntryList(e)
        /\ chain' = chain \cup {e}
        /\ Claim({e})
    /\ UNCHANGED <<ends, m_nPackets, pc, mine, next, timer, server, packets, miscounted, broken>>

Collected ==
    /\ pc[Timer] = "collect"
    /\ Goto(Timer, "none")
    /\ UNCHANGED <<links, ends, m_nPackets, mine, next, chain, timer, server, packets, hist>>

Disconnect ==
    /\ pc[Timer] = "none"
    /\ \E e \in chain :
        /\ mine' = [mine EXCEPT ![Timer] = e]
        /\ chain' = chain \ {e}
    /\ Goto(Timer, "unlink")
    /\ UNCHANGED <<links, ends, m_nPackets, next, timer, server, packets, hist>>

\* ~CClientServerR: deleteTimer waits until no callback runs.
Destroy ==
    /\ server = "ending" /\ pc[Timer] = "none" /\ chain = {}
    /\ server' = "gone" /\ timer' = FALSE
    /\ UNCHANGED <<links, ends, m_nPackets, pc, mine, next, chain, packets, hist>>

Remove(t) == Unlink(t) \/ RemoveEnd(t) \/ Release(t)
Stop(r) == StopTake(r) \/ StopFirst(r) \/ StopWalk(r) \/ StopVisit(r) \/ StopEnd(r)
Start == Post \/ Count \/ Started

\* Nothing is said of a program that used freed memory, or whose timer thread
\* waits for itself.
Running == ~broken /\ server # "stuck"

Next ==
    /\ Running
    /\ \/ Start \/ OnTimer \/ Collect \/ Collected \/ Disconnect \/ Destroy
       \/ \E r \in Recv : OnConnect(r) \/ OnDisconnect(r) \/ OnPing(r) \/ RecvEnds(r) \/ Complete(r) \/ Stop(r)
       \/ \E t \in Threads : Remove(t)

Spec == Init /\ [][Next]_vars

\* Threads go on; nothing is assumed of what arrives.
FairSpec ==
    /\ Spec
    /\ WF_vars(Running /\ Start) /\ WF_vars(Running /\ Collected)
    /\ WF_vars(Running /\ Disconnect) /\ WF_vars(Running /\ Destroy)
    /\ \A r \in Recv : WF_vars(Running /\ (Complete(r) \/ Stop(r)))
    /\ \A t \in Threads : WF_vars(Running /\ Remove(t))

-----------------------------------------------------------------------------
\* Stop may walk its list without the lock, beside other receives that still
\* connect and disconnect clients (it may run while Start still posts), a
\* second Stop and the timer: no freed endpoint and no dead list head is
\* touched, as long as nobody claims what another one has claimed.  (The timer
\* always does: it releases an endpoint twice.)
WalkIsSafe == broken => twice

\* A server whose receives have all ended is deleted, with all its endpoints,
\* unless a receive ended before it was counted, so that no Stop, or Stop too
\* early, ran; or the timer dropped the last endpoint and with it the server,
\* whose destructor then waits for this very callback.
Deaf == pc[Starter] = "done" /\ \A r \in Recv : pc[r] = "done"
DeafServerGoes == Deaf ~> (server \in {"gone", "stuck"} \/ twice \/ miscounted)
=============================================================================
