-------------------------------- MODULE ServerProof --------------------------------
(***************************************************************************)
(* Proofs about three parts of the camera server: its listening object     *)
(* (ListenServer), its service (Service, with Alert) and its encoder       *)
(* (EncoderQueue).  They share nothing.                                    *)
(***************************************************************************)
EXTENDS ListenServer, Service, EncoderQueue, FiniteSetTheorems, WellFoundedInduction, TLAPS

-----------------------------------------------------------------------------
(***************************************************************************)
(* Proofs about ListenServer for any finite number of receives and         *)
(* endpoints: Stop's walk without the lock touches nothing that was freed, *)
(* unless some list reference was claimed twice.                           *)
(*                                                                         *)
(* Two things are proved together.  Who has which reference (OneClaim,     *)
(* RefCount): the list's reference of an endpoint is either not claimed or *)
(* with one thread.  And where the links lead (TwoWay, Around, Homes,      *)
(* Ranks): behind an endpoint that nobody claimed are only such endpoints, *)
(* up to a living list head, and before it is at most the entry that a     *)
(* walking Stop has claimed.  What Stop has passed stays linked and may be *)
(* freed, but nobody who claims for the first time gets at it.             *)
(*                                                                         *)
(* In which list a node is, and that a list is no ring without its head,   *)
(* cannot be read off the links one by one: Lists says that there is a map *)
(* from the nodes to their heads, and one to numbers that grow along each  *)
(* list (an endpoint's number is how many were fresh when it was created). *)
(***************************************************************************)

Heads  == Recv \cup {List}
RecvPCs == {"none", "posted", "unlink", "drop", "release", "take", "first", "walk",
            "visit", "complete", "done"}
Walks(r) == pc[r] \in {"walk", "visit"}
Stopping(r) == pc[r] \in {"first", "walk", "visit"}

TypeOK ==
    /\ flink \in [Nodes -> Nodes] /\ blink \in [Nodes -> Nodes]
    /\ refs \in [Ends -> Nat] /\ fresh \subseteq Ends
    /\ pc \in [Threads -> RecvPCs \cup {"listen", "count", "collect"}]
    /\ mine \in [Threads -> Nodes] /\ next \in [Threads -> Nodes]
    /\ chain \subseteq Ends /\ owed \subseteq Ends
    /\ twice \in BOOLEAN /\ broken \in BOOLEAN

\* Who is where, and has what.
Places ==
    /\ pc[Starter] \in {"listen", "count", "done"}
    /\ pc[Timer] \in {"none", "collect", "unlink", "drop", "release"}
    /\ \A r \in Recv : pc[r] \in RecvPCs
    /\ broken \/ \A t \in Threads : pc[t] \in {"unlink", "drop", "release", "visit"}
                                      => mine[t] \in Ends

\* The claims of the list's reference.
ByMine(t, e) ==
    mine[t] = e /\ (pc[t] \in {"drop", "visit"} \/ (t = Timer /\ pc[t] = "unlink"))
ByNext(r, e) == Walks(r) /\ next[r] = e
Claimed(e) == e \in chain \/ (\E t \in Threads : ByMine(t, e)) \/ (\E r \in Recv : ByNext(r, e))

OneClaim(e) ==
    /\ e \in owed => ~Claimed(e)
    /\ e \in chain => (\A t \in Threads : ~ByMine(t, e)) /\ (\A r \in Recv : ~ByNext(r, e))
    /\ \A t \in Threads, r \in Recv : ~(ByMine(t, e) /\ ByNext(r, e))
    /\ \A t, u \in Threads : ByMine(t, e) /\ ByMine(u, e) => t = u
    /\ \A r, s \in Recv : ByNext(r, e) /\ ByNext(s, e) => r = s

\* The references: the list's or its claimant's, and those of the receives that
\* found the endpoint.
One(b) == IF b THEN 1 ELSE 0
Own(e) == {r \in Recv : mine[r] = e /\ pc[r] \in {"unlink", "drop", "release"}}
RefCount(e) == refs[e] = One(e \in owed \/ Claimed(e)) + Cardinality(Own(e))

FreshUnknown(e) == e \in fresh => ~Claimed(e) /\ e \notin owed /\ Own(e) = {}
Token(e) == OneClaim(e) /\ RefCount(e) /\ FreshUnknown(e)

\* The links.  Some endpoints are in no list.
Loose(e) == flink[e] = e /\ blink[e] = e
Outside ==
    /\ \A e \in fresh \cup chain : Loose(e)
    /\ pc[Timer] = "unlink" => Loose(mine[Timer])

\* The local head of a Stop to come.
Waits(r) == pc[r] \notin {"first", "walk", "visit", "complete", "done"}
HeadsWait ==
    \A r \in Recv : Waits(r) => Loose(r)

TwoWay ==
    /\ \A n \in Nodes : (n \in Recv => flink[n] # n) => blink[flink[n]] = n
    /\ \A n \in Nodes \ Recv : flink[blink[n]] = n

\* What lies before and behind an endpoint that nobody claimed.
Before(e) ==
    \/ blink[e] \in owed \cup {List}
    \/ \E r \in Recv : pc[r] = "first" /\ blink[e] = r
    \/ \E r \in Recv : Walks(r) /\ next[r] # r /\ blink[e] = next[r]

Around ==
    /\ \A e \in owed : flink[e] \in owed \cup Heads /\ Before(e)
    /\ flink[List] \in owed \cup {List}
    /\ \A r \in Recv : pc[r] = "first" => flink[r] \in owed \cup {r}
    /\ \A r \in Recv : Walks(r) /\ next[r] # r => next[r] \in Ends /\ flink[next[r]] \in owed \cup {r}

\* home is the head of the list that a node is in; rank grows along a list.
Homes(home) ==
    /\ home \in [Nodes -> Heads]
    /\ \A h \in Heads : home[h] = h
    /\ \A n \in Nodes : home[flink[n]] = home[n]
    /\ \A e \in owed : home[e] = List \/ Stopping(home[e])
    /\ \A r \in Recv : Walks(r) => home[next[r]] = r

Ranks(rank) ==
    /\ rank \in [Ends -> Nat]
    /\ \A e \in owed : flink[e] \in Ends => rank[e] < rank[flink[e]]
    /\ \A e \in Ends \ fresh : Cardinality(fresh) <= rank[e]

Lists == \E home \in [Nodes -> Heads], rank \in [Ends -> Nat] : Homes(home) /\ Ranks(rank)

Tokens == \A e \in Ends : Token(e)
Links  == HeadsWait /\ TwoWay /\ Around /\ Lists
Good   == ~broken /\ Tokens /\ Links /\ Outside

IInv == TypeOK /\ Places /\ (~twice => Good)

LEMMA Constants ==
    /\ Recv \subseteq Threads /\ Timer \in Threads /\ Starter \in Threads
    /\ Timer # Starter /\ Timer \notin Recv /\ Starter \notin Recv
    /\ Ends \subseteq Nodes /\ Recv \subseteq Nodes /\ List \in Nodes
    /\ Ends \cap Recv = {} /\ List \notin Ends /\ List \notin Recv
    /\ IsFiniteSet(Recv) /\ IsFiniteSet(Ends)
BY NodesAssumption DEF Threads, Nodes

LEMMA ListIsOfEnds == InList \subseteq Ends
BY DEF InList

-----------------------------------------------------------------------------
\* Types.
LEMMA InitType == Init => TypeOK /\ Places
<1> SUFFICES ASSUME Init PROVE TypeOK /\ Places
  OBVIOUS
<1> USE Constants DEF Init, NoEnd
<1>1. pc \in [Threads -> RecvPCs \cup {"listen", "count", "collect"}]
  BY DEF RecvPCs
<1>2. TypeOK
  BY <1>1 DEF TypeOK
<1>3. \A t \in Threads : pc[t] = IF t = Starter THEN "listen" ELSE "none"
  OBVIOUS
<1>4. Places
  BY <1>3 DEF Places, RecvPCs
<1> QED
  BY <1>2, <1>4

LEMMA CutTypes ==
    ASSUME TypeOK, NEW e \in Nodes, RemoveEntryList(e)
    PROVE  flink' \in [Nodes -> Nodes] /\ blink' \in [Nodes -> Nodes]
BY DEF TypeOK, RemoveEntryList, SetLinks, Cut, links

LEMMA DropTypes ==
    ASSUME TypeOK, NEW t \in Threads, mine[t] \in Ends, Drop(t)
    PROVE  refs' \in [Ends -> Nat] /\ broken' \in BOOLEAN
<1>1. \A n \in Nat : (IF n = 0 THEN 0 ELSE n - 1) \in Nat
  OBVIOUS
<1> QED
  BY <1>1 DEF TypeOK, Drop, Use

\* Where a thread goes from, and what it then works on.
LEMMA Walking ==
    ASSUME TypeOK, Places, ~broken, NEW t \in Threads, NEW l, NEW m \in Nodes,
           pc' = [pc EXCEPT ![t] = l], mine' = [mine EXCEPT ![t] = m],
           t = Starter => l \in {"listen", "count", "done"},
           t = Timer => l \in {"none", "collect", "unlink", "drop", "release"},
           t \in Recv => l \in RecvPCs,
           l \in {"unlink", "drop", "release", "visit"} => m \in Ends \/ broken'
    PROVE  /\ pc' \in [Threads -> RecvPCs \cup {"listen", "count", "collect"}]
           /\ mine' \in [Threads -> Nodes]
           /\ Places'
<1>1. l \in RecvPCs \cup {"listen", "count", "collect"}
  BY DEF RecvPCs, Threads
<1>2. /\ pc' \in [Threads -> RecvPCs \cup {"listen", "count", "collect"}]
      /\ mine' \in [Threads -> Nodes]
  BY <1>1 DEF TypeOK
<1>3. /\ \A u \in Threads \ {t} : pc'[u] = pc[u] /\ mine'[u] = mine[u]
      /\ pc'[t] = l /\ mine'[t] = m
  BY DEF TypeOK
<1>4. Places'
  BY <1>3, Constants DEF Places
<1> QED
  BY <1>2, <1>4

LEMMA SameMine == TypeOK => \A t \in Threads : mine = [mine EXCEPT ![t] = mine[t]]
BY DEF TypeOK

LEMMA TypeStep == TypeOK /\ Places /\ [Next]_vars => TypeOK' /\ Places'
<1> SUFFICES ASSUME TypeOK, Places, Next PROVE TypeOK' /\ Places'
  BY DEF vars, TypeOK, Places, links, ends, hist
<1>0. /\ ~broken /\ flink \in [Nodes -> Nodes] /\ blink \in [Nodes -> Nodes]
      /\ mine \in [Threads -> Nodes] /\ next \in [Threads -> Nodes]
      /\ chain \subseteq Ends /\ owed \subseteq Ends /\ fresh \subseteq Ends
      /\ refs \in [Ends -> Nat]
  BY DEF TypeOK, Next, Running
<1>m. \A t \in Threads : mine = [mine EXCEPT ![t] = mine[t]] /\ mine[t] \in Nodes
  BY SameMine, <1>0
<1> USE Constants
<1>1. ASSUME NEW r \in Recv, pc' = [pc EXCEPT ![Starter] = "count", ![r] = "posted"],
             UNCHANGED <<links, ends, mine, next, chain, hist>>
      PROVE  TypeOK' /\ Places'
  <2>1. pc' = [pc EXCEPT ![Starter] = "count", ![r] = "posted"]
    BY <1>1
  <2>2. UNCHANGED <<links, ends, mine, next, chain, hist>>
    BY <1>1
  <2>3. pc' \in [Threads -> RecvPCs \cup {"listen", "count", "collect"}]
    BY <2>1 DEF TypeOK, RecvPCs
  <2>4. TypeOK'
    BY <2>2, <2>3 DEF TypeOK, links, ends, hist
  <2>5. pc'[Starter] = "count" /\ pc'[r] = "posted"
        /\ \A t \in Threads \ {Starter, r} : pc'[t] = pc[t]
    BY <2>1 DEF TypeOK
  <2>6. Places'
    BY <1>0, <2>2, <2>5 DEF Places, RecvPCs
  <2> QED
    BY <2>4, <2>6
<1>2. ASSUME NEW t \in Threads, NEW l, Goto(t, l), mine' = mine,
             UNCHANGED <<links, ends, chain, hist>>, next' \in [Threads -> Nodes],
             t = Starter => l \in {"listen", "count", "done"},
             t = Timer => l \in {"none", "collect", "unlink", "drop", "release"},
             t \in Recv => l \in RecvPCs \ {"unlink", "drop", "release", "visit"},
             l \notin {"unlink", "drop", "release", "visit"}
      PROVE  TypeOK' /\ Places'
  <2>1. pc' = [pc EXCEPT ![t] = l] /\ mine' = [mine EXCEPT ![t] = mine[t]] /\ mine[t] \in Nodes
    BY <1>2, <1>m DEF Goto
  <2>2. /\ pc' \in [Threads -> RecvPCs \cup {"listen", "count", "collect"}]
        /\ mine' \in [Threads -> Nodes]
        /\ Places'
    BY <1>2, <2>1, <1>0, Walking
  <2> QED
    BY <1>2, <2>2 DEF TypeOK, links, ends, hist
<1>3. CASE Count \/ Started \/ OnTimer \/ Collected
  BY <1>0, <1>2, <1>3 DEF Count, Started, OnTimer, Collected
<1>4. ASSUME NEW r \in Recv, Complete(r) \/ StopEnd(r) PROVE TypeOK' /\ Places'
  <2>1. next' \in [Threads -> Nodes]
    BY <1>0, <1>4 DEF Complete, StopEnd, NoEnd
  <2> QED
    BY <2>1, <1>2, <1>4 DEF Complete, StopEnd, RecvPCs
<1>5. ASSUME NEW r \in Recv, OnConnect(r) PROVE TypeOK' /\ Places'
  <2>1. PICK e \in fresh : /\ fresh' = fresh \ {e} /\ InsertHeadList(e)
                           /\ refs' = [refs EXCEPT ![e] = 2] /\ owed' = owed \cup {e}
                           /\ mine' = [mine EXCEPT ![r] = e]
    BY <1>5 DEF OnConnect
  <2>l. PICK l \in {"unlink", "release"} : pc' = [pc EXCEPT ![r] = l]
    BY <1>5 DEF OnConnect, Goto
  <2>2. e \in Ends /\ fresh' \subseteq Ends /\ owed' \subseteq Ends /\ refs' \in [Ends -> Nat]
    BY <1>0, <2>1
  <2>3. flink' \in [Nodes -> Nodes] /\ blink' \in [Nodes -> Nodes]
    BY <1>0, <2>1, <2>2 DEF InsertHeadList, SetLinks
  <2>4. /\ pc' \in [Threads -> RecvPCs \cup {"listen", "count", "collect"}]
        /\ mine' \in [Threads -> Nodes]
        /\ Places'
    BY <1>5, <2>1, <2>l, <2>2, <1>0, Walking DEF RecvPCs, OnConnect
  <2> QED
    BY <1>5, <2>2, <2>3, <2>4 DEF OnConnect, TypeOK
<1>6. ASSUME NEW r \in Recv, NEW l \in {"unlink", "release"}, Get(r, l) PROVE TypeOK' /\ Places'
  <2>1. PICK e \in InList : mine' = [mine EXCEPT ![r] = e] /\ refs' = [refs EXCEPT ![e] = @ + 1]
    BY <1>6 DEF Get
  <2>2. e \in Ends /\ refs' \in [Ends -> Nat]
    BY <1>0, <2>1, ListIsOfEnds
  <2>3. /\ pc' = [pc EXCEPT ![r] = l]
        /\ UNCHANGED <<links, fresh, next, chain, hist>>
    BY <1>6 DEF Get, Goto
  <2>4. /\ pc' \in [Threads -> RecvPCs \cup {"listen", "count", "collect"}]
        /\ mine' \in [Threads -> Nodes]
        /\ Places'
    BY <2>1, <2>2, <2>3, <1>0, Walking DEF RecvPCs
  <2> QED
    BY <2>2, <2>3, <2>4 DEF TypeOK, links, hist
<1>7. ASSUME NEW t \in Threads, Unlink(t) PROVE TypeOK' /\ Places'
  <2>1. mine[t] \in Ends /\ t # Starter /\ mine[t] \in Nodes
    BY <1>0, <1>7 DEF Places, Unlink
  <2>2. pc' = [pc EXCEPT ![t] = "drop"] /\ mine' = [mine EXCEPT ![t] = mine[t]]
    BY <1>7, <1>m DEF Unlink, Goto
  <2>3. /\ pc' \in [Threads -> RecvPCs \cup {"listen", "count", "collect"}]
        /\ mine' \in [Threads -> Nodes]
        /\ Places'
    BY <2>1, <2>2, <1>0, Walking DEF RecvPCs
  <2>4. flink' \in [Nodes -> Nodes] /\ blink' \in [Nodes -> Nodes]
    BY <1>7, <2>1, CutTypes DEF Unlink
  <2>5. UNCHANGED <<ends, next, chain>>
    BY <1>7 DEF Unlink
  <2>6. broken' \in BOOLEAN
    BY <1>7 DEF Unlink, Use
  <2>7. owed' \subseteq Ends /\ twice' \in BOOLEAN
    BY <1>0, <1>7 DEF Unlink, Claim, TypeOK
  <2> QED
    BY <2>3, <2>4, <2>5, <2>6, <2>7 DEF TypeOK, ends
<1>8. ASSUME NEW t \in Threads, RemoveEnd(t) PROVE TypeOK' /\ Places'
  <2>1. mine[t] \in Ends /\ t # Starter /\ mine[t] \in Nodes
    BY <1>0, <1>8 DEF Places, RemoveEnd
  <2>2. pc' = [pc EXCEPT ![t] = "release"] /\ mine' = [mine EXCEPT ![t] = mine[t]] /\ Drop(t)
        /\ UNCHANGED <<owed, twice>>
    BY <1>8, <1>m DEF RemoveEnd, Goto
  <2>3. /\ pc' \in [Threads -> RecvPCs \cup {"listen", "count", "collect"}]
        /\ mine' \in [Threads -> Nodes]
        /\ Places'
    BY <2>1, <2>2, <1>0, Walking DEF RecvPCs
  <2>4. refs' \in [Ends -> Nat] /\ broken' \in BOOLEAN
    BY <2>1, <2>2, DropTypes
  <2> QED
    BY <2>2, <2>3, <2>4 DEF TypeOK, Drop, links
<1>9. ASSUME NEW t \in Threads, Release(t) PROVE TypeOK' /\ Places'
  <2>1. mine[t] \in Ends /\ t # Starter
    BY <1>0, <1>9 DEF Places, Release
  <2>2. /\ pc' = [pc EXCEPT ![t] = IF t = Timer THEN "none" ELSE "posted"]
        /\ mine' = [mine EXCEPT ![t] = List] /\ Drop(t) /\ UNCHANGED owed
        /\ twice' = (twice \/ t = Timer)
    BY <1>9 DEF Release, Goto, NoEnd
  <2> DEFINE l == IF t = Timer THEN "none" ELSE "posted"
  <2>a. /\ l \in {"none", "posted"} /\ (t = Timer => l = "none")
        /\ pc' = [pc EXCEPT ![t] = l]
    BY <2>2
  <2> HIDE DEF l
  <2>3. /\ pc' \in [Threads -> RecvPCs \cup {"listen", "count", "collect"}]
        /\ mine' \in [Threads -> Nodes]
        /\ Places'
    BY <2>1, <2>2, <2>a, <1>0, Walking DEF RecvPCs
  <2>4. refs' \in [Ends -> Nat] /\ broken' \in BOOLEAN
    BY <2>1, <2>2, DropTypes
  <2> QED
    BY <2>2, <2>3, <2>4 DEF TypeOK, Drop, links
<1>10. ASSUME NEW r \in Recv, RecvEnds(r) PROVE TypeOK' /\ Places'
  <2> DEFINE l == IF IsLast(m_nPackets') THEN "take" ELSE "complete"
  <2>1. pc' = [pc EXCEPT ![r] = l] /\ l \in {"take", "complete"}
    BY <1>10 DEF RecvEnds, Goto
  <2>2. UNCHANGED <<links, ends, mine, next, chain, owed, twice, broken>>
    BY <1>10 DEF RecvEnds
  <2> HIDE DEF l
  <2>3. mine' = [mine EXCEPT ![r] = mine[r]] /\ mine[r] \in Nodes
    BY <1>m, <2>2
  <2>4. /\ pc' \in [Threads -> RecvPCs \cup {"listen", "count", "collect"}]
        /\ mine' \in [Threads -> Nodes]
        /\ Places'
    BY <2>1, <2>3, <1>0, Walking DEF RecvPCs
  <2> QED
    BY <2>2, <2>4 DEF TypeOK, links, ends
<1>11. ASSUME NEW r \in Recv, StopTake(r) PROVE TypeOK' /\ Places'
  <2>1. flink' \in [Nodes -> Nodes] /\ blink' \in [Nodes -> Nodes]
    <3>1. r \in Nodes /\ flink[List] \in Nodes
      BY <1>0
    <3> DEFINE b == [blink EXCEPT ![r] = blink[List], ![flink[List]] = r]
               f == [[flink EXCEPT ![r] = flink[List]] EXCEPT ![b[List]] = r]
    <3>2. b \in [Nodes -> Nodes]
      BY <1>0, <3>1
    <3>3. f \in [Nodes -> Nodes]
      BY <1>0, <3>1, <3>2
    <3>4. flink' = [f EXCEPT ![List] = List] /\ blink' = [b EXCEPT ![List] = List]
      BY <1>11 DEF StopTake, TakeList, SetLinks
    <3> HIDE DEF b, f
    <3> QED
      BY <3>2, <3>3, <3>4
  <2>2. /\ pc' = [pc EXCEPT ![r] = "first"] /\ mine' = [mine EXCEPT ![r] = mine[r]]
        /\ mine[r] \in Nodes /\ UNCHANGED <<ends, next, chain, hist>>
    BY <1>11, <1>m DEF StopTake, Goto
  <2>3. /\ pc' \in [Threads -> RecvPCs \cup {"listen", "count", "collect"}]
        /\ mine' \in [Threads -> Nodes]
        /\ Places'
    BY <2>2, <1>0, Walking DEF RecvPCs
  <2> QED
    BY <2>1, <2>2, <2>3 DEF TypeOK, ends, hist
<1>12. ASSUME NEW r \in Recv, StopFirst(r) PROVE TypeOK' /\ Places'
  <2>1. /\ pc' = [pc EXCEPT ![r] = "walk"] /\ mine' = [mine EXCEPT ![r] = mine[r]]
        /\ mine[r] \in Nodes /\ UNCHANGED <<links, ends, chain, broken>>
        /\ next' \in [Threads -> Nodes] /\ owed' \subseteq Ends /\ twice' \in BOOLEAN
    BY <1>0, <1>12, <1>m DEF StopFirst, Goto, Advance, Claim, TypeOK
  <2>2. /\ pc' \in [Threads -> RecvPCs \cup {"listen", "count", "collect"}]
        /\ mine' \in [Threads -> Nodes]
        /\ Places'
    BY <2>1, <1>0, Walking DEF RecvPCs
  <2> QED
    BY <2>1, <2>2 DEF TypeOK, ends, links
<1>13. ASSUME NEW r \in Recv, StopWalk(r) PROVE TypeOK' /\ Places'
  <2>1. /\ pc' = [pc EXCEPT ![r] = "visit"] /\ mine' = [mine EXCEPT ![r] = next[r]]
        /\ next[r] \in Nodes /\ UNCHANGED <<links, ends, chain>>
        /\ next' \in [Threads -> Nodes] /\ owed' \subseteq Ends
        /\ twice' \in BOOLEAN /\ broken' \in BOOLEAN
        /\ next[r] \in Ends \/ broken'
    BY <1>0, <1>13 DEF StopWalk, Goto, Advance, Claim, TypeOK
  <2>2. /\ pc' \in [Threads -> RecvPCs \cup {"listen", "count", "collect"}]
        /\ mine' \in [Threads -> Nodes]
        /\ Places'
    BY <1>0, <2>1, Walking DEF RecvPCs
  <2> QED
    BY <2>1, <2>2 DEF TypeOK, ends, links
<1>14. ASSUME NEW r \in Recv, StopVisit(r) PROVE TypeOK' /\ Places'
  <2>1. mine[r] \in Ends
    BY <1>0, <1>14 DEF Places, StopVisit
  <2>2. /\ pc' = [pc EXCEPT ![r] = "walk"] /\ mine' = [mine EXCEPT ![r] = List]
        /\ Drop(r) /\ UNCHANGED <<owed, twice>>
    BY <1>14 DEF StopVisit, Goto, NoEnd, Visit
  <2>3. /\ pc' \in [Threads -> RecvPCs \cup {"listen", "count", "collect"}]
        /\ mine' \in [Threads -> Nodes]
        /\ Places'
    BY <2>1, <2>2, <1>0, Walking DEF RecvPCs
  <2>4. refs' \in [Ends -> Nat] /\ broken' \in BOOLEAN
    BY <2>1, <2>2, DropTypes
  <2> QED
    BY <2>2, <2>3, <2>4 DEF TypeOK, Drop, links
<1>15. CASE Collect
  <2>1. PICK e \in InList : RemoveEntryList(e) /\ chain' = chain \cup {e} /\ Claim({e})
    BY <1>15 DEF Collect
  <2>2. e \in Ends /\ chain' \subseteq Ends /\ owed' \subseteq Ends /\ twice' \in BOOLEAN
    BY <1>0, <2>1, ListIsOfEnds DEF Claim, TypeOK
  <2>3. flink' \in [Nodes -> Nodes] /\ blink' \in [Nodes -> Nodes]
    BY <2>1, <2>2, CutTypes
  <2> QED
    BY <1>15, <2>2, <2>3 DEF Collect, TypeOK, ends, Places
<1>16. CASE Disconnect
  <2>1. PICK e \in chain : mine' = [mine EXCEPT ![Timer] = e] /\ chain' = chain \ {e}
    BY <1>16 DEF Disconnect
  <2>2. e \in Ends /\ e \in Nodes /\ chain' \subseteq Ends
        /\ pc' = [pc EXCEPT ![Timer] = "unlink"] /\ UNCHANGED <<links, ends, next, hist>>
    BY <1>0, <1>16, <2>1 DEF Disconnect, Goto
  <2>3. /\ pc' \in [Threads -> RecvPCs \cup {"listen", "count", "collect"}]
        /\ mine' \in [Threads -> Nodes]
        /\ Places'
    BY <2>1, <2>2, <1>0, Walking DEF RecvPCs
  <2> QED
    BY <2>2, <2>3 DEF TypeOK, links, ends, hist
<1>17. CASE Destroy
  BY <1>17 DEF Destroy, TypeOK, Places, links, ends, hist
<1>18. CASE Post
  <2>1. PICK r \in Recv : \/ pc' = [pc EXCEPT ![Starter] = "count", ![r] = "posted"]
                          \/ Goto(r, "done")
    BY <1>18 DEF Post
  <2>2. UNCHANGED <<links, ends, mine, next, chain, hist>>
    BY <1>18 DEF Post
  <2>3. next' \in [Threads -> Nodes]
    BY <1>0, <2>2
  <2> QED
    BY <1>1, <1>2, <2>1, <2>2, <2>3 DEF RecvPCs
<1>19. ASSUME NEW r \in Recv, OnDisconnect(r) \/ OnPing(r) PROVE TypeOK' /\ Places'
  BY <1>6, <1>19 DEF OnDisconnect, OnPing
<1> QED
  BY <1>1, <1>3, <1>4, <1>5, <1>18, <1>19, <1>7, <1>8, <1>9, <1>10, <1>11, <1>12, <1>13, <1>14,
     <1>15, <1>16, <1>17
  DEF Next, Start, Remove, Stop

-----------------------------------------------------------------------------
\* The links.  Steps that change neither them nor what Stop works on.
SameStops ==
    \A r \in Recv : /\ (pc'[r] = "first") <=> (pc[r] = "first")
                    /\ Walks(r)' <=> Walks(r)
                    /\ Walks(r) => next'[r] = next[r]
                    /\ Waits(r)' => Waits(r)

LEMMA StoppingSame == SameStops => \A r \in Recv : Stopping(r)' <=> Stopping(r)
BY DEF SameStops, Stopping, Walks

LEMMA LinksFrame ==
    ASSUME TypeOK, UNCHANGED <<flink, blink, owed, fresh>>, SameStops, Links
    PROVE  Links'
<1>1. HeadsWait'
  BY DEF Links, HeadsWait, SameStops, Loose
<1>2. TwoWay'
  BY DEF Links, TwoWay
<1>3. Around'
  <2>1. \A e \in owed : Before(e) => Before(e)'
    BY DEF SameStops, Before
  <2> QED
    BY <2>1 DEF Links, Around, SameStops
<1>4. Lists'
  <2>1. PICK home \in [Nodes -> Heads], rank \in [Ends -> Nat] : Homes(home) /\ Ranks(rank)
    BY DEF Links, Lists
  <2>2. Homes(home)'
    <3>1. \A e \in owed : home[e] = List \/ Stopping(home[e])'
      <4>1. \A e \in owed : home[e] \in Heads
        BY Constants DEF TypeOK
      <4> QED
        BY <2>1, <4>1, StoppingSame DEF Homes, Heads
    <3> QED
      BY <2>1, <3>1 DEF Homes, SameStops
  <2>3. Ranks(rank)'
    BY <2>1 DEF Ranks
  <2> QED
    BY <2>1, <2>2, <2>3 DEF Lists
<1> QED
  BY <1>1, <1>2, <1>3, <1>4 DEF Links

\* An endpoint that nobody claimed is taken out of its list, wherever it is.
LEMMA CutPlaces ==
    ASSUME TypeOK, Links, NEW e \in owed, RemoveEntryList(e)
    PROVE  /\ flink[e] \in Nodes /\ flink[e] # e /\ blink[flink[e]] = e
           /\ blink[e] \in Nodes /\ blink[e] # e /\ flink[blink[e]] = e
           /\ \A n \in Nodes : flink'[n] = IF n = e THEN e
                                           ELSE IF n = blink[e] THEN flink[e] ELSE flink[n]
           /\ \A n \in Nodes : blink'[n] = IF n = e THEN e
                                           ELSE IF n = flink[e] THEN blink[e] ELSE blink[n]
           /\ \A n \in Nodes : flink[n] = e => n = blink[e]
           /\ \A n \in Nodes \ Recv : blink[n] = e => n = flink[e]
<1>1. e \in Ends /\ e \in Nodes /\ e \notin Recv /\ e \notin Heads
  BY Constants DEF TypeOK, Heads
<1>2. flink[e] \in Nodes /\ blink[e] \in Nodes
  BY <1>1 DEF TypeOK
<1>3. flink[e] # e
  <2>1. PICK rank \in [Ends -> Nat] : Ranks(rank)
    BY DEF Links, Lists
  <2>2. flink[e] \in Ends => rank[e] < rank[flink[e]] /\ rank[e] \in Nat
    BY <1>1, <2>1 DEF Ranks
  <2> QED
    BY <1>1, <2>2
<1>4. blink[flink[e]] = e /\ flink[blink[e]] = e
  BY <1>1 DEF Links, TwoWay
<1>5. /\ flink' = [flink EXCEPT ![blink[e]] = flink[e], ![e] = e]
      /\ blink' = [blink EXCEPT ![flink[e]] = blink[e], ![e] = e]
  BY DEF RemoveEntryList, SetLinks, Cut, links
<1>6. \A n \in Nodes : flink[n] = e => n = blink[e]
  BY <1>1, <1>3 DEF Links, TwoWay
<1>7. \A n \in Nodes \ Recv : blink[n] = e => n = flink[e]
  BY DEF Links, TwoWay
<1>8. /\ \A n \in Nodes : flink'[n] = IF n = e THEN e
                                      ELSE IF n = blink[e] THEN flink[e] ELSE flink[n]
      /\ \A n \in Nodes : blink'[n] = IF n = e THEN e
                                      ELSE IF n = flink[e] THEN blink[e] ELSE blink[n]
  BY <1>1, <1>2, <1>5 DEF TypeOK
<1> QED
  BY <1>2, <1>3, <1>4, <1>6, <1>7, <1>8

LEMMA CutLinks ==
    ASSUME TypeOK, Links, NEW e \in owed, RemoveEntryList(e), owed' = owed \ {e},
           fresh' = fresh, SameStops, \A r \in Recv : ~ByNext(r, e)
    PROVE  /\ Links'
           /\ Loose(e)' /\ \A c \in Ends : Loose(c) => Loose(c)'
<1> DEFINE f == flink[e]
           b == blink[e]
<1>1. e \in Ends /\ e \in Nodes /\ e \notin Recv /\ e # List
  BY Constants DEF TypeOK
<1>2. /\ f \in Nodes /\ f # e /\ blink[f] = e
      /\ b \in Nodes /\ b # e /\ flink[b] = e
      /\ \A n \in Nodes : flink'[n] = IF n = e THEN e ELSE IF n = b THEN f ELSE flink[n]
      /\ \A n \in Nodes : blink'[n] = IF n = e THEN e ELSE IF n = f THEN b ELSE blink[n]
      /\ \A n \in Nodes : flink[n] = e => n = b
      /\ \A n \in Nodes \ Recv : blink[n] = e => n = f
  BY CutPlaces
<1>3. \A n \in Nodes : flink[n] \in Nodes /\ blink[n] \in Nodes
  BY DEF TypeOK
<1> HIDE DEF f, b
<1>4. f \in owed \cup Heads /\ Before(e) /\ owed \subseteq Nodes /\ owed \subseteq Ends
  <2>1. f \in owed \cup Heads /\ Before(e)
    BY DEF f, Links, Around
  <2> QED
    BY <2>1, Constants DEF TypeOK
<1>5. Loose(e)' /\ \A c \in Nodes : Loose(c) => Loose(c)'
  <2>1. Loose(e)'
    BY <1>1, <1>2 DEF Loose
  <2>2. ASSUME NEW c \in Nodes, Loose(c), c # e PROVE Loose(c)'
    <3>1. c # b /\ c # f
      BY <1>2, <2>2 DEF Loose
    <3> QED
      BY <1>2, <2>2, <3>1 DEF Loose
  <2> QED
    BY <2>1, <2>2
<1>6. HeadsWait'
  BY <1>5, Constants DEF Links, HeadsWait, SameStops
<1>7. TwoWay'
  <2>1. ASSUME NEW n \in Nodes, n \in Recv => flink'[n] # n PROVE blink'[flink'[n]] = n
    <3>1. CASE n = e \/ n = b
      BY <1>1, <1>2, <3>1
    <3>2. CASE n # e /\ n # b
      <4>1. flink'[n] = flink[n] /\ blink[flink[n]] = n
        BY <1>2, <2>1, <3>2 DEF Links, TwoWay
      <4>2. flink[n] # e /\ flink[n] # f
        BY <1>2, <3>2, <4>1
      <4> QED
        BY <1>2, <1>3, <4>1, <4>2
    <3> QED
      BY <3>1, <3>2
  <2>2. ASSUME NEW n \in Nodes \ Recv PROVE flink'[blink'[n]] = n
    <3>1. CASE n = e \/ n = f
      BY <1>1, <1>2, <3>1
    <3>2. CASE n # e /\ n # f
      <4>1. blink'[n] = blink[n] /\ flink[blink[n]] = n
        BY <1>2, <3>2 DEF Links, TwoWay
      <4>2. blink[n] # e /\ blink[n] # b
        BY <1>2, <3>2, <4>1
      <4> QED
        BY <1>2, <1>3, <4>1, <4>2
    <3> QED
      BY <3>1, <3>2
  <2> QED
    BY <2>1, <2>2 DEF TwoWay
<1>8. Around'
  <2>1. ASSUME NEW d \in owed' PROVE flink'[d] \in owed' \cup Heads /\ Before(d)'
    <3>1. d \in owed /\ d # e /\ d \in Nodes /\ d \notin Recv /\ d # List
      BY <1>4, Constants
    <3>2. flink[d] \in owed \cup Heads /\ Before(d)
      BY <3>1 DEF Links, Around
    <3>3. flink'[d] \in owed' \cup Heads
      BY <1>2, <1>4, <3>1, <3>2
    <3>4. Before(d)'
      <4>1. CASE d = f
        <5>1. blink'[d] = b
          BY <1>2, <3>1, <4>1
        <5>2. \/ b \in owed' \cup {List}
              \/ \E r \in Recv : pc[r] = "first" /\ b = r
              \/ \E r \in Recv : Walks(r) /\ next[r] # r /\ b = next[r]
          BY <1>2, <1>4 DEF Before, b
        <5> QED
          BY <5>1, <5>2 DEF Before, SameStops
      <4>2. CASE d # f
        <5>1. blink'[d] = blink[d] /\ blink[d] # e
          BY <1>2, <3>1, <4>2
        <5> QED
          BY <3>2, <5>1 DEF Before, SameStops
      <4> QED
        BY <4>1, <4>2
    <3> QED
      BY <3>3, <3>4
  <2>2. PICK home \in [Nodes -> Heads] : Homes(home)
    BY DEF Links, Lists
  <2>3. home[f] = home[e] /\ home[b] = home[e] /\ (\A h \in Heads : home[h] = h) /\ Heads \subseteq Nodes
    BY <1>1, <1>2, <2>2, Constants DEF Homes, f, Heads
  <2>4. ASSUME NEW n \in Nodes, NEW h \in Heads, home[n] = h, n # e, flink[n] \in owed \cup {h}
        PROVE  flink'[n] \in owed' \cup {h}
    <3>1. CASE n = b
      <4>1. flink'[n] = f
        BY <1>2, <2>4, <3>1
      <4>2. home[f] = h
        BY <2>3, <2>4, <3>1
      <4> QED
        BY <1>2, <1>4, <2>3, <4>1, <4>2
    <3>2. CASE n # b
      BY <1>2, <2>4, <3>2
    <3> QED
      BY <3>1, <3>2
  <2>5. flink'[List] \in owed' \cup {List}
    <3>1. List \in Heads /\ List \in Nodes /\ List # e /\ flink[List] \in owed \cup {List}
      BY <1>1, Constants DEF Links, Around, Heads
    <3> QED
      BY <2>3, <2>4, <3>1
  <2>6. ASSUME NEW r \in Recv, pc'[r] = "first" PROVE flink'[r] \in owed' \cup {r}
    <3>1. r \in Heads /\ r \in Nodes /\ r # e
      BY <1>1, Constants DEF Heads
    <3>2. flink[r] \in owed \cup {r}
      BY <2>6 DEF Links, Around, SameStops
    <3> QED
      BY <2>3, <2>4, <3>1, <3>2
  <2>7. ASSUME NEW r \in Recv, Walks(r)', next'[r] # r
        PROVE  next'[r] \in Ends /\ flink'[next'[r]] \in owed' \cup {r}
    <3>1. Walks(r) /\ next'[r] = next[r] /\ r \in Heads
      BY <2>7 DEF SameStops, Heads
    <3>2. next[r] \in Ends /\ next[r] \in Nodes /\ flink[next[r]] \in owed \cup {r}
      BY <2>7, <3>1, Constants DEF Links, Around
    <3>3. home[next[r]] = r
      BY <2>2, <3>1 DEF Homes
    <3>4. next[r] # e
      BY <3>1 DEF ByNext
    <3> QED
      BY <2>4, <3>1, <3>2, <3>3, <3>4
  <2> QED
    BY <2>1, <2>5, <2>6, <2>7 DEF Around
<1>9. Lists'
  <2>1. PICK home \in [Nodes -> Heads], rank \in [Ends -> Nat] : Homes(home) /\ Ranks(rank)
    BY DEF Links, Lists
  <2>2. Homes(home)'
    <3>1. home[f] = home[e] /\ home[b] = home[e]
      BY <1>1, <1>2, <2>1 DEF Homes, f
    <3>2. \A n \in Nodes : home[flink'[n]] = home[n]
      BY <1>2, <2>1, <3>1 DEF Homes
    <3>3. \A d \in owed : home[d] = List \/ Stopping(home[d])'
      <4>1. \A d \in owed : home[d] \in Heads
        BY <1>4
      <4> QED
        BY <2>1, <4>1, StoppingSame DEF Homes, Heads
    <3> QED
      BY <2>1, <3>2, <3>3 DEF Homes, SameStops
  <2>3. Ranks(rank)'
    <3>1. ASSUME NEW d \in owed', flink'[d] \in Ends PROVE rank[d] < rank[flink'[d]]
      <4>1. d \in owed /\ d # e /\ d \in Ends /\ d \in Nodes
        BY <1>4
      <4>2. CASE d = b
        <5>1. flink'[d] = f /\ flink[d] = e
          BY <1>2, <4>1, <4>2
        <5>2. rank[d] < rank[e] /\ rank[e] < rank[f]
          BY <1>1, <2>1, <3>1, <4>1, <5>1 DEF Ranks, f
        <5>3. rank[d] \in Nat /\ rank[e] \in Nat /\ rank[f] \in Nat
          BY <1>1, <2>1, <3>1, <4>1, <5>1
        <5> QED
          BY <5>1, <5>2, <5>3
      <4>3. CASE d # b
        BY <1>2, <2>1, <3>1, <4>1, <4>3 DEF Ranks
      <4> QED
        BY <4>2, <4>3
    <3> QED
      BY <2>1, <3>1 DEF Ranks
  <2> QED
    BY <2>1, <2>2, <2>3 DEF Lists
<1> QED
  BY <1>5, <1>6, <1>7, <1>8, <1>9, Constants DEF Links

\* What a walk under the lock meets was not claimed.
LEMMA InListIsOwed ==
    ASSUME TypeOK, Links PROVE InList \subseteq owed
<1>1. PICK home \in [Nodes -> Heads] : Homes(home)
  BY DEF Links, Lists
<1> DEFINE S == {List} \cup {e \in owed : home[e] = List}
<1>2. S \in SUBSET Nodes /\ List \in S
  BY Constants DEF TypeOK
<1>3. ASSUME NEW n \in S PROVE flink[n] \in S
  <2>1. home[n] = List /\ n \in Nodes
    BY <1>1, <1>2 DEF Homes, Heads
  <2>2. home[flink[n]] = List
    BY <1>1, <2>1 DEF Homes
  <2>3. flink[n] \in owed \cup Heads
    BY DEF Links, Around, Heads
  <2>4. flink[n] \in Heads => flink[n] = List
    BY <1>1, <2>2 DEF Homes
  <2> QED
    BY <2>2, <2>3, <2>4
<1>4. ASSUME NEW e \in InList PROVE e \in owed
  <2>1. e \in Ends /\ e \in S
    BY <1>2, <1>3 DEF InList
  <2> QED
    BY <2>1, Constants
<1> QED
  BY <1>4

\* A new endpoint becomes the first of the server's list.
LEMMA InsertLinks ==
    ASSUME TypeOK, Links, NEW e \in fresh, Loose(e), fresh \cap owed = {},
           \A r \in Recv : ~ByNext(r, e), SameStops,
           InsertHeadList(e), fresh' = fresh \ {e}, owed' = owed \cup {e}
    PROVE  /\ Links'
           /\ \A c \in Ends \ {e} : Loose(c) /\ c \notin owed => Loose(c)'
<1> DEFINE f == flink[List]
<1>1. /\ e \in Ends /\ e \in Nodes /\ e \notin Recv /\ e # List /\ e \notin owed /\ e \notin Heads
      /\ owed \subseteq Ends /\ owed \subseteq Nodes /\ List \in Heads
  BY Constants DEF TypeOK, Heads
<1>2. f \in owed \cup {List} /\ f # e /\ f \in Nodes /\ f \notin Recv
  BY <1>1, Constants DEF Links, Around
<1>3. \A n \in Nodes : flink[n] \in Nodes /\ blink[n] \in Nodes
  BY DEF TypeOK
<1>4. blink[f] = List /\ flink[e] = e /\ blink[e] = e
  BY Constants DEF Links, TwoWay, Loose
<1>5. /\ \A n \in Nodes : flink[n] = e => n = e
      /\ \A n \in Nodes \ Recv : blink[n] = e => n = e
      /\ \A n \in Nodes : flink[n] = f => n = List
      /\ \A n \in Nodes \ Recv : blink[n] = List => n = f
  BY <1>1, <1>2, <1>4 DEF Links, TwoWay
<1>6. /\ flink' = [flink EXCEPT ![e] = f, ![List] = e]
      /\ blink' = [blink EXCEPT ![e] = List, ![f] = e]
  BY DEF InsertHeadList, SetLinks
<1>7. /\ \A n \in Nodes : flink'[n] = IF n = e THEN f ELSE IF n = List THEN e ELSE flink[n]
      /\ \A n \in Nodes : blink'[n] = IF n = e THEN List ELSE IF n = f THEN e ELSE blink[n]
  BY <1>1, <1>2, <1>6, Constants DEF TypeOK
<1> HIDE DEF f
<1>8. ASSUME NEW c \in Ends \ {e}, Loose(c), c \notin owed PROVE Loose(c)'
  <2>1. c \in Nodes /\ c # List /\ c # f
    BY <1>2, <1>8, Constants
  <2> QED
    BY <1>7, <1>8, <2>1 DEF Loose
<1>9. HeadsWait'
  <2>1. ASSUME NEW r \in Recv, Waits(r)' PROVE Loose(r)'
    <3>1. r \in Nodes /\ r # e /\ r # List /\ r # f /\ Loose(r)
      BY <1>1, <1>2, <2>1, Constants DEF SameStops, Links, HeadsWait
    <3> QED
      BY <1>7, <3>1 DEF Loose
  <2> QED
    BY <2>1 DEF HeadsWait
<1>10. TwoWay'
  <2>1. ASSUME NEW n \in Nodes, n \in Recv => flink'[n] # n PROVE blink'[flink'[n]] = n
    <3>1. CASE n = e \/ n = List
      BY <1>1, <1>2, <1>7, <3>1
    <3>2. CASE n # e /\ n # List
      <4>1. flink'[n] = flink[n] /\ blink[flink[n]] = n
        BY <1>7, <2>1, <3>2 DEF Links, TwoWay
      <4> QED
        BY <1>3, <1>5, <1>7, <3>2, <4>1
    <3> QED
      BY <3>1, <3>2
  <2>2. ASSUME NEW n \in Nodes \ Recv PROVE flink'[blink'[n]] = n
    <3>1. CASE n = e \/ n = f
      BY <1>1, <1>2, <1>7, <3>1, Constants
    <3>2. CASE n # e /\ n # f
      <4>1. blink'[n] = blink[n] /\ flink[blink[n]] = n
        BY <1>7, <3>2 DEF Links, TwoWay
      <4> QED
        BY <1>3, <1>5, <1>7, <3>2, <4>1
    <3> QED
      BY <3>1, <3>2
  <2> QED
    BY <2>1, <2>2 DEF TwoWay
<1>11. Around'
  <2>1. ASSUME NEW d \in owed' PROVE flink'[d] \in owed' \cup Heads /\ Before(d)'
    <3>1. CASE d = e
      BY <1>1, <1>2, <1>7, <3>1 DEF Before
    <3>2. CASE d # e
      <4>1. d \in owed /\ d \in Nodes /\ d # List /\ flink'[d] = flink[d]
        BY <1>1, <1>7, <3>2, Constants
      <4>2. flink[d] \in owed \cup Heads /\ Before(d)
        BY <4>1 DEF Links, Around
      <4>3. Before(d)'
        <5>1. CASE d = f
          BY <1>1, <1>7, <4>1, <5>1 DEF Before
        <5>2. CASE d # f
          BY <1>7, <3>2, <4>1, <4>2, <5>2 DEF Before, SameStops
        <5> QED
          BY <5>1, <5>2
      <4> QED
        BY <4>1, <4>2, <4>3
    <3> QED
      BY <3>1, <3>2
  <2>2. flink'[List] = e
    BY <1>1, <1>7, Constants
  <2>3. ASSUME NEW r \in Recv, pc'[r] = "first" PROVE flink'[r] \in owed' \cup {r}
    <3>1. pc[r] = "first" /\ r \in Nodes /\ r # e /\ r # List
      BY <1>1, <2>3, Constants DEF SameStops
    <3> QED
      BY <1>7, <3>1 DEF Links, Around
  <2>4. ASSUME NEW r \in Recv, Walks(r)', next'[r] # r
        PROVE  next'[r] \in Ends /\ flink'[next'[r]] \in owed' \cup {r}
    <3>1. Walks(r) /\ next'[r] = next[r] /\ next[r] # e
      BY <2>4 DEF SameStops, ByNext
    <3>2. next[r] \in Ends /\ flink[next[r]] \in owed \cup {r}
      BY <2>4, <3>1 DEF Links, Around
    <3>3. next[r] \in Nodes /\ next[r] # List
      BY <3>2, Constants
    <3> QED
      BY <1>7, <3>1, <3>2, <3>3
  <2> QED
    BY <2>1, <2>2, <2>3, <2>4 DEF Around
<1>12. Lists'
  <2>1. PICK home \in [Nodes -> Heads], rank \in [Ends -> Nat] : Homes(home) /\ Ranks(rank)
    BY DEF Links, Lists
  <2>2. IsFiniteSet(fresh) /\ Cardinality(fresh') \in Nat /\ Cardinality(fresh) \in Nat
        /\ Cardinality(fresh') < Cardinality(fresh)
    <3>1. IsFiniteSet(fresh)
      BY Constants, FS_Subset DEF TypeOK
    <3>2. IsFiniteSet(fresh') /\ Cardinality(fresh') = Cardinality(fresh) - 1
      BY <3>1, FS_RemoveElement
    <3> QED
      BY <3>1, <3>2, FS_CardinalityType
  <2>3. PICK k \in Nat : k = Cardinality(fresh')
    BY <2>2
  <2> DEFINE home2 == [home EXCEPT ![e] = List]
             rank2 == [rank EXCEPT ![e] = k]
  <2>4. /\ home2 \in [Nodes -> Heads] /\ home2[e] = List
        /\ \A n \in Nodes \ {e} : home2[n] = home[n]
        /\ rank2 \in [Ends -> Nat] /\ rank2[e] = k
        /\ \A d \in Ends \ {e} : rank2[d] = rank[d]
    BY <1>1
  <2> HIDE DEF home2, rank2
  <2>5. Homes(home2)'
    <3>1. \A h \in Heads : home2[h] = h
      BY <1>1, <2>1, <2>4, Constants DEF Homes, Heads
    <3>2. home[f] = List
      BY <1>1, <2>1, Constants DEF Homes, f
    <3>3. ASSUME NEW n \in Nodes PROVE home2[flink'[n]] = home2[n]
      <4>1. CASE n = e
        BY <1>2, <1>7, <2>4, <3>2, <4>1
      <4>2. CASE n = List
        BY <1>1, <1>7, <2>4, <3>1, <4>2
      <4>3. CASE n # e /\ n # List
        <5>1. flink'[n] = flink[n] /\ flink[n] # e /\ flink[n] \in Nodes
          BY <1>3, <1>5, <1>7, <4>3
        <5> QED
          BY <2>1, <2>4, <4>3, <5>1 DEF Homes
      <4> QED
        BY <4>1, <4>2, <4>3
    <3>4. ASSUME NEW d \in owed' PROVE home2[d] = List \/ Stopping(home2[d])'
      <4>1. CASE d = e
        BY <2>4, <4>1
      <4>2. CASE d # e
        <5>1. d \in owed /\ home2[d] = home[d] /\ home[d] \in Heads
          BY <1>1, <2>4, <4>2
        <5> QED
          BY <2>1, <5>1, StoppingSame DEF Homes, Heads
      <4> QED
        BY <4>1, <4>2
    <3>5. ASSUME NEW r \in Recv, Walks(r)' PROVE home2[next'[r]] = r
      <4>1. Walks(r) /\ next'[r] = next[r] /\ next[r] # e /\ next[r] \in Nodes
        BY <3>5, Constants DEF SameStops, ByNext, TypeOK
      <4> QED
        BY <2>1, <2>4, <4>1 DEF Homes
    <3> QED
      BY <2>4, <3>1, <3>3, <3>4, <3>5 DEF Homes
  <2>6. Ranks(rank2)'
    <3>1. ASSUME NEW d \in owed', flink'[d] \in Ends PROVE rank2[d] < rank2[flink'[d]]
      <4>1. CASE d = e
        <5>1. flink'[d] = f /\ f \in Ends \ fresh /\ f # e
          BY <1>1, <1>2, <1>7, <3>1, <4>1, Constants
        <5>2. Cardinality(fresh) <= rank[f] /\ rank[f] \in Nat
          BY <2>1, <5>1 DEF Ranks
        <5>3. rank2[d] = k /\ rank2[f] = rank[f]
          BY <2>4, <4>1, <5>1
        <5> QED
          BY <2>2, <2>3, <5>1, <5>2, <5>3
      <4>2. CASE d # e
        <5>1. d \in owed /\ d \in Ends /\ d \in Nodes /\ d # List
          BY <1>1, <4>2, Constants
        <5>2. flink'[d] = flink[d] /\ flink[d] # e
          BY <1>5, <1>7, <4>2, <5>1
        <5> QED
          BY <2>1, <2>4, <3>1, <4>2, <5>1, <5>2 DEF Ranks
      <4> QED
        BY <4>1, <4>2
    <3>2. ASSUME NEW d \in Ends \ fresh' PROVE Cardinality(fresh') <= rank2[d]
      <4>1. CASE d = e
        BY <2>2, <2>3, <2>4, <4>1
      <4>2. CASE d # e
        <5>1. d \in Ends \ fresh
          BY <4>2
        <5>2. Cardinality(fresh) <= rank[d] /\ rank[d] \in Nat
          BY <2>1, <5>1 DEF Ranks
        <5>3. rank2[d] = rank[d]
          BY <2>4, <4>2
        <5> QED
          BY <2>2, <2>3, <5>2, <5>3
      <4> QED
        BY <4>1, <4>2
    <3> QED
      BY <2>4, <3>1, <3>2 DEF Ranks
  <2> QED
    BY <2>4, <2>5, <2>6 DEF Lists
<1> QED
  BY <1>8, <1>9, <1>10, <1>11, <1>12 DEF Links

\* Stop takes the list over: behind its local head is now what was behind the
\* server's, and the server's list is empty.
LEMMA TakePlaces ==
    ASSUME TypeOK, Links, NEW h \in Recv, Loose(h), TakeList(h)
    PROVE  \/ /\ flink[List] = List
              /\ \A n \in Nodes : flink'[n] = flink[n] /\ (n # h => blink'[n] = blink[n])
           \/ /\ flink[List] \in owed /\ blink[flink[List]] = List
              /\ blink[List] \in Ends /\ flink[blink[List]] = List
              /\ \A n \in Nodes : flink'[n] = IF n = List THEN List ELSE IF n = blink[List] THEN h
                                              ELSE IF n = h THEN flink[List] ELSE flink[n]
              /\ \A n \in Nodes : blink'[n] = IF n = List THEN List ELSE IF n = flink[List] THEN h
                                              ELSE IF n = h THEN blink[List] ELSE blink[n]
<1> DEFINE F == flink[List]
           L == blink[List]
           b == [blink EXCEPT ![h] = L, ![F] = h]
           f == [[flink EXCEPT ![h] = F] EXCEPT ![b[List]] = h]
<1>1. /\ h \in Nodes /\ h # List /\ List \in Nodes /\ h \notin Ends /\ List \notin Recv
      /\ F \in Nodes /\ L \in Nodes
  BY Constants DEF TypeOK
<1>2. flink' = [f EXCEPT ![List] = List] /\ blink' = [b EXCEPT ![List] = List]
  BY DEF TakeList, SetLinks
<1>3. b \in [Nodes -> Nodes] /\ \A n \in Nodes : b[n] = IF n = F THEN h ELSE IF n = h THEN L ELSE blink[n]
  BY <1>1 DEF TypeOK
<1>4. F \in owed \cup {List} /\ blink[F] = List /\ flink[L] = List /\ F # h /\ owed \subseteq Ends
  BY <1>1 DEF Links, Around, TwoWay, TypeOK
<1>5. flink[h] = h /\ blink[h] = h
  BY DEF Loose
<1> HIDE DEF b
<1>6. b[List] \in Nodes
  BY <1>1, <1>3
<1>7. \A n \in Nodes : f[n] = IF n = b[List] THEN h ELSE IF n = h THEN F ELSE flink[n]
  BY <1>1, <1>3, <1>6 DEF TypeOK
<1>8. f \in [Nodes -> Nodes]
  BY <1>1, <1>3, <1>6 DEF TypeOK
<1> HIDE DEF f
<1>9. /\ \A n \in Nodes : flink'[n] = IF n = List THEN List ELSE IF n = b[List] THEN h
                                      ELSE IF n = h THEN F ELSE flink[n]
      /\ \A n \in Nodes : blink'[n] = IF n = List THEN List ELSE IF n = F THEN h
                                      ELSE IF n = h THEN L ELSE blink[n]
  BY <1>1, <1>2, <1>3, <1>7, <1>8
<1>10. CASE F = List
  <2>1. L = List /\ b[List] = h
    BY <1>1, <1>3, <1>4, <1>10
  <2> QED
    BY <1>1, <1>5, <1>9, <1>10, <2>1
<1>11. CASE F # List
  <2>1. b[List] = L /\ F \in owed /\ L # List /\ L # h
    BY <1>1, <1>3, <1>4, <1>5, <1>11
  <2>2. L \in Ends
    <3>1. PICK home \in [Nodes -> Heads] : Homes(home)
      BY DEF Links, Lists
    <3>2. home[L] = List
      BY <1>1, <1>4, <3>1 DEF Homes, Heads
    <3>3. L \notin Recv
      BY <2>1, <3>1, <3>2 DEF Homes, Heads
    <3> QED
      BY <1>1, <2>1, <3>3 DEF Nodes
  <2> QED
    BY <1>4, <1>9, <2>1, <2>2
<1> QED
  BY <1>10, <1>11

LEMMA TakeLinks ==
    ASSUME TypeOK, Links, NEW h \in Recv, pc[h] = "take", pc' = [pc EXCEPT ![h] = "first"],
           TakeList(h), UNCHANGED <<owed, fresh, next>>
    PROVE  /\ Links'
           /\ \A c \in Ends \ owed : Loose(c) => Loose(c)'
<1>1. /\ h \in Nodes /\ h # List /\ List \in Nodes /\ h \notin Ends /\ List \notin Recv
      /\ h \in Heads /\ List \in Heads /\ owed \subseteq Ends /\ owed \subseteq Nodes
      /\ Ends \cap Heads = {}
  BY Constants DEF TypeOK, Heads
<1>2. /\ pc'[h] = "first" /\ ~Waits(h)' /\ ~Walks(h)' /\ ~Walks(h) /\ Loose(h)
      /\ \A r \in Recv \ {h} : pc'[r] = pc[r]
  BY Constants DEF TypeOK, Waits, Walks, Links, HeadsWait
<1>3. \A n \in Nodes : flink[n] \in Nodes /\ blink[n] \in Nodes
  BY DEF TypeOK
<1>4. \A r \in Heads : Stopping(r) => Stopping(r)'
  BY <1>2, Constants DEF Stopping, Heads, TypeOK
<1>5. flink[h] = h /\ blink[h] = h
  BY <1>2 DEF Loose
<1>6. PICK home \in [Nodes -> Heads], rank \in [Ends -> Nat] : Homes(home) /\ Ranks(rank)
  BY DEF Links, Lists
<1>7. CASE /\ flink[List] = List
           /\ \A n \in Nodes : flink'[n] = flink[n] /\ (n # h => blink'[n] = blink[n])
  <2>1. HeadsWait'
    BY <1>2, <1>7, Constants DEF Links, HeadsWait, Waits, Loose
  <2>2. TwoWay'
    <3>1. ASSUME NEW n \in Nodes, n \in Recv => flink'[n] # n PROVE blink'[flink'[n]] = n
      <4>1. n # h /\ flink'[n] = flink[n] /\ blink[flink[n]] = n
        BY <1>5, <1>7, <3>1 DEF Links, TwoWay
      <4> QED
        BY <1>3, <1>5, <1>7, <4>1
    <3>2. \A n \in Nodes \ Recv : flink'[blink'[n]] = n
      BY <1>3, <1>7 DEF Links, TwoWay
    <3> QED
      BY <3>1, <3>2 DEF TwoWay
  <2>3. Around'
    <3>1. ASSUME NEW e \in owed PROVE Before(e)'
      <4>1. Before(e) /\ blink'[e] = blink[e]
        BY <1>1, <1>7 DEF Links, Around
      <4> QED
        BY <1>2, <4>1 DEF Before, Walks
    <3>2. \A r \in Recv : pc'[r] = "first" => flink'[r] \in owed \cup {r}
      BY <1>2, <1>5, <1>7, Constants DEF Links, Around
    <3>3. \A r \in Recv : Walks(r)' /\ next'[r] # r
                            => next'[r] \in Ends /\ flink'[next'[r]] \in owed \cup {r}
      BY <1>2, <1>7, Constants DEF Links, Around, Walks
    <3> QED
      BY <1>1, <1>7, <3>1, <3>2, <3>3 DEF Links, Around
  <2>4. Lists'
    <3>1. Homes(home)'
      BY <1>1, <1>2, <1>4, <1>6, <1>7 DEF Homes, Walks
    <3>2. Ranks(rank)'
      BY <1>1, <1>6, <1>7, Constants DEF Ranks
    <3> QED
      BY <1>6, <3>1, <3>2 DEF Lists
  <2>5. \A c \in Ends : Loose(c) => Loose(c)'
    BY <1>1, <1>7, Constants DEF Loose
  <2> QED
    BY <2>1, <2>2, <2>3, <2>4, <2>5 DEF Links
<1> DEFINE F == flink[List]
           L == blink[List]
<1>8. CASE /\ F \in owed /\ blink[F] = List
           /\ L \in Ends /\ flink[L] = List
           /\ \A n \in Nodes : flink'[n] = IF n = List THEN List ELSE IF n = L THEN h
                                           ELSE IF n = h THEN F ELSE flink[n]
           /\ \A n \in Nodes : blink'[n] = IF n = List THEN List ELSE IF n = F THEN h
                                           ELSE IF n = h THEN L ELSE blink[n]
  <2>a. F \in Nodes /\ F \notin Recv /\ F # List /\ L \in Nodes /\ L \notin Recv /\ L # List
        /\ blink[L] = blink[L] /\ F = flink[List] /\ L = blink[List]
    BY <1>1, <1>8, Constants
  <2> HIDE DEF F, L
  <2>1. /\ \A n \in Nodes : flink[n] = F => n = List
        /\ \A n \in Nodes : flink[n] = List => n = L
        /\ \A n \in Nodes : flink[n] = h => n = h
        /\ \A n \in Nodes \ Recv : blink[n] = L => n = List
        /\ \A n \in Nodes \ Recv : blink[n] = List => n = F
        /\ \A n \in Nodes \ Recv : blink[n] # h
    <3>1. \A n \in Nodes : flink[n] = F => n = List
      BY <1>8, <2>a DEF Links, TwoWay
    <3>2. \A n \in Nodes : flink[n] = List => n = L
      BY <1>1, <2>a DEF Links, TwoWay
    <3>3. \A n \in Nodes : flink[n] = h => n = h
      BY <1>5 DEF Links, TwoWay
    <3>4. \A n \in Nodes \ Recv : /\ blink[n] = L => n = List
                                  /\ blink[n] = List => n = F
                                  /\ blink[n] # h
      BY <1>5, <1>8, <2>a DEF Links, TwoWay
    <3> QED
      BY <3>1, <3>2, <3>3, <3>4
  <2>2. ASSUME NEW c \in Nodes, c # h, Loose(c), c \notin owed, c # List PROVE Loose(c)'
    <3>1. c # L /\ c # F
      BY <1>8, <2>2 DEF Loose
    <3> QED
      BY <1>8, <2>2, <3>1 DEF Loose
  <2>3. HeadsWait'
    <3>1. ASSUME NEW r \in Recv, Waits(r)' PROVE Loose(r)'
      <4>1. r # h /\ Loose(r)
        BY <1>2, <3>1 DEF Links, HeadsWait, Waits
      <4> QED
        BY <1>1, <2>2, <4>1, Constants
    <3> QED
      BY <3>1 DEF HeadsWait
  <2>4. TwoWay'
    <3>1. ASSUME NEW n \in Nodes, n \in Recv => flink'[n] # n PROVE blink'[flink'[n]] = n
      <4>1. CASE n = List \/ n = L \/ n = h
        BY <1>1, <1>8, <2>a, <4>1
      <4>2. CASE n # List /\ n # L /\ n # h
        <5>1. flink'[n] = flink[n] /\ blink[flink[n]] = n
          BY <1>8, <3>1, <4>2 DEF Links, TwoWay
        <5> QED
          BY <1>3, <1>8, <2>1, <4>2, <5>1
      <4> QED
        BY <4>1, <4>2
    <3>2. ASSUME NEW n \in Nodes \ Recv PROVE flink'[blink'[n]] = n
      <4>1. CASE n = List \/ n = F
        BY <1>1, <1>8, <2>a, <4>1
      <4>2. CASE n # List /\ n # F
        <5>1. blink'[n] = blink[n] /\ flink[blink[n]] = n
          BY <1>8, <4>2 DEF Links, TwoWay
        <5> QED
          BY <1>3, <1>8, <2>1, <4>2, <5>1
      <4> QED
        BY <4>1, <4>2
    <3> QED
      BY <3>1, <3>2 DEF TwoWay
  <2>5. home[L] = List /\ home[F] = List /\ (\A r \in Heads : home[r] = r)
        /\ \A n \in Nodes : home[flink[n]] = home[n]
    BY <1>1, <1>6, <1>8, <2>a DEF Homes
  <2>6. Around'
    <3>1. ASSUME NEW d \in owed PROVE flink'[d] \in owed \cup Heads /\ Before(d)'
      <4>1. flink[d] \in owed \cup Heads /\ Before(d) /\ d \in Nodes /\ d # List /\ d # h
        BY <1>1 DEF Links, Around
      <4>2. flink'[d] \in owed \cup Heads
        BY <1>1, <1>8, <4>1
      <4>3. CASE d = F
        <5>1. blink'[d] = h
          BY <1>8, <4>1, <4>3
        <5> QED
          BY <1>2, <4>2, <5>1 DEF Before
      <4>4. CASE d # F
        <5>1. blink'[d] = blink[d]
          BY <1>8, <4>1, <4>4
        <5>2. Before(d)'
          BY <1>2, <4>1, <5>1 DEF Before, Walks
        <5> QED
          BY <4>2, <5>2
      <4> QED
        BY <4>3, <4>4
    <3>2. flink'[List] = List
      BY <1>1, <1>8
    <3>3. ASSUME NEW r \in Recv, pc'[r] = "first" PROVE flink'[r] \in owed \cup {r}
      <4>1. CASE r = h
        BY <1>1, <1>8, <2>a, <4>1
      <4>2. CASE r # h
        <5>1. r \in Nodes /\ r # List /\ r # L
          BY <1>1, <2>a, Constants
        <5> QED
          BY <1>2, <1>8, <3>3, <4>2, <5>1 DEF Links, Around
      <4> QED
        BY <4>1, <4>2
    <3>4. ASSUME NEW r \in Recv, Walks(r)', next'[r] # r
          PROVE  next'[r] \in Ends /\ flink'[next'[r]] \in owed \cup {r}
      <4>1. r # h /\ Walks(r) /\ next'[r] = next[r]
        BY <1>2, <3>4 DEF Walks
      <4>2. next[r] \in Ends /\ flink[next[r]] \in owed \cup {r} /\ home[next[r]] = r
        BY <1>6, <3>4, <4>1 DEF Links, Around, Homes
      <4>3. next[r] \in Nodes /\ next[r] # List /\ next[r] # h /\ next[r] # L
        BY <1>1, <2>5, <4>2, Constants
      <4> QED
        BY <1>8, <4>1, <4>2, <4>3
    <3> QED
      BY <3>1, <3>2, <3>3, <3>4 DEF Around
  <2>7. Lists'
    <3> DEFINE home2 == [n \in Nodes |-> IF home[n] = List /\ n # List THEN h ELSE home[n]]
    <3>1. home2 \in [Nodes -> Heads]
      BY <1>1
    <3>2. \A n \in Nodes : home2[n] = IF home[n] = List /\ n # List THEN h ELSE home[n]
      OBVIOUS
    <3> HIDE DEF home2
    <3>3. \A r \in Heads : home2[r] = r
      BY <2>5, <3>2, Constants DEF Heads
    <3>4. ASSUME NEW n \in Nodes PROVE home2[flink'[n]] = home2[n]
      <4>1. CASE n = h
        <5>1. flink'[n] = F /\ home2[F] = h
          BY <1>1, <1>8, <2>a, <2>5, <3>2, <4>1
        <5> QED
          BY <1>1, <3>3, <4>1, <5>1
      <4>2. CASE n = L
        <5>1. flink'[n] = h /\ home2[L] = h
          BY <1>8, <2>a, <2>5, <3>2, <4>2
        <5> QED
          BY <1>1, <3>3, <4>2, <5>1
      <4>3. CASE n = List
        BY <1>1, <1>8, <4>3
      <4>4. CASE n # h /\ n # L /\ n # List
        <5>1. flink'[n] = flink[n] /\ flink[n] # List /\ flink[n] \in Nodes
          BY <1>3, <1>8, <2>1, <4>4
        <5> QED
          BY <2>5, <3>2, <4>4, <5>1
      <4> QED
        BY <4>1, <4>2, <4>3, <4>4
    <3>5. ASSUME NEW e \in owed PROVE home2[e] = List \/ Stopping(home2[e])'
      <4>1. e \in Nodes /\ home[e] \in Heads /\ (home[e] = List \/ Stopping(home[e])) /\ e # List
        BY <1>1, <1>6 DEF Homes
      <4>2. Stopping(h)'
        BY <1>2 DEF Stopping
      <4> QED
        BY <1>4, <3>2, <4>1, <4>2
    <3>6. ASSUME NEW r \in Recv, Walks(r)' PROVE home2[next'[r]] = r
      <4>1. Walks(r) /\ next'[r] = next[r] /\ home[next[r]] = r /\ next[r] \in Nodes /\ r # List
        BY <1>2, <1>6, <3>6, Constants DEF Homes, Walks, TypeOK
      <4> QED
        BY <3>2, <4>1
    <3>7. Homes(home2)'
      BY <3>1, <3>3, <3>4, <3>5, <3>6 DEF Homes
    <3>8. Ranks(rank)'
      <4>1. ASSUME NEW d \in owed, flink'[d] \in Ends PROVE rank[d] < rank[flink'[d]]
        <5>1. d \in Nodes /\ d # List /\ d # h
          BY <1>1
        <5>2. flink'[d] = flink[d]
          BY <1>1, <1>8, <4>1, <5>1
        <5> QED
          BY <1>6, <4>1, <5>2 DEF Ranks
      <4> QED
        BY <1>6, <4>1 DEF Ranks
    <3> QED
      BY <1>6, <3>1, <3>7, <3>8 DEF Lists
  <2> QED
    BY <1>1, <2>2, <2>3, <2>4, <2>6, <2>7, Constants DEF Links
<1> QED
  BY <1>2, <1>7, <1>8, TakePlaces

\* Stop goes on to the next entry, and claims it: n is where it stands.
LEMMA AdvanceLinks ==
    ASSUME TypeOK, Links, NEW r \in Recv, NEW n \in Nodes,
           \/ pc[r] = "first" /\ n = r
           \/ Walks(r) /\ n = next[r] /\ n # r /\ n \notin owed,
           \A s \in Recv \ {r} : ~(Walks(s) /\ next[s] # s /\ next[s] = n),
           Walks(r)', \A s \in Recv \ {r} : pc'[s] = pc[s],
           next' = [next EXCEPT ![r] = flink[n]], owed' = owed \ ({flink[n]} \cap Ends),
           UNCHANGED <<flink, blink, fresh>>
    PROVE  Links' /\ flink[n] \in owed \cup {r}
<1> DEFINE m == flink[n]
<1>1. /\ owed \subseteq Ends /\ owed \subseteq Nodes /\ r \in Nodes /\ r \notin Ends /\ r \in Heads
      /\ r # List /\ List \notin Ends /\ Ends \cap Heads = {}
  BY Constants DEF TypeOK, Heads
<1>2. m \in owed \cup {r}
  BY DEF Links, Around
<1>3. /\ next'[r] = m /\ \A s \in Recv \ {r} : next'[s] = next[s]
      /\ owed' = owed \ {m} /\ pc'[r] # "first"
  BY <1>1, <1>2, Constants DEF TypeOK, Walks
<1>4. m \in owed => blink[m] = n
  BY <1>1 DEF Links, TwoWay
<1>5. PICK home \in [Nodes -> Heads], rank \in [Ends -> Nat] : Homes(home) /\ Ranks(rank)
  BY DEF Links, Lists
<1>6. home[n] = r /\ home[m] = r
  BY <1>1, <1>5 DEF Homes
<1>7. m \in owed => m \in Ends /\ flink[m] # m /\ flink[m] \in owed \cup {r}
  <2>1. ASSUME m \in owed PROVE flink[m] # m /\ flink[m] \in owed \cup {r}
    <3>1. flink[m] \in owed \cup Heads /\ m \in Ends /\ m \in Nodes
      BY <1>1, <2>1 DEF Links, Around
    <3>2. flink[m] # m
      <4>1. flink[m] \in Ends => rank[m] < rank[flink[m]] /\ rank[m] \in Nat
        BY <1>5, <2>1, <3>1 DEF Ranks
      <4> QED
        BY <3>1, <4>1
    <3>3. home[flink[m]] = r
      BY <1>5, <1>6, <3>1 DEF Homes
    <3> QED
      BY <1>5, <3>1, <3>2, <3>3 DEF Homes
  <2> QED
    BY <1>1, <2>1
<1> HIDE DEF m
<1>8. /\ \A s \in Recv \ {r} : Walks(s)' <=> Walks(s)
      /\ \A s \in Recv : Stopping(s)' <=> Stopping(s)
      /\ \A s \in Recv : Waits(s)' => Waits(s)
  BY DEF Walks, Stopping, Waits
<1>9. HeadsWait' /\ TwoWay'
  BY <1>8 DEF Links, HeadsWait, TwoWay, Loose
<1>10. Around'
  <2>1. \A d \in Nodes : flink[d] = m /\ m \in owed => d = n
    BY <1>1, <1>4, Constants DEF Links, TwoWay
  <2>2. ASSUME NEW d \in owed' PROVE flink[d] \in owed' \cup Heads /\ Before(d)'
    <3>1. d \in owed /\ d \in Nodes /\ d # m /\ d \notin Recv
      BY <1>1, <1>3, Constants
    <3>2. flink[d] \in owed \cup Heads /\ Before(d) /\ flink[blink[d]] = d
      BY <3>1 DEF Links, Around, TwoWay
    <3>3. d # n
      BY <3>1
    <3>4. flink[d] \in owed' \cup Heads
      BY <1>3, <2>1, <3>1, <3>2, <3>3
    <3>5. blink[d] # n
      BY <3>1, <3>2 DEF m
    <3>6. Before(d)'
      <4>1. CASE blink[d] = m /\ m \in owed
        BY <1>1, <1>3, <4>1 DEF Before
      <4>2. CASE blink[d] \in owed' \cup {List}
        BY <4>2 DEF Before
      <4>3. ASSUME NEW s \in Recv, pc[s] = "first", blink[d] = s PROVE Before(d)'
        BY <3>5, <4>3 DEF Before, Walks
      <4>4. ASSUME NEW s \in Recv, Walks(s), next[s] # s, blink[d] = next[s] PROVE Before(d)'
        <5>1. s # r
          BY <3>5, <4>4 DEF Walks
        <5> QED
          BY <1>3, <1>8, <4>4, <5>1 DEF Before
      <4> QED
        BY <1>3, <3>2, <4>1, <4>2, <4>3, <4>4 DEF Before
    <3> QED
      BY <3>4, <3>6
  <2>3. flink[List] \in owed' \cup {List}
    <3>1. List # n /\ List \in Nodes
      BY <1>6, <1>1, <1>5, Constants DEF Homes, Heads
    <3> QED
      BY <1>3, <2>1, <3>1 DEF Links, Around
  <2>4. ASSUME NEW s \in Recv, pc'[s] = "first" PROVE flink[s] \in owed' \cup {s}
    <3>1. s # r /\ pc[s] = "first" /\ s \in Nodes
      BY <1>3, <2>4, Constants
    <3>2. s # n
      BY <1>5, <1>6, <3>1 DEF Homes, Heads
    <3> QED
      BY <1>3, <2>1, <3>1, <3>2 DEF Links, Around
  <2>5. ASSUME NEW s \in Recv, Walks(s)', next'[s] # s
        PROVE  next'[s] \in Ends /\ flink[next'[s]] \in owed' \cup {s}
    <3>1. CASE s = r
      <4>1. m \in owed
        BY <1>2, <1>3, <2>5, <3>1
      <4> QED
        BY <1>3, <1>7, <3>1, <4>1
    <3>2. CASE s # r
      <4>1. Walks(s) /\ next'[s] = next[s] /\ next[s] # s
        BY <1>3, <1>8, <2>5, <3>2
      <4>2. next[s] \in Ends /\ next[s] \in Nodes /\ flink[next[s]] \in owed \cup {s} /\ next[s] # n
        BY <3>2, <4>1, Constants DEF Links, Around
      <4> QED
        BY <1>3, <2>1, <4>1, <4>2
    <3> QED
      BY <3>1, <3>2
  <2> QED
    BY <2>2, <2>3, <2>4, <2>5 DEF Around
<1>11. Lists'
  <2>1. Homes(home)'
    <3>1. \A e \in owed' : home[e] = List \/ Stopping(home[e])'
      <4>1. \A e \in owed : home[e] \in Heads
        BY <1>1
      <4> QED
        BY <1>3, <1>5, <1>8, <4>1 DEF Homes, Heads
    <3>2. \A s \in Recv : Walks(s)' => home[next'[s]] = s
      BY <1>3, <1>5, <1>6, <1>8 DEF Homes
    <3> QED
      BY <1>5, <3>1, <3>2 DEF Homes
  <2>2. Ranks(rank)'
    BY <1>3, <1>5 DEF Ranks
  <2> QED
    BY <1>5, <2>1, <2>2 DEF Lists
<1> QED
  BY <1>2, <1>9, <1>10, <1>11 DEF Links, m

\* Of finitely many numbered things one has the least number.
LEMMA Least ==
    ASSUME NEW S, IsFiniteSet(S), S # {}, NEW num, \A x \in S : num[x] \in Nat
    PROVE  \E x \in S : \A y \in S : num[x] <= num[y]
<1> DEFINE T == {X \in SUBSET S : X # {} /\ \A x \in X : \A y \in S : num[y] <= num[x] => y \in X}
<1>1. IsWellFoundedOn(StrictSubsetOrdering(S), FiniteSubsetsOf(S))
  BY FS_StrictSubsetOrderingWellFounded
<1>2. T \subseteq FiniteSubsetsOf(S) /\ S \in T
  BY FS_Subset DEF FiniteSubsetsOf
<1>3. PICK X \in T : \A Y \in T : <<Y, X>> \notin StrictSubsetOrdering(S)
  <2> HIDE DEF T
  <2> QED
    BY <1>1, <1>2, WFMin
<1>4. PICK x \in X : TRUE
  BY <1>3
<1> DEFINE Y == {y \in X : num[y] < num[x]}
<1>5. Y = {}
  <2>1. \A y \in S : num[y] \in Nat
    OBVIOUS
  <2>2. x \notin Y /\ x \in S /\ X \subseteq S
    BY <2>1, <1>3, <1>4
  <2>3. \A y \in Y : \A z \in S : num[z] <= num[y] => z \in Y
    <3>1. ASSUME NEW y \in Y, NEW z \in S, num[z] <= num[y] PROVE z \in Y
      <4>1. z \in X /\ y \in S
        BY <1>3, <3>1
      <4>2. num[z] < num[x]
        BY <2>1, <2>2, <3>1, <4>1
      <4> QED
        BY <4>1, <4>2
    <3> QED
      BY <3>1
  <2>4. Y # {} => Y \in T
    BY <2>2, <2>3
  <2>5. <<Y, X>> \in StrictSubsetOrdering(S)
    BY <1>4, <2>2 DEF StrictSubsetOrdering
  <2> QED
    BY <1>3, <2>4, <2>5
<1>6. ASSUME NEW y \in S PROVE num[x] <= num[y]
  <2>1. x \in S /\ num[x] \in Nat /\ num[y] \in Nat
    BY <1>3, <1>4
  <2>2. CASE num[y] <= num[x]
    <3>1. y \in X
      BY <1>3, <1>4, <2>2
    <3> QED
      BY <1>5, <2>1, <3>1
  <2> QED
    BY <2>1, <2>2
<1> QED
  BY <1>3, <1>4, <1>6

\* A Stop that is back at its local head leaves nothing behind in its list.
LEMMA EndLinks ==
    ASSUME TypeOK, Links, NEW r \in Recv, Walks(r), next[r] = r,
           pc' = [pc EXCEPT ![r] = "complete"], \A s \in Recv \ {r} : next'[s] = next[s],
           UNCHANGED <<flink, blink, fresh, owed>>
    PROVE  Links'
<1>1. /\ owed \subseteq Ends /\ owed \subseteq Nodes /\ r \in Nodes /\ r # List /\ r \in Heads
      /\ \A s \in Recv \ {r} : pc'[s] = pc[s]
      /\ ~Walks(r)' /\ pc'[r] # "first" /\ ~Waits(r)' /\ pc[r] # "first"
  BY Constants DEF TypeOK, Heads, Walks, Waits
<1>2. PICK home \in [Nodes -> Heads], rank \in [Ends -> Nat] : Homes(home) /\ Ranks(rank)
  BY DEF Links, Lists
<1>3. \A e \in owed : home[e] # r
  <2> SUFFICES ASSUME NEW e0 \in owed, home[e0] = r PROVE FALSE
    OBVIOUS
  <2> DEFINE W == {d \in owed : home[d] = r}
  <2>1. W \subseteq Ends /\ W # {} /\ IsFiniteSet(W) /\ \A d \in W : rank[d] \in Nat
    BY <1>1, <1>2, Constants, FS_Subset
  <2>2. PICK e \in W : \A d \in W : rank[e] <= rank[d]
    BY <2>1, Least
  <2>3. e \in owed /\ home[e] = r
    BY <2>2
  <2>4. ASSUME NEW d \in owed, home[d] = r, rank[d] < rank[e] PROVE FALSE
    BY <2>1, <2>2, <2>4
  <2> HIDE DEF W
  <2>5. e \in Nodes /\ e \in Ends /\ e \notin Recv /\ blink[e] \in Nodes
    BY <1>1, <2>3, Constants DEF TypeOK
  <2>6. flink[blink[e]] = e /\ home[blink[e]] = r
    BY <1>2, <2>3, <2>5 DEF Links, TwoWay, Homes
  <2>7. CASE blink[e] \in owed
    BY <1>2, <2>4, <2>5, <2>6, <2>7 DEF Ranks
  <2>8. CASE blink[e] = List
    BY <1>1, <1>2, <2>6, <2>8 DEF Homes, Heads
  <2>9. ASSUME NEW s \in Recv, pc[s] = "first", blink[e] = s PROVE FALSE
    BY <1>1, <1>2, <2>6, <2>9 DEF Homes, Heads
  <2>10. ASSUME NEW s \in Recv, Walks(s), next[s] # s, blink[e] = next[s] PROVE FALSE
    BY <1>2, <2>6, <2>10 DEF Homes
  <2> QED
    BY <2>3, <2>7, <2>8, <2>9, <2>10 DEF Links, Around, Before
<1>4. HeadsWait' /\ TwoWay'
  BY <1>1 DEF Links, HeadsWait, TwoWay, Loose, Waits
<1>5. Around'
  <2>1. ASSUME NEW e \in owed PROVE Before(e)'
    <3>1. Before(e)
      BY DEF Links, Around
    <3> QED
      BY <1>1, <3>1 DEF Before, Walks
  <2>2. \A s \in Recv : Walks(s)' => s # r /\ Walks(s) /\ next'[s] = next[s]
    BY <1>1 DEF Walks
  <2> QED
    BY <1>1, <2>1, <2>2 DEF Links, Around
<1>6. Lists'
  <2>1. Homes(home)'
    <3>1. \A e \in owed : home[e] = List \/ Stopping(home[e])'
      <4>1. \A e \in owed : home[e] \in Heads /\ home[e] # r /\ (home[e] = List \/ Stopping(home[e]))
        BY <1>1, <1>2, <1>3 DEF Homes
      <4> QED
        BY <1>1, <4>1 DEF Heads, Stopping
    <3>2. \A s \in Recv : Walks(s)' => home[next'[s]] = s
      BY <1>1, <1>2 DEF Homes, Walks
    <3> QED
      BY <1>2, <3>1, <3>2 DEF Homes
  <2>2. Ranks(rank)'
    BY <1>2 DEF Ranks
  <2> QED
    BY <1>2, <2>1, <2>2 DEF Lists
<1> QED
  BY <1>4, <1>5, <1>6 DEF Links

-----------------------------------------------------------------------------
\* The references.
LEMMA OwnFinite == \A e \in Ends : IsFiniteSet(Own(e)) /\ Cardinality(Own(e)) \in Nat
<1> TAKE e \in Ends
<1>1. Own(e) \subseteq Recv
  BY DEF Own
<1> QED
  BY <1>1, Constants, FS_Subset, FS_CardinalityType

LEMMA Counted ==
    ASSUME TypeOK, NEW e \in Ends, Token(e), e \in owed \/ Claimed(e) \/ Own(e) # {}
    PROVE  refs[e] > 0 /\ refs[e] \in Nat /\ e \notin fresh
<1>1. Cardinality(Own(e)) \in Nat /\ (Own(e) # {} => Cardinality(Own(e)) # 0)
  BY OwnFinite, FS_EmptySet
<1>2. e \notin fresh /\ refs[e] = One(e \in owed \/ Claimed(e)) + Cardinality(Own(e))
  BY DEF Token, RefCount, FreshUnknown
<1>3. CASE e \in owed \/ Claimed(e)
  <2>1. refs[e] = 1 + Cardinality(Own(e))
    BY <1>2, <1>3 DEF One
  <2> QED
    BY <1>1, <1>2, <2>1
<1>4. CASE ~(e \in owed \/ Claimed(e))
  <2>1. refs[e] = 0 + Cardinality(Own(e))
    BY <1>2, <1>4 DEF One
  <2> QED
    BY <1>1, <1>2, <1>4, <2>1
<1> QED
  BY <1>3, <1>4

\* A step of thread t.
OthersSame(t) == \A u \in Threads \ {t} : pc'[u] = pc[u] /\ mine'[u] = mine[u] /\ next'[u] = next[u]

LEMMA Others ==
    ASSUME NEW t \in Threads, OthersSame(t), NEW e \in Ends
    PROVE  /\ \A u \in Threads \ {t} : ByMine(u, e)' <=> ByMine(u, e)
           /\ \A r \in Recv \ {t} : ByNext(r, e)' <=> ByNext(r, e)
           /\ \A r \in Recv \ {t} : r \in Own(e)' <=> r \in Own(e)
BY Constants DEF OthersSame, ByMine, ByNext, Walks, Own

\* An endpoint that the step does not concern.
LEMMA TokenKept ==
    ASSUME NEW e \in Ends, Token(e), NEW t \in Threads, OthersSame(t),
           (e \in owed') <=> (e \in owed), (e \in chain') <=> (e \in chain),
           (e \in fresh') => (e \in fresh), refs'[e] = refs[e],
           ByMine(t, e)' <=> ByMine(t, e),
           t \in Recv => (ByNext(t, e)' <=> ByNext(t, e)) /\ (t \in Own(e)' <=> t \in Own(e))
    PROVE  Token(e)'
<1>1. /\ \A u \in Threads : ByMine(u, e)' <=> ByMine(u, e)
      /\ \A r \in Recv : ByNext(r, e)' <=> ByNext(r, e)
  BY Others
<1>2. Own(e)' = Own(e)
  <2>1. Own(e) \subseteq Recv /\ Own(e)' \subseteq Recv
    BY DEF Own
  <2>2. \A r \in Recv : r \in Own(e)' <=> r \in Own(e)
    BY Others
  <2> QED
    BY <2>1, <2>2
<1>3. Claimed(e)' <=> Claimed(e)
  BY <1>1 DEF Claimed
<1>4. OneClaim(e)'
  BY <1>1, <1>3 DEF Token, OneClaim
<1>5. RefCount(e)'
  BY <1>2, <1>3 DEF Token, RefCount, One
<1>6. FreshUnknown(e)'
  BY <1>2, <1>3 DEF Token, FreshUnknown
<1> QED
  BY <1>4, <1>5, <1>6 DEF Token

\* An endpoint whose claim the step moves, or drops: nobody else had it.
LEMMA TokenMoved ==
    ASSUME NEW e \in Ends, e \notin fresh', NEW t \in Threads, OthersSame(t),
           \A u \in Threads \ {t} : ~ByMine(u, e), \A r \in Recv \ {t} : ~ByNext(r, e),
           t \in Recv => (t \in Own(e)' <=> t \in Own(e)),
           NEW has \in BOOLEAN,
           has <=> e \in owed' \/ e \in chain' \/ ByMine(t, e)' \/ (t \in Recv /\ ByNext(t, e)'),
           ~(e \in owed' /\ e \in chain'), 
           ByMine(t, e)' => e \notin owed' /\ e \notin chain',
           t \in Recv /\ ByNext(t, e)' => e \notin owed' /\ e \notin chain' /\ ~ByMine(t, e)',
           refs'[e] = One(has) + Cardinality(Own(e))
    PROVE  Token(e)'
<1>1. /\ \A u \in Threads : ByMine(u, e)' => u = t
      /\ \A r \in Recv : ByNext(r, e)' => r = t
  BY Others
<1>2. Own(e)' = Own(e)
  <2>1. Own(e) \subseteq Recv /\ Own(e)' \subseteq Recv
    BY DEF Own
  <2>2. \A r \in Recv : r \in Own(e)' <=> r \in Own(e)
    BY Others
  <2> QED
    BY <2>1, <2>2
<1>3. Claimed(e)' <=> e \in chain' \/ ByMine(t, e)' \/ (t \in Recv /\ ByNext(t, e)')
  BY <1>1 DEF Claimed
<1>4. OneClaim(e)'
  BY <1>1, <1>3 DEF OneClaim
<1>5. RefCount(e)'
  <2>1. (e \in owed' \/ Claimed(e)') <=> has
    BY <1>3
  <2>2. One(e \in owed' \/ Claimed(e)') = One(has)
    BY <2>1 DEF One
  <2> QED
    BY <1>2, <2>2 DEF RefCount, One
<1> QED
  BY <1>4, <1>5 DEF Token, FreshUnknown

\* Who has a claim is the only one.
LEMMA Sole ==
    ASSUME NEW e \in Ends, OneClaim(e), NEW t \in Threads,
           e \in owed \/ e \in chain \/ ByMine(t, e) \/ (t \in Recv /\ ByNext(t, e))
    PROVE  /\ \A u \in Threads \ {t} : ~ByMine(u, e)
           /\ \A r \in Recv \ {t} : ~ByNext(r, e)
BY DEF OneClaim, Claimed

\* Steps that change no reference.
LEMMA TokensFrame ==
    ASSUME Tokens, UNCHANGED <<owed, fresh, refs, chain, mine>>,
           \A t \in Threads : pc'[t] # pc[t] =>
               {pc[t], pc'[t]} \cap {"unlink", "drop", "release", "visit"} = {},
           \A r \in Recv : \A e \in Ends : ByNext(r, e)' <=> ByNext(r, e)
    PROVE  Tokens'
<1> SUFFICES ASSUME NEW e \in Ends PROVE Token(e)'
  BY DEF Tokens
<1>1. \A t \in Threads : ByMine(t, e)' <=> ByMine(t, e)
  BY DEF ByMine
<1>2. Own(e)' = Own(e)
  BY Constants DEF Own
<1>3. Claimed(e)' <=> Claimed(e)
  BY <1>1 DEF Claimed
<1>4. OneClaim(e) /\ RefCount(e) /\ FreshUnknown(e)
  BY DEF Tokens, Token
<1>5. OneClaim(e)'
  BY <1>1, <1>3, <1>4 DEF OneClaim
<1>6. RefCount(e)'
  BY <1>2, <1>3, <1>4 DEF RefCount, One
<1>7. FreshUnknown(e)'
  BY <1>2, <1>3, <1>4 DEF FreshUnknown
<1> QED
  BY <1>5, <1>6, <1>7 DEF Token

\* The endpoints in no list.
LEMMA OutsideKept ==
    ASSUME TypeOK, Places, Good,
           \A c \in Ends \ (owed \cup (fresh \ fresh')) : Loose(c) => Loose(c)',
           fresh' \subseteq fresh, \A c \in chain' \ chain : Loose(c)',
           pc'[Timer] = "unlink" => \/ pc[Timer] = "unlink" /\ mine'[Timer] = mine[Timer]
                                    \/ Loose(mine[Timer])'
    PROVE  Outside'
<1>1. ASSUME NEW c \in Ends, Token(c), c \in fresh' \/ c \in chain \/ ByMine(Timer, c), Loose(c)
      PROVE  Loose(c)'
  <2>1. c \notin owed
    BY <1>1, Constants DEF Token, OneClaim, FreshUnknown, Claimed
  <2>2. c \in fresh => c \in fresh'
    BY <1>1, Constants DEF Token, FreshUnknown, Claimed
  <2> QED
    BY <1>1, <2>1, <2>2
<1>2. ASSUME NEW c \in fresh' \cup chain' PROVE Loose(c)'
  <2>1. CASE c \in chain' \ chain
    BY <2>1
  <2>2. CASE c \notin chain' \ chain
    <3>1. c \in fresh' \/ c \in chain
      BY <2>2
    <3>2. c \in Ends /\ Loose(c)
      BY <3>1 DEF TypeOK, Good, Outside
    <3> QED
      BY <1>1, <3>1, <3>2 DEF Good, Tokens
  <2> QED
    BY <2>1, <2>2
<1>3. ASSUME pc[Timer] = "unlink"
      PROVE  Loose(mine[Timer]) /\ (mine'[Timer] = mine[Timer] => Loose(mine[Timer])')
  <2>1. mine[Timer] \in Ends /\ ByMine(Timer, mine[Timer]) /\ Loose(mine[Timer])
    BY <1>3, Constants DEF Places, Good, ByMine, Outside
  <2>2. Token(mine[Timer])
    BY <2>1 DEF Good, Tokens
  <2>3. PICK c \in Ends : c = mine[Timer]
    BY <2>1
  <2>4. Loose(c)'
    BY <1>1, <2>1, <2>2, <2>3
  <2> QED
    BY <2>1, <2>3, <2>4 DEF Loose
<1> QED
  BY <1>2, <1>3 DEF Outside

-----------------------------------------------------------------------------
\* The steps, one by one.
LEMMA PlainGood ==
    ASSUME TypeOK, Places, Good, SameStops,
           UNCHANGED <<flink, blink, owed, fresh, refs, chain, mine, next, broken>>,
           \A t \in Threads : pc'[t] # pc[t] =>
               {pc[t], pc'[t]} \cap {"unlink", "drop", "release", "visit"} = {}
    PROVE  Good'
<1>1. Links'
  BY LinksFrame DEF Good
<1>2. Tokens'
  <2>1. \A r \in Recv : \A e \in Ends : ByNext(r, e)' <=> ByNext(r, e)
    BY DEF SameStops, ByNext
  <2> QED
    BY <2>1, TokensFrame DEF Good
<1>3. Outside'
  BY Constants, OutsideKept DEF Loose
<1> QED
  BY <1>1, <1>2, <1>3 DEF Good

LEMMA ConnectGood ==
    ASSUME TypeOK, Places, Good, NEW r \in Recv, OnConnect(r)
    PROVE  Good'
<1>1. PICK e \in fresh : /\ fresh' = fresh \ {e} /\ InsertHeadList(e)
                         /\ refs' = [refs EXCEPT ![e] = 2] /\ owed' = owed \cup {e}
                         /\ mine' = [mine EXCEPT ![r] = e]
  BY DEF OnConnect
<1>2. pc[r] = "posted" /\ UNCHANGED <<next, chain, broken>>
  BY DEF OnConnect
<1>l. PICK l \in {"unlink", "release"} : pc' = [pc EXCEPT ![r] = l]
  BY DEF OnConnect, Goto
<1>p. /\ pc'[r] \in {"unlink", "release"} /\ mine'[r] = e /\ r \in Threads
      /\ \A u \in Threads \ {r} : pc'[u] = pc[u] /\ mine'[u] = mine[u]
  BY <1>1, <1>l, Constants DEF TypeOK
<1>3. e \in Ends /\ Loose(e) /\ fresh \subseteq Ends
  BY DEF TypeOK, Good, Outside
<1>4. e \notin owed /\ e \notin chain /\ Own(e) = {} /\ (\A t \in Threads : ~ByMine(t, e))
      /\ \A s \in Recv : ~ByNext(s, e)
  BY <1>3 DEF Good, Tokens, Token, FreshUnknown, Claimed
<1>5. fresh \cap owed = {}
  BY <1>3 DEF Good, Tokens, Token, FreshUnknown
<1>6. SameStops /\ OthersSame(r) /\ r \in Threads
  BY <1>2, <1>p, Constants DEF SameStops, OthersSame, Walks, Waits
<1>7. Links' /\ \A c \in Ends \ {e} : Loose(c) /\ c \notin owed => Loose(c)'
  BY <1>1, <1>3, <1>4, <1>5, <1>6, InsertLinks DEF Good
<1>a. \A d \in Ends : /\ ~ByMine(r, d) /\ ~ByMine(r, d)' /\ ~ByNext(r, d) /\ ~ByNext(r, d)'
                       /\ r \notin Own(d)
  BY <1>2, <1>p, Constants DEF ByMine, ByNext, Walks, Own
<1>8. Tokens'
  <2>1. ASSUME NEW d \in Ends, d # e PROVE Token(d)'
    <3>1. Token(d) /\ refs'[d] = refs[d] /\ r \notin Own(d)'
      BY <1>1, <1>p, <2>1 DEF Good, Tokens, TypeOK, Own
    <3> QED
      BY <1>1, <1>2, <1>6, <1>a, <2>1, <3>1, TokenKept
  <2>2. Token(e)'
    <3>1. /\ \A t \in Threads : ~ByMine(t, e)'
          /\ \A s \in Recv : ~ByNext(s, e)'
          /\ \A s \in Recv \ {r} : s \notin Own(e)'
      BY <1>3, <1>4, <1>6, <1>a, Others
    <3>2. e \in owed' /\ e \notin chain' /\ e \notin fresh' /\ refs'[e] = 2
      BY <1>1, <1>2, <1>3, <1>4 DEF TypeOK
    <3>3. ~Claimed(e)'
      BY <3>1, <3>2 DEF Claimed
    <3>4. Own(e)' = {r}
      BY <1>p, <3>1 DEF Own
    <3>5. Cardinality(Own(e)') = 1
      BY <3>4, FS_Singleton
    <3>6. OneClaim(e)'
      BY <3>1, <3>2, <3>3 DEF OneClaim
    <3>7. RefCount(e)'
      BY <3>2, <3>5 DEF RefCount, One
    <3> QED
      BY <3>2, <3>6, <3>7 DEF Token, FreshUnknown
  <2> QED
    BY <2>1, <2>2 DEF Tokens
<1>9. Outside'
  <2>1. \A c \in Ends \ (owed \cup (fresh \ fresh')) : Loose(c) => Loose(c)'
    BY <1>1, <1>7
  <2> QED
    BY <1>1, <1>2, <1>p, <2>1, Constants, OutsideKept
<1> QED
  BY <1>2, <1>7, <1>8, <1>9 DEF Good

LEMMA FoundGood ==
    ASSUME TypeOK, Places, Good, NEW r \in Recv, NEW l \in {"unlink", "release"}, Get(r, l)
    PROVE  Good'
<1>1. PICK e \in InList : mine' = [mine EXCEPT ![r] = e] /\ refs' = [refs EXCEPT ![e] = @ + 1]
  BY DEF Get
<1>2. /\ pc[r] = "posted" /\ pc' = [pc EXCEPT ![r] = l]
      /\ UNCHANGED <<flink, blink, fresh, next, chain, owed, broken>>
  BY DEF Get, Goto, links, hist
<1>3. e \in Ends
  BY ListIsOfEnds
<1>4. /\ pc'[r] = l /\ mine'[r] = e /\ r \in Threads
      /\ \A u \in Threads \ {r} : pc'[u] = pc[u] /\ mine'[u] = mine[u]
  BY <1>1, <1>2, Constants DEF TypeOK
<1>5. SameStops /\ OthersSame(r)
  BY <1>2, <1>4, Constants DEF SameStops, OthersSame, Walks, Waits
<1>6. Links'
  BY <1>2, <1>5, LinksFrame DEF Good
<1>7. \A d \in Ends : ~ByMine(r, d) /\ ~ByMine(r, d)' /\ (ByNext(r, d)' <=> ByNext(r, d)) /\ r \notin Own(d)
  BY <1>2, <1>4, Constants DEF ByMine, ByNext, Walks, Own
<1>8. Tokens'
  <2>1. ASSUME NEW d \in Ends, d # e PROVE Token(d)'
    <3>1. Token(d) /\ refs'[d] = refs[d] /\ r \notin Own(d)'
      BY <1>1, <1>4, <2>1 DEF Good, Tokens, TypeOK, Own
    <3> QED
      BY <1>2, <1>4, <1>5, <1>7, <3>1, TokenKept
  <2>2. Token(e)'
    <3>1. Token(e) /\ refs'[e] = refs[e] + 1
      BY <1>1, <1>3 DEF Good, Tokens, TypeOK
    <3>2. \A s \in Recv : s \in Own(e)' <=> s \in Own(e) \cup {r}
      <4>1. r \in Own(e)'
        BY <1>4 DEF Own
      <4> QED
        BY <1>3, <1>4, <1>5, <4>1, Others
    <3>3. Own(e)' = Own(e) \cup {r}
      <4>1. Own(e)' \subseteq Recv /\ Own(e) \subseteq Recv
        BY DEF Own
      <4> QED
        BY <3>2, <4>1
    <3>4. Cardinality(Own(e)') = Cardinality(Own(e)) + 1 /\ Cardinality(Own(e)) \in Nat
      BY <1>3, <1>7, <3>3, OwnFinite, FS_AddElement
    <3>5. /\ \A t \in Threads : ByMine(t, e)' <=> ByMine(t, e)
          /\ \A s \in Recv : ByNext(s, e)' <=> ByNext(s, e)
      BY <1>3, <1>4, <1>5, <1>7, Others
    <3>6. Claimed(e)' <=> Claimed(e)
      BY <1>2, <3>5 DEF Claimed
    <3>7. OneClaim(e)'
      BY <1>2, <3>1, <3>5, <3>6 DEF Token, OneClaim
    <3>8. RefCount(e)'
      <4>1. refs[e] = One(e \in owed \/ Claimed(e)) + Cardinality(Own(e))
        BY <3>1 DEF Token, RefCount
      <4>2. One(e \in owed' \/ Claimed(e)') = One(e \in owed \/ Claimed(e))
            /\ One(e \in owed \/ Claimed(e)) \in Nat
        BY <1>2, <3>6 DEF One
      <4>3. refs'[e] = One(e \in owed' \/ Claimed(e)') + Cardinality(Own(e)')
        BY <3>1, <3>4, <4>1, <4>2
      <4> QED
        BY <4>3 DEF RefCount, One
    <3>9. e \notin fresh'
      <4>1. e \in owed
        BY InListIsOwed DEF Good
      <4> QED
        BY <1>2, <3>1, <4>1 DEF Token, FreshUnknown
    <3> QED
      BY <3>7, <3>8, <3>9 DEF Token, FreshUnknown
  <2> QED
    BY <2>1, <2>2 DEF Tokens
<1>9. Outside'
  BY <1>2, <1>4, Constants, OutsideKept DEF Loose
<1> QED
  BY <1>2, <1>6, <1>8, <1>9 DEF Good

\* What is written when an endpoint is taken out of its list lives.
LEMMA Neighbours ==
    ASSUME TypeOK, Good, NEW e \in owed
    PROVE  Valid(e) /\ Valid(flink[e]) /\ Valid(blink[e])
<1>1. e \in Ends /\ e \in Nodes /\ owed \subseteq Ends
  BY Constants DEF TypeOK
<1>2. ASSUME NEW d \in Ends, d \in owed \/ Claimed(d) PROVE Valid(d)
  <2>1. refs[d] > 0
    BY <1>2, Counted DEF Good, Tokens
  <2> QED
    BY <2>1, Constants DEF Valid
<1>3. Valid(List)
  BY Constants DEF Valid
<1>4. \A r \in Recv : Stopping(r) => Valid(r)
  BY Constants DEF Valid, Stopping
<1>5. Valid(flink[e])
  <2>1. PICK home \in [Nodes -> Heads] : Homes(home)
    BY DEF Good, Links, Lists
  <2>2. flink[e] \in owed \cup Heads
    BY DEF Good, Links, Around
  <2>3. ASSUME flink[e] \in Recv PROVE Stopping(flink[e])
    <3>1. home[e] = flink[e] /\ flink[e] # List
      BY <1>1, <2>1, <2>3, Constants DEF Homes, Heads
    <3> QED
      BY <2>1, <3>1 DEF Homes
  <2> QED
    BY <1>1, <1>2, <1>3, <1>4, <2>2, <2>3 DEF Heads
<1>6. Valid(blink[e])
  <2>1. Before(e)
    BY DEF Good, Links, Around
  <2>2. ASSUME NEW r \in Recv, Walks(r), next[r] # r, blink[e] = next[r] PROVE Valid(blink[e])
    <3>1. next[r] \in Ends /\ Claimed(next[r])
      BY <2>2 DEF Good, Links, Around, Claimed, ByNext
    <3> QED
      BY <1>2, <2>2, <3>1
  <2>3. ASSUME NEW r \in Recv, pc[r] = "first", blink[e] = r PROVE Valid(blink[e])
    BY <1>4, <2>3 DEF Stopping
  <2> QED
    BY <1>1, <1>2, <1>3, <2>1, <2>2, <2>3 DEF Before
<1> QED
  BY <1>1, <1>2, <1>5, <1>6

LEMMA UnlinkGood ==
    ASSUME TypeOK, Places, Good, NEW r \in Recv, Unlink(r), ~twice'
    PROVE  Good'
<1>a. PICK e \in Ends : e = mine[r]
  BY Constants DEF Places, Good, Unlink
<1>1. /\ pc[r] = "unlink" /\ pc' = [pc EXCEPT ![r] = "drop"] /\ RemoveEntryList(e)
      /\ Use({e, flink[e], blink[e]}) /\ UNCHANGED <<refs, fresh, mine, next, chain>>
  BY <1>a DEF Unlink, Goto, ends
<1>2. owed' = owed \ {e} /\ e \in owed
  BY <1>a, Constants DEF Unlink, Claim
<1>3. Token(e)
  BY DEF Good, Tokens
<1>4. pc'[r] = "drop" /\ r \in Threads /\ \A u \in Threads \ {r} : pc'[u] = pc[u]
  BY <1>1, Constants DEF TypeOK
<1>5. SameStops /\ OthersSame(r)
  BY <1>1, <1>4, Constants DEF SameStops, OthersSame, Walks, Waits
<1>6. \A s \in Recv : ~ByNext(s, e)
  BY <1>2, <1>3 DEF Token, OneClaim, Claimed
<1>7. Links' /\ Loose(e)' /\ \A c \in Ends : Loose(c) => Loose(c)'
  BY <1>1, <1>2, <1>5, <1>6, CutLinks DEF Good
<1>8. ~broken'
  BY <1>1, <1>2, Neighbours DEF Use
<1>9. Tokens'
  <2>1. ASSUME NEW d \in Ends, d # e PROVE Token(d)'
    <3>1. Token(d)
      BY DEF Good, Tokens
    <3>2. ByMine(r, d)' <=> ByMine(r, d)
      BY <1>a, <1>1, <2>1 DEF ByMine
    <3>3. (ByNext(r, d)' <=> ByNext(r, d)) /\ (r \in Own(d)' <=> r \in Own(d))
      BY <1>1, <1>4 DEF ByNext, Walks, Own
    <3> QED
      BY <1>1, <1>2, <1>4, <1>5, <2>1, <3>1, <3>2, <3>3, TokenKept
  <2>2. Token(e)'
    <3>1. refs'[e] = One(TRUE) + Cardinality(Own(e)) /\ e \notin fresh'
      BY <1>1, <1>2, <1>3 DEF Token, RefCount, One, FreshUnknown
    <3>2. (\A u \in Threads \ {r} : ~ByMine(u, e)) /\ (\A s \in Recv \ {r} : ~ByNext(s, e))
      BY <1>2, <1>3, <1>4, Sole DEF Token
    <3>3. ByMine(r, e)' /\ ~ByNext(r, e)' /\ e \notin chain' /\ e \notin owed'
      BY <1>a, <1>1, <1>2, <1>3, <1>4 DEF Token, OneClaim, Claimed, ByMine, ByNext, Walks
    <3>4. r \in Own(e)' <=> r \in Own(e)
      BY <1>1, <1>4 DEF Own
    <3> QED
      BY <1>3, <1>4, <1>5, <3>1, <3>2, <3>3, <3>4, TokenMoved
  <2> QED
    BY <2>1, <2>2 DEF Tokens
<1>10. Outside'
  BY <1>1, <1>4, <1>7, Constants, OutsideKept
<1> QED
  BY <1>7, <1>8, <1>9, <1>10 DEF Good

\* The timer's endpoint is in no list any more.
LEMMA TimerUnlinkGood ==
    ASSUME TypeOK, Places, Good, Unlink(Timer)
    PROVE  Good'
<1> DEFINE e == mine[Timer]
<1>1. /\ pc[Timer] = "unlink" /\ pc' = [pc EXCEPT ![Timer] = "drop"] /\ RemoveEntryList(e)
      /\ Use({e, flink[e], blink[e]}) /\ UNCHANGED <<refs, fresh, mine, next, chain, owed>>
  BY DEF Unlink, Goto, ends
<1>2. e \in Ends /\ Loose(e) /\ ByMine(Timer, e) /\ Token(e)
  BY <1>1, Constants DEF Places, Good, Outside, ByMine, Tokens
<1>3. ~broken'
  <2>1. Valid(e)
    BY <1>2, Constants, Counted DEF Valid, Claimed
  <2> QED
    BY <1>1, <1>2, <2>1 DEF Use, Loose
<1>4. flink' = flink /\ blink' = blink
  BY <1>1, <1>2, Constants DEF RemoveEntryList, SetLinks, Cut, links, Loose, TypeOK
<1>5. pc'[Timer] = "drop" /\ \A u \in Threads \ {Timer} : pc'[u] = pc[u]
  BY <1>1, Constants DEF TypeOK
<1>6. SameStops /\ OthersSame(Timer)
  BY <1>1, <1>5, Constants DEF SameStops, OthersSame, Walks, Waits
<1>7. Links'
  BY <1>1, <1>4, <1>6, LinksFrame DEF Good
<1>8. Tokens'
  <2>1. ASSUME NEW d \in Ends PROVE Token(d)'
    <3>1. Token(d) /\ (ByMine(Timer, d)' <=> ByMine(Timer, d))
      BY <1>1, <1>5 DEF Good, Tokens, ByMine
    <3> QED
      BY <1>1, <1>6, <3>1, Constants, TokenKept
  <2> QED
    BY <2>1 DEF Tokens
<1>9. Outside'
  BY <1>1, <1>4, <1>5, OutsideKept DEF Loose
<1> QED
  BY <1>3, <1>7, <1>8, <1>9 DEF Good

\* A reference is dropped.
LEMMA DropOne ==
    ASSUME TypeOK, NEW t \in Threads, mine[t] \in Ends, Token(mine[t]),
           ByMine(t, mine[t]) \/ t \in Own(mine[t]), Drop(t)
    PROVE  /\ ~broken' /\ refs[mine[t]] > 0
           /\ \A d \in Ends : refs'[d] = IF d = mine[t] THEN refs[d] - 1 ELSE refs[d]
           /\ UNCHANGED <<flink, blink, fresh, next, chain>>
<1>1. Claimed(mine[t]) \/ Own(mine[t]) # {}
  BY DEF Claimed
<1>2. refs[mine[t]] > 0 /\ refs[mine[t]] \in Nat
  BY <1>1, Counted
<1>3. ~broken'
  <2>1. Valid(mine[t])
    BY <1>2, Constants DEF Valid
  <2> QED
    BY <2>1 DEF Drop, Use
<1>4. \A d \in Ends : refs'[d] = IF d = mine[t] THEN refs[d] - 1 ELSE refs[d]
  BY <1>2 DEF Drop, TypeOK
<1> QED
  BY <1>2, <1>3, <1>4 DEF Drop, links

\* RemoveEnd and StopVisit give back the list's reference.
LEMMA DroppedGood ==
    ASSUME TypeOK, Places, Good, NEW t \in Threads, ByMine(t, mine[t]), mine[t] \in Ends,
           Drop(t), owed' = owed, NEW l, pc' = [pc EXCEPT ![t] = l],
           \/ l = "release" /\ pc[t] = "drop" /\ mine' = mine
           \/ l = "walk" /\ pc[t] = "visit" /\ t \in Recv /\ mine' = [mine EXCEPT ![t] = NoEnd]
    PROVE  Good'
<1>1. PICK e \in Ends : e = mine[t]
  OBVIOUS
<1>2. Token(e) /\ ByMine(t, e)
  BY <1>1 DEF Good, Tokens
<1>3. /\ ~broken' /\ UNCHANGED <<flink, blink, fresh, next, chain>>
      /\ \A d \in Ends : refs'[d] = IF d = e THEN refs[d] - 1 ELSE refs[d]
  BY <1>1, <1>2, DropOne
<1>4. pc'[t] = l /\ \A u \in Threads \ {t} : pc'[u] = pc[u] /\ mine'[u] = mine[u]
  BY DEF TypeOK
<1>5. SameStops /\ OthersSame(t)
  BY <1>3, <1>4, Constants DEF SameStops, OthersSame, Walks, Waits
<1>6. Links'
  BY <1>3, <1>5, LinksFrame DEF Good
<1>7. \A d \in Ends : ~ByMine(t, d)' /\ (d # e => ~ByMine(t, d))
  BY <1>1, <1>4 DEF ByMine
<1>8. t \in Recv => \A d \in Ends : (ByNext(t, d)' <=> ByNext(t, d)) /\ (t \in Own(d)' <=> t \in Own(d))
  BY <1>3, <1>4 DEF ByNext, Walks, Own
<1>9. Tokens'
  <2>1. ASSUME NEW d \in Ends, d # e PROVE Token(d)'
    <3>1. Token(d)
      BY DEF Good, Tokens
    <3> QED
      BY <1>3, <1>5, <1>7, <1>8, <2>1, <3>1, TokenKept
  <2>2. Token(e)'
    <3>1. (\A u \in Threads \ {t} : ~ByMine(u, e)) /\ (\A s \in Recv \ {t} : ~ByNext(s, e))
      BY <1>2, Sole DEF Token
    <3>2. e \notin owed' /\ e \notin chain' /\ e \notin fresh'
      BY <1>2, <1>3 DEF Token, OneClaim, FreshUnknown, Claimed
    <3>3. t \in Recv => ~ByNext(t, e)'
      BY <1>2, <1>8 DEF Token, OneClaim
    <3>4. refs'[e] = One(FALSE) + Cardinality(Own(e))
      <4>1. refs[e] = One(TRUE) + Cardinality(Own(e))
        BY <1>2 DEF Token, RefCount, Claimed, One
      <4> QED
        BY <1>3, <4>1, OwnFinite DEF One
    <3> QED
      BY <1>5, <1>7, <1>8, <3>1, <3>2, <3>3, <3>4, TokenMoved
  <2> QED
    BY <2>1, <2>2 DEF Tokens
<1>10. Outside'
  BY <1>3, <1>4, Constants, OutsideKept DEF Loose
<1> QED
  BY <1>3, <1>6, <1>9, <1>10 DEF Good

LEMMA ReleaseGood ==
    ASSUME TypeOK, Places, Good, NEW r \in Recv, Release(r)
    PROVE  Good'
<1>1. /\ pc[r] = "release" /\ Drop(r) /\ owed' = owed
      /\ mine' = [mine EXCEPT ![r] = NoEnd] /\ pc' = [pc EXCEPT ![r] = "posted"]
  BY Constants DEF Release, Goto
<1>2. PICK e \in Ends : e = mine[r]
  BY <1>1, Constants DEF Places, Good
<1>3. Token(e) /\ r \in Own(e) /\ r \in Threads
  BY <1>1, <1>2, Constants DEF Good, Tokens, Own
<1>4. /\ ~broken' /\ UNCHANGED <<flink, blink, fresh, next, chain>> /\ refs[e] > 0
      /\ \A d \in Ends : refs'[d] = IF d = e THEN refs[d] - 1 ELSE refs[d]
  BY <1>1, <1>2, <1>3, DropOne
<1>5. /\ pc'[r] = "posted" /\ mine'[r] = NoEnd
      /\ \A u \in Threads \ {r} : pc'[u] = pc[u] /\ mine'[u] = mine[u]
  BY <1>1, <1>3 DEF TypeOK
<1>6. SameStops /\ OthersSame(r)
  BY <1>1, <1>4, <1>5, Constants DEF SameStops, OthersSame, Walks, Waits
<1>7. Links'
  BY <1>1, <1>4, <1>6, LinksFrame DEF Good
<1>8. \A d \in Ends : /\ ~ByMine(r, d)' /\ ~ByMine(r, d) /\ (ByNext(r, d)' <=> ByNext(r, d))
                      /\ r \notin Own(d)' /\ (d # e => r \notin Own(d))
  BY <1>1, <1>2, <1>5, Constants DEF ByMine, ByNext, Walks, Own
<1>9. Tokens'
  <2>1. ASSUME NEW d \in Ends, d # e PROVE Token(d)'
    <3>1. Token(d)
      BY DEF Good, Tokens
    <3> QED
      BY <1>1, <1>3, <1>4, <1>6, <1>8, <2>1, <3>1, TokenKept
  <2>2. Token(e)'
    <3>1. \A s \in Recv \ {r} : s \in Own(e)' <=> s \in Own(e)
      BY <1>3, <1>6, Others
    <3>2. Own(e)' = Own(e) \ {r}
      <4>1. Own(e)' \subseteq Recv /\ Own(e) \subseteq Recv
        BY DEF Own
      <4> QED
        BY <1>8, <3>1, <4>1
    <3>3. Cardinality(Own(e)') = Cardinality(Own(e)) - 1 /\ Cardinality(Own(e)) \in Nat
      BY <1>3, <3>2, OwnFinite, FS_RemoveElement
    <3>4. /\ \A t \in Threads : ByMine(t, e)' <=> ByMine(t, e)
          /\ \A s \in Recv : ByNext(s, e)' <=> ByNext(s, e)
      BY <1>3, <1>6, <1>8, Others
    <3>5. Claimed(e)' <=> Claimed(e)
      BY <1>4, <3>4 DEF Claimed
    <3>6. OneClaim(e)'
      BY <1>1, <1>3, <1>4, <3>4, <3>5 DEF Token, OneClaim
    <3>7. RefCount(e)'
      <4>1. refs[e] = One(e \in owed \/ Claimed(e)) + Cardinality(Own(e))
        BY <1>3 DEF Token, RefCount
      <4>2. One(e \in owed' \/ Claimed(e)') = One(e \in owed \/ Claimed(e))
            /\ One(e \in owed \/ Claimed(e)) \in Nat
        BY <1>1, <3>5 DEF One
      <4>3. refs'[e] = One(e \in owed' \/ Claimed(e)') + Cardinality(Own(e)')
        BY <1>4, <3>3, <4>1, <4>2
      <4> QED
        BY <4>3 DEF RefCount, One
    <3>8. e \notin fresh'
      BY <1>3, <1>4 DEF Token, FreshUnknown
    <3> QED
      BY <3>6, <3>7, <3>8 DEF Token, FreshUnknown
  <2> QED
    BY <2>1, <2>2 DEF Tokens
<1>10. Outside'
  BY <1>4, <1>5, Constants, OutsideKept DEF Loose
<1> QED
  BY <1>4, <1>7, <1>9, <1>10 DEF Good

LEMMA TakeGood ==
    ASSUME TypeOK, Places, Good, NEW r \in Recv, StopTake(r)
    PROVE  Good'
<1>1. /\ pc[r] = "take" /\ pc' = [pc EXCEPT ![r] = "first"] /\ TakeList(r)
      /\ UNCHANGED <<refs, fresh, mine, next, chain, owed, broken>>
  BY DEF StopTake, Goto, ends, hist
<1>2. Links' /\ \A c \in Ends \ owed : Loose(c) => Loose(c)'
  BY <1>1, TakeLinks DEF Good
<1>3. pc'[r] = "first" /\ \A u \in Threads \ {r} : pc'[u] = pc[u]
  BY <1>1, Constants DEF TypeOK
<1>4. Tokens'
  <2>1. \A s \in Recv : \A e \in Ends : ByNext(s, e)' <=> ByNext(s, e)
    BY <1>1, <1>3, Constants DEF ByNext, Walks
  <2>2. \A t \in Threads : pc'[t] # pc[t] =>
               {pc[t], pc'[t]} \cap {"unlink", "drop", "release", "visit"} = {}
    BY <1>1, <1>3
  <2> QED
    BY <1>1, <2>1, <2>2, TokensFrame DEF Good
<1>5. Outside'
  BY <1>1, <1>2, <1>3, Constants, OutsideKept
<1> QED
  BY <1>1, <1>2, <1>4, <1>5 DEF Good

LEMMA EndGood ==
    ASSUME TypeOK, Places, Good, NEW r \in Recv, StopEnd(r)
    PROVE  Good'
<1>1. /\ pc[r] = "walk" /\ next[r] = r /\ pc' = [pc EXCEPT ![r] = "complete"]
      /\ next' = [next EXCEPT ![r] = NoEnd]
      /\ UNCHANGED <<flink, blink, refs, fresh, mine, chain, owed, broken>>
  BY DEF StopEnd, Goto, links, ends, hist
<1>2. pc'[r] = "complete" /\ \A u \in Threads \ {r} : pc'[u] = pc[u] /\ next'[u] = next[u]
  BY <1>1, Constants DEF TypeOK
<1>3. Links'
  BY <1>1, <1>2, Constants, EndLinks DEF Good, Walks
<1>4. Tokens'
  <2>1. \A s \in Recv : \A e \in Ends : ByNext(s, e)' <=> ByNext(s, e)
    BY <1>1, <1>2, Constants DEF ByNext, Walks
  <2>2. \A t \in Threads : pc'[t] # pc[t] =>
               {pc[t], pc'[t]} \cap {"unlink", "drop", "release", "visit"} = {}
    BY <1>1, <1>2
  <2> QED
    BY <1>1, <2>1, <2>2, TokensFrame DEF Good
<1>5. Outside'
  BY <1>1, <1>2, Constants, OutsideKept DEF Loose
<1> QED
  BY <1>1, <1>3, <1>4, <1>5 DEF Good

\* The claim of the entry that Stop reaches.
LEMMA Reached ==
    ASSUME TypeOK, Good, NEW r \in Recv, NEW m \in owed, OthersSame(r),
           Walks(r)', next'[r] = m, owed' = owed \ {m}, ~ByMine(r, m)',
           UNCHANGED <<refs, fresh, chain>>, pc[r] \in {"first", "walk"}, pc'[r] \in {"walk", "visit"}
    PROVE  Token(m)'
<1>1. m \in Ends /\ Token(m) /\ r \in Threads /\ r # Timer
  BY Constants DEF TypeOK, Good, Tokens
<1>2. (\A u \in Threads \ {r} : ~ByMine(u, m)) /\ (\A s \in Recv \ {r} : ~ByNext(s, m))
  BY <1>1, Sole DEF Token
<1>3. refs'[m] = One(TRUE) + Cardinality(Own(m)) /\ m \notin fresh' /\ m \notin owed' /\ m \notin chain'
  BY <1>1 DEF Token, OneClaim, RefCount, FreshUnknown, Claimed, One
<1>4. ~ByMine(r, m)' /\ ByNext(r, m)' /\ r \notin Own(m) /\ r \notin Own(m)'
  BY DEF ByMine, ByNext, Own
<1> QED
  BY <1>1, <1>2, <1>3, <1>4, TokenMoved

LEMMA FirstGood ==
    ASSUME TypeOK, Places, Good, NEW r \in Recv, StopFirst(r)
    PROVE  Good'
<1>1. /\ pc[r] = "first" /\ pc' = [pc EXCEPT ![r] = "walk"]
      /\ next' = [next EXCEPT ![r] = flink[r]] /\ owed' = owed \ ({flink[r]} \cap Ends)
      /\ UNCHANGED <<flink, blink, refs, fresh, mine, chain, broken>>
  BY DEF StopFirst, Goto, Advance, Claim, links, ends
<1>2. PICK m \in Nodes : m = flink[r]
  BY Constants DEF TypeOK
<1>3. /\ pc'[r] = "walk" /\ next'[r] = m
      /\ \A u \in Threads \ {r} : pc'[u] = pc[u] /\ next'[u] = next[u]
      /\ r \in Threads /\ r \in Nodes /\ r \notin Ends
  BY <1>1, <1>2, Constants DEF TypeOK
<1>4. OthersSame(r) /\ Walks(r)'
  BY <1>1, <1>3 DEF OthersSame, Walks
<1>5. Links' /\ m \in owed \cup {r}
  <2>1. \A s \in Recv \ {r} : ~(Walks(s) /\ next[s] # s /\ next[s] = r)
    BY <1>3 DEF Good, Links, Around
  <2>2. \A s \in Recv \ {r} : pc'[s] = pc[s]
    BY <1>3, Constants
  <2>3. Links' /\ flink[r] \in owed \cup {r}
    BY <1>1, <1>3, <1>4, <2>1, <2>2, AdvanceLinks DEF Good
  <2> QED
    BY <1>2, <2>3
<1>6. Tokens'
  <2>1. ASSUME NEW d \in Ends, d # m PROVE Token(d)'
    <3>1. Token(d)
      BY DEF Good, Tokens
    <3>2. (ByMine(r, d)' <=> ByMine(r, d)) /\ (r \in Own(d)' <=> r \in Own(d))
          /\ (ByNext(r, d)' <=> ByNext(r, d)) /\ (d \in owed' <=> d \in owed)
      BY <1>1, <1>2, <1>3, <2>1, Constants DEF ByMine, ByNext, Walks, Own
    <3> QED
      BY <1>1, <1>3, <1>4, <3>1, <3>2, TokenKept
  <2>2. ASSUME m \in Ends PROVE Token(m)'
    <3>1. m \in owed /\ owed' = owed \ {m}
      BY <1>1, <1>2, <1>3, <1>5, <2>2
    <3>2. ~ByMine(r, m)'
      BY <1>3, Constants DEF ByMine
    <3> QED
      BY <1>1, <1>3, <1>4, <3>1, <3>2, Reached
  <2> QED
    BY <2>1, <2>2 DEF Tokens
<1>7. Outside'
  BY <1>1, <1>3, Constants, OutsideKept DEF Loose
<1> QED
  BY <1>1, <1>5, <1>6, <1>7 DEF Good

LEMMA WalkGood ==
    ASSUME TypeOK, Places, Good, NEW r \in Recv, StopWalk(r)
    PROVE  Good'
<1>1. /\ pc[r] = "walk" /\ next[r] # r /\ pc' = [pc EXCEPT ![r] = "visit"]
      /\ mine' = [mine EXCEPT ![r] = next[r]] /\ next' = [next EXCEPT ![r] = flink[next[r]]]
      /\ owed' = owed \ ({flink[next[r]]} \cap Ends)
      /\ broken' = (next[r] \notin Ends \/ ~Valid(next[r]))
      /\ UNCHANGED <<flink, blink, refs, fresh, chain>>
  BY DEF StopWalk, Goto, Advance, Claim, links, ends
<1>2. PICK n \in Ends : n = next[r]
  BY <1>1 DEF Good, Links, Around, Walks
<1>3. PICK m \in Nodes : m = flink[n]
  BY Constants DEF TypeOK
<1>4. /\ pc'[r] = "visit" /\ next'[r] = m /\ mine'[r] = n
      /\ \A u \in Threads \ {r} : pc'[u] = pc[u] /\ next'[u] = next[u] /\ mine'[u] = mine[u]
      /\ r \in Threads /\ r \in Nodes /\ r \notin Ends /\ r # Timer /\ n \in Nodes
  BY <1>1, <1>2, <1>3, Constants DEF TypeOK
<1>5. OthersSame(r) /\ Walks(r)' /\ Walks(r)
  BY <1>1, <1>4 DEF OthersSame, Walks
<1>6. Token(n) /\ ByNext(r, n)
  BY <1>2, <1>5 DEF Good, Tokens, ByNext
<1>7. n \notin owed /\ ~broken' /\ refs[n] > 0
  <2>1. Claimed(n)
    BY <1>6 DEF Claimed
  <2>2. n \notin owed /\ refs[n] > 0
    BY <1>6, <2>1, Counted DEF Token, OneClaim
  <2>3. Valid(n)
    BY <2>2, Constants DEF Valid
  <2> QED
    BY <1>1, <1>2, <2>2, <2>3
<1>8. Links' /\ m \in owed \cup {r} /\ n # m
  <2>1. \A s \in Recv \ {r} : ~(Walks(s) /\ next[s] # s /\ next[s] = n)
    BY <1>6 DEF Token, OneClaim, ByNext
  <2>2. \A s \in Recv \ {r} : pc'[s] = pc[s]
    BY <1>4, Constants
  <2>3. next' = [next EXCEPT ![r] = flink[n]] /\ owed' = owed \ ({flink[n]} \cap Ends)
    BY <1>1, <1>2
  <2>4. Links' /\ flink[n] \in owed \cup {r}
    BY <1>1, <1>2, <1>4, <1>5, <1>7, <2>1, <2>2, <2>3, AdvanceLinks DEF Good
  <2> QED
    BY <1>3, <1>4, <1>7, <2>4
<1>9. Tokens'
  <2>1. ASSUME NEW d \in Ends, d # m, d # n PROVE Token(d)'
    <3>1. Token(d)
      BY DEF Good, Tokens
    <3>2. (ByMine(r, d)' <=> ByMine(r, d)) /\ (r \in Own(d)' <=> r \in Own(d))
          /\ (ByNext(r, d)' <=> ByNext(r, d)) /\ (d \in owed' <=> d \in owed)
      BY <1>1, <1>2, <1>3, <1>4, <2>1 DEF ByMine, ByNext, Walks, Own
    <3> QED
      BY <1>1, <1>4, <1>5, <3>1, <3>2, TokenKept
  <2>2. ASSUME m \in Ends PROVE Token(m)'
    <3>1. m \in owed /\ owed' = owed \ {m}
      BY <1>1, <1>2, <1>3, <1>4, <1>8, <2>2
    <3>2. ~ByMine(r, m)'
      BY <1>4, <1>8 DEF ByMine
    <3> QED
      BY <1>1, <1>4, <1>5, <3>1, <3>2, Reached
  <2>3. Token(n)'
    <3>1. (\A u \in Threads \ {r} : ~ByMine(u, n)) /\ (\A s \in Recv \ {r} : ~ByNext(s, n))
      BY <1>4, <1>6, Sole DEF Token
    <3>2. refs'[n] = One(TRUE) + Cardinality(Own(n))
      BY <1>1, <1>6 DEF Token, RefCount, Claimed, One
    <3>3. n \notin fresh' /\ n \notin owed' /\ n \notin chain'
      BY <1>1, <1>6, <1>7 DEF Token, OneClaim, FreshUnknown, Claimed
    <3>4. ByMine(r, n)' /\ ~ByNext(r, n)' /\ r \notin Own(n) /\ r \notin Own(n)'
      BY <1>1, <1>4, <1>8 DEF ByMine, ByNext, Own
    <3> QED
      BY <1>4, <1>5, <3>1, <3>2, <3>3, <3>4, TokenMoved
  <2> QED
    BY <2>1, <2>2, <2>3 DEF Tokens
<1>10. Outside'
  BY <1>1, <1>4, Constants, OutsideKept DEF Loose
<1> QED
  BY <1>7, <1>8, <1>9, <1>10 DEF Good

LEMMA CollectGood ==
    ASSUME TypeOK, Places, Good, Collect
    PROVE  Good'
<1>1. PICK e \in InList : RemoveEntryList(e) /\ chain' = chain \cup {e} /\ owed' = owed \ {e}
  BY DEF Collect, Claim
<1>2. /\ pc[Timer] = "collect" /\ UNCHANGED <<refs, fresh, pc, mine, next, broken>>
  BY DEF Collect, ends
<1>3. e \in Ends /\ e \in owed /\ Token(e)
  BY ListIsOfEnds, InListIsOwed DEF Good, Tokens
<1>4. SameStops /\ OthersSame(Timer)
  BY <1>2 DEF SameStops, OthersSame, Walks, Waits
<1>5. ~Claimed(e) /\ e \notin fresh
  BY <1>3 DEF Token, OneClaim, FreshUnknown
<1>6. Links' /\ Loose(e)' /\ \A c \in Ends : Loose(c) => Loose(c)'
  BY <1>1, <1>2, <1>3, <1>4, <1>5, CutLinks DEF Good, Claimed
<1>7. Tokens'
  <2>1. ASSUME NEW d \in Ends, d # e PROVE Token(d)'
    <3>1. Token(d) /\ (ByMine(Timer, d)' <=> ByMine(Timer, d))
      BY <1>2 DEF Good, Tokens, ByMine
    <3> QED
      BY <1>1, <1>2, <1>4, <2>1, <3>1, Constants, TokenKept
  <2>2. Token(e)'
    <3>1. refs'[e] = One(TRUE) + Cardinality(Own(e)) /\ ~ByMine(Timer, e)'
      BY <1>2, <1>3 DEF Token, RefCount, One, ByMine
    <3>2. (\A u \in Threads : ~ByMine(u, e)) /\ (\A s \in Recv : ~ByNext(s, e))
      BY <1>5 DEF Claimed
    <3>3. e \notin fresh' /\ e \notin owed' /\ e \in chain'
      BY <1>1, <1>2, <1>5
    <3> QED
      BY <1>3, <1>4, <3>1, <3>2, <3>3, Constants, TokenMoved
  <2> QED
    BY <2>1, <2>2 DEF Tokens
<1>8. Outside'
  BY <1>1, <1>2, <1>6, OutsideKept
<1> QED
  BY <1>2, <1>6, <1>7, <1>8 DEF Good

LEMMA DisconnectGood ==
    ASSUME TypeOK, Places, Good, Disconnect
    PROVE  Good'
<1>1. PICK e \in chain : mine' = [mine EXCEPT ![Timer] = e] /\ chain' = chain \ {e}
  BY DEF Disconnect
<1>2. /\ pc[Timer] = "none" /\ pc' = [pc EXCEPT ![Timer] = "unlink"]
      /\ UNCHANGED <<flink, blink, refs, fresh, next, owed, broken>>
  BY DEF Disconnect, Goto, links, ends, hist
<1>3. e \in Ends /\ Token(e) /\ Loose(e)
  BY DEF TypeOK, Good, Tokens, Outside
<1>4. /\ pc'[Timer] = "unlink" /\ mine'[Timer] = e
      /\ \A u \in Threads \ {Timer} : pc'[u] = pc[u] /\ mine'[u] = mine[u]
  BY <1>1, <1>2, Constants DEF TypeOK
<1>5. SameStops /\ OthersSame(Timer)
  BY <1>2, <1>4, Constants DEF SameStops, OthersSame, Walks, Waits
<1>6. Links'
  BY <1>2, <1>5, LinksFrame DEF Good
<1>7. \A d \in Ends : ~ByMine(Timer, d) /\ (ByMine(Timer, d)' <=> d = e)
  BY <1>2, <1>4 DEF ByMine
<1>8. Tokens'
  <2>1. ASSUME NEW d \in Ends, d # e PROVE Token(d)'
    <3>1. Token(d)
      BY DEF Good, Tokens
    <3> QED
      BY <1>1, <1>2, <1>5, <1>7, <2>1, <3>1, Constants, TokenKept
  <2>2. Token(e)'
    <3>1. refs'[e] = One(TRUE) + Cardinality(Own(e))
      BY <1>2, <1>3 DEF Token, RefCount, Claimed, One
    <3>2. (\A u \in Threads \ {Timer} : ~ByMine(u, e)) /\ (\A s \in Recv \ {Timer} : ~ByNext(s, e))
      BY <1>3, Constants, Sole DEF Token
    <3>3. e \notin fresh' /\ e \notin owed' /\ e \notin chain'
      BY <1>1, <1>2, <1>3 DEF Token, OneClaim, FreshUnknown, Claimed
    <3> QED
      BY <1>3, <1>5, <1>7, <3>1, <3>2, <3>3, Constants, TokenMoved
  <2> QED
    BY <2>1, <2>2 DEF Tokens
<1>9. Outside'
  <2>1. Loose(e)'
    BY <1>2, <1>3 DEF Loose
  <2>2. Loose(mine[Timer])'
    BY <1>4, <2>1 DEF Loose
  <2> QED
    BY <1>1, <1>2, <2>2, OutsideKept DEF Loose
<1> QED
  BY <1>2, <1>6, <1>8, <1>9 DEF Good

-----------------------------------------------------------------------------
\* The invariant.
LEMMA InitGood == Init => Good
<1> SUFFICES ASSUME Init PROVE Good
  OBVIOUS
<1>1. /\ \A n \in Nodes : flink[n] = n /\ blink[n] = n
      /\ owed = {} /\ chain = {} /\ ~broken
      /\ \A t \in Threads : pc[t] \in {"listen", "none"}
      /\ \A e \in Ends : refs[e] = 0
  BY DEF Init
<1>2. Tokens
  <2> SUFFICES ASSUME NEW e \in Ends PROVE Token(e)
    BY DEF Tokens
  <2>1. ~Claimed(e) /\ e \notin owed /\ Own(e) = {}
    BY <1>1, Constants DEF Claimed, ByMine, ByNext, Walks, Own
  <2>2. refs[e] = One(e \in owed \/ Claimed(e)) + Cardinality(Own(e))
    BY <1>1, <2>1, FS_EmptySet DEF One
  <2> QED
    BY <1>1, <2>1, <2>2 DEF Token, OneClaim, RefCount, FreshUnknown, Claimed
<1>3. HeadsWait /\ TwoWay
  BY <1>1, Constants DEF HeadsWait, TwoWay, Loose
<1>4. Around
  BY <1>1, Constants DEF Around, Walks
<1>5. Lists
  <2> DEFINE home == [n \in Nodes |-> IF n \in Heads THEN n ELSE List]
             rank == [e \in Ends |-> 0]
  <2>1. home \in [Nodes -> Heads] /\ rank \in [Ends -> Nat]
    BY Constants DEF Heads
  <2>2. Homes(home)
    BY <1>1, Constants DEF Homes, Heads, Walks
  <2>3. fresh = Ends
    BY DEF Init
  <2>4. Ranks(rank)
    BY <1>1, <2>3 DEF Ranks
  <2> HIDE DEF home, rank
  <2> QED
    BY <2>1, <2>2, <2>4 DEF Lists
<1>6. Outside
  BY <1>1, Constants DEF Outside, Loose, Init
<1> QED
  BY <1>1, <1>2, <1>3, <1>4, <1>5, <1>6 DEF Good, Links

\* What was claimed twice stays so.
LEMMA TwiceStays == TypeOK /\ twice /\ [Next]_vars => twice'
BY DEF TypeOK, vars, hist, Next, Start, Post, Count, Started, OnTimer, Collect, Collected,
       Disconnect, Destroy, OnConnect, OnDisconnect, OnPing, Get, RecvEnds, Complete, Stop, StopTake,
       StopFirst, StopWalk, StopVisit, StopEnd, Advance, Claim, Remove, Unlink, RemoveEnd, Release

LEMMA VarsGood == TypeOK /\ Places /\ Good /\ UNCHANGED vars => Good'
<1> SUFFICES ASSUME TypeOK, Places, Good, UNCHANGED vars PROVE Good'
  OBVIOUS
<1>1. UNCHANGED <<flink, blink, owed, fresh, refs, chain, mine, next, broken, pc>>
  BY DEF vars, links, ends, hist
<1>2. SameStops
  BY <1>1 DEF SameStops, Walks, Waits
<1> QED
  BY <1>1, <1>2, PlainGood

LEMMA GoodStep ==
    ASSUME TypeOK, Places, Good, Next, ~twice'
    PROVE  Good'
<1>1. ASSUME NEW t \in Threads, NEW l, pc' = [pc EXCEPT ![t] = l],
             {pc[t], l} \cap {"unlink", "drop", "release", "visit", "first", "walk"} = {},
             l \in {"complete", "done"} \/ t \notin Recv \/ Waits(t),
             UNCHANGED <<flink, blink, owed, fresh, refs, chain, mine, next, broken>>
      PROVE  Good'
  <2>1. pc'[t] = l /\ \A u \in Threads \ {t} : pc'[u] = pc[u]
    BY <1>1 DEF TypeOK
  <2>2. SameStops
    BY <1>1, <2>1, Constants DEF SameStops, Walks, Waits
  <2> QED
    BY <1>1, <2>1, <2>2, PlainGood
<1>2. CASE Post
  <2>0. PICK r \in Recv : /\ pc[r] = "none"
                          /\ \/ pc' = [pc EXCEPT ![Starter] = "count", ![r] = "posted"]
                             \/ pc' = [pc EXCEPT ![r] = "done"]
    BY <1>2 DEF Post, Goto
  <2>2. pc[Starter] = "listen" /\ UNCHANGED <<flink, blink, owed, fresh, refs, chain, mine, next, broken>>
    BY <1>2 DEF Post, links, ends, hist
  <2>3. CASE pc' = [pc EXCEPT ![Starter] = "count", ![r] = "posted"]
    <3>1. pc'[Starter] = "count" /\ pc'[r] = "posted"
          /\ \A u \in Threads \ {Starter, r} : pc'[u] = pc[u]
      BY <2>3, Constants DEF TypeOK
    <3>2. SameStops
      BY <2>0, <2>2, <3>1, Constants DEF SameStops, Walks, Waits
    <3> QED
      BY <2>0, <2>2, <3>1, <3>2, PlainGood
  <2> QED
    BY <1>1, <2>0, <2>2, <2>3, Constants
<1>3. CASE Count \/ Started
  <2>1. PICK l \in {"listen", "done"} : pc' = [pc EXCEPT ![Starter] = l]
    BY <1>3 DEF Count, Started, Goto
  <2>2. pc[Starter] \in {"count", "listen"}
        /\ UNCHANGED <<flink, blink, owed, fresh, refs, chain, mine, next, broken>>
    BY <1>3 DEF Count, Started, links, ends, hist
  <2> QED
    BY <1>1, <2>1, <2>2, Constants
<1>4. CASE OnTimer \/ Collected
  <2>1. PICK l \in {"none", "collect"} : pc' = [pc EXCEPT ![Timer] = l]
    BY <1>4 DEF OnTimer, Collected, Goto
  <2>2. pc[Timer] \in {"none", "collect"}
        /\ UNCHANGED <<flink, blink, owed, fresh, refs, chain, mine, next, broken>>
    BY <1>4 DEF OnTimer, Collected, links, ends, hist
  <2> QED
    BY <1>1, <2>1, <2>2, Constants
<1>5. ASSUME NEW r \in Recv, RecvEnds(r) PROVE Good'
  <2>1. PICK l \in {"take", "complete"} : pc' = [pc EXCEPT ![r] = l]
    BY <1>5 DEF RecvEnds, Goto
  <2>2. pc[r] = "posted" /\ UNCHANGED <<flink, blink, owed, fresh, refs, chain, mine, next, broken>>
    BY <1>5 DEF RecvEnds, links, ends
  <2> QED
    BY <1>1, <2>1, <2>2, Constants DEF Waits
<1>6. ASSUME NEW r \in Recv, Complete(r) PROVE Good'
  <2>1. pc[r] = "complete" /\ pc' = [pc EXCEPT ![r] = "done"]
        /\ UNCHANGED <<flink, blink, owed, fresh, refs, chain, mine, next, broken>>
    BY <1>6 DEF Complete, Goto, links, ends, hist
  <2> QED
    BY <1>1, <2>1, Constants
<1>7. CASE Destroy
  <2>1. UNCHANGED <<flink, blink, owed, fresh, refs, chain, mine, next, broken, pc>>
    BY <1>7 DEF Destroy, links, ends, hist
  <2>2. SameStops
    BY <2>1 DEF SameStops, Walks, Waits
  <2> QED
    BY <2>1, <2>2, PlainGood
<1>8. ASSUME NEW t \in Threads, Unlink(t) PROVE Good'
  <2>1. t # Starter
    BY <1>8 DEF Unlink, Places
  <2> QED
    BY <1>8, <2>1, UnlinkGood, TimerUnlinkGood DEF Threads
<1>9. ASSUME NEW t \in Threads, RemoveEnd(t) PROVE Good'
  <2>1. /\ pc[t] = "drop" /\ Drop(t) /\ owed' = owed /\ mine' = mine
        /\ pc' = [pc EXCEPT ![t] = "release"]
    BY <1>9 DEF RemoveEnd, Goto
  <2>2. mine[t] \in Ends /\ ByMine(t, mine[t])
    BY <2>1 DEF Places, Good, ByMine
  <2> QED
    BY <2>1, <2>2, DroppedGood
<1>10. ASSUME NEW t \in Threads, Release(t) PROVE Good'
  <2>1. t # Starter /\ t # Timer
    BY <1>10 DEF Release, Places
  <2> QED
    BY <1>10, <2>1, ReleaseGood DEF Threads
<1>11. ASSUME NEW r \in Recv, StopVisit(r) PROVE Good'
  <2>1. /\ pc[r] = "visit" /\ Drop(r) /\ owed' = owed /\ mine' = [mine EXCEPT ![r] = NoEnd]
        /\ pc' = [pc EXCEPT ![r] = "walk"]
    BY <1>11 DEF StopVisit, Visit, Goto
  <2>2. mine[r] \in Ends /\ ByMine(r, mine[r]) /\ r \in Threads
    BY <2>1, Constants DEF Places, Good, ByMine
  <2> QED
    BY <2>1, <2>2, DroppedGood
<1>12. ASSUME NEW r \in Recv, Stop(r) PROVE Good'
  BY <1>11, <1>12, TakeGood, FirstGood, WalkGood, EndGood DEF Stop
<1>13. ASSUME NEW r \in Recv, OnDisconnect(r) \/ OnPing(r) PROVE Good'
  BY <1>13, FoundGood DEF OnDisconnect, OnPing
<1> QED
  BY <1>2, <1>3, <1>4, <1>5, <1>6, <1>7, <1>8, <1>9, <1>10, <1>12, <1>13,
     ConnectGood, CollectGood, DisconnectGood
  DEF Next, Start, Remove

LEMMA Invariant == Spec => []IInv
<1>1. Init => IInv
  BY InitType, InitGood DEF IInv
<1>2. IInv /\ [Next]_vars => IInv'
  <2> SUFFICES ASSUME IInv, [Next]_vars PROVE IInv'
    OBVIOUS
  <2>1. TypeOK /\ Places /\ TypeOK' /\ Places'
    BY TypeStep DEF IInv
  <2>2. ~twice' => ~twice
    BY <2>1, TwiceStays DEF TypeOK
  <2>3. ~twice' => Good'
    BY <2>1, <2>2, GoodStep, VarsGood DEF IInv
  <2> QED
    BY <2>1, <2>3 DEF IInv
<1> QED
  BY <1>1, <1>2, PTL DEF Spec

\* The variables have their types, and a thread that works on an endpoint has one.
THEOREM TypeCorrect == Spec => [](TypeOK /\ Places)
<1>1. IInv => TypeOK /\ Places
  BY DEF IInv
<1> QED
  BY <1>1, Invariant, PTL

\* Stop walks the list it took over without the lock, beside receives that
\* connect and disconnect clients, other Stops and the timer, and uses no
\* endpoint that was freed and no list head that is gone, unless some list
\* reference was claimed twice before: for any number of receives and endpoints.
THEOREM StopIsSafe == Spec => []WalkIsSafe
<1>1. IInv => WalkIsSafe
  BY DEF IInv, Good, WalkIsSafe
<1> QED
  BY <1>1, Invariant, PTL

\* As long as nothing was claimed twice, an endpoint has exactly the references
\* of those who will release it, so that each is freed once and by the last.
THEOREM EndpointsAreCounted == Spec => [](twice \/ \A e \in Ends : OneClaim(e) /\ RefCount(e))
<1>1. IInv => twice \/ \A e \in Ends : OneClaim(e) /\ RefCount(e)
  BY DEF IInv, Good, Tokens, Token
<1> QED
  BY <1>1, Invariant, PTL

\* What the lock guards stays a list: whoever walks it under the lock meets only
\* endpoints that nobody has taken out yet.
THEOREM ListIsOwed == Spec => [](twice \/ InList \subseteq owed)
<1>1. IInv => twice \/ InList \subseteq owed
  BY InListIsOwed DEF IInv, Good
<1> QED
  BY <1>1, Invariant, PTL

\* Neither Stop nor the timer's walk ever claims what somebody else has claimed:
\* it is a RemoveConnection of an endpoint that Stop has picked up, or the
\* timer's second Release, that does.
THEOREM OnlyRemovalsClaimTwice ==
    Spec => [][twice' => twice \/ Release(Timer) \/ \E r \in Recv : Unlink(r)]_vars
<1>1. ASSUME IInv, [Next]_vars, twice', ~twice, ~Release(Timer), \A r \in Recv : ~Unlink(r)
      PROVE  FALSE
  <2>1. TypeOK /\ Places /\ Good
    BY <1>1 DEF IInv
  <2>2. ASSUME NEW m, Claim({m} \cap Ends), m \in owed \/ m \notin Ends PROVE ~twice'
    BY <1>1, <2>2 DEF Claim
  <2>3. ASSUME NEW r \in Recv, StopFirst(r) PROVE FALSE
    <3>1. Claim({flink[r]} \cap Ends) /\ pc[r] = "first"
      BY <2>3 DEF StopFirst, Advance
    <3>2. flink[r] \in owed \/ flink[r] \notin Ends
      BY <2>1, <3>1, Constants DEF Good, Links, Around
    <3> QED
      BY <1>1, <2>2, <3>1, <3>2
  <2>4. ASSUME NEW r \in Recv, StopWalk(r) PROVE FALSE
    <3>1. Claim({flink[next[r]]} \cap Ends) /\ Walks(r) /\ next[r] # r
      BY <2>4 DEF StopWalk, Advance, Walks
    <3>2. flink[next[r]] \in owed \/ flink[next[r]] \notin Ends
      BY <2>1, <3>1, Constants DEF Good, Links, Around
    <3> QED
      BY <1>1, <2>2, <3>1, <3>2
  <2>5. ASSUME Collect PROVE FALSE
    <3>1. PICK e \in InList : Claim({e})
      BY <2>5 DEF Collect
    <3>2. e \in owed
      BY <2>1, InListIsOwed DEF Good
    <3> QED
      BY <1>1, <3>1, <3>2 DEF Claim
  <2>6. ASSUME NEW t \in Threads, Unlink(t) \/ Release(t) PROVE FALSE
    <3>1. t # Starter
      BY <2>1, <2>6 DEF Unlink, Release, Places
    <3>2. t = Timer => ~Unlink(t)
      BY <1>1 DEF Unlink
    <3>3. t # Timer => ~Release(t)
      BY <1>1 DEF Release
    <3> QED
      BY <1>1, <2>6, <3>1, <3>2, <3>3 DEF Threads
  <2>7. ASSUME UNCHANGED twice PROVE FALSE
    BY <1>1, <2>7
  <2>8. ASSUME NEW r \in Recv, \/ OnConnect(r) \/ OnDisconnect(r) \/ OnPing(r) \/ RecvEnds(r) \/ Complete(r)
                               \/ StopTake(r) \/ StopVisit(r) \/ StopEnd(r)
        PROVE  FALSE
    BY <2>7, <2>8 DEF OnConnect, OnDisconnect, OnPing, Get, RecvEnds, Complete, StopTake, StopVisit, StopEnd, hist
  <2>9. ASSUME Start \/ OnTimer \/ Collected \/ Disconnect \/ Destroy \/ UNCHANGED vars PROVE FALSE
    BY <2>7, <2>9 DEF Start, Post, Count, Started, OnTimer, Collected, Disconnect, Destroy, vars, hist
  <2>10. ASSUME NEW t \in Threads, RemoveEnd(t) PROVE FALSE
    BY <2>7, <2>10 DEF RemoveEnd
  <2> QED
    BY <1>1, <2>3, <2>4, <2>5, <2>6, <2>8, <2>9, <2>10 DEF Next, Stop, Remove
<1>2. IInv /\ [Next]_vars => [twice' => twice \/ Release(Timer) \/ \E r \in Recv : Unlink(r)]_vars
  BY <1>1
<1> QED
  BY <1>2, Invariant, PTL DEF Spec

-----------------------------------------------------------------------------
(***************************************************************************)
(* Proofs about Alert for every set of alerters, and about Service for any *)
(* number of controls.                                                     *)
(*                                                                         *)
(* Alert, for any set A of threads that alert: the inductive invariant     *)
(* says, besides TypeOK and OneWakeUp, what the two bits can be at each    *)
(* place of WaitForAlert: the wait bit is set only while the thread sleeps *)
(* or finds out that its time is up, and when it is gone the alert bit is  *)
(* there.  OneWakeUp needs this: only the bits tell whether a system call  *)
(* is still to come.                                                       *)
(*                                                                         *)
(* Service: Run and the handler use m_tid by steps of Alert only, so that  *)
(* what is proved of Alert holds of it.  The invariant follows the one     *)
(* token that a control hands from the handler to Run: an alert that is    *)
(* still to be given, or was given and not yet taken.                      *)
(***************************************************************************)

Any(A) == INSTANCE Alert WITH Alerters <- A

-----------------------------------------------------------------------------
\* WaitForAlert has set the wait bit and no system alert has reached it yet.
TimingOut == wpc \in {"reload", "clear"} /\ status = "timeout"
Unwoken == wpc = "sleep" \/ TimingOut

BitsInv ==
    /\ "wait" \in word => "alert" \notin word /\ Unwoken
    /\ Unwoken => word # {}
    /\ wpc \in {"reload", "clear"} /\ status = "alerted" => "alert" \in word

AlertInv(A) == Any(A)!TypeOK /\ Any(A)!WaitBitIsOurs /\ BitsInv /\ Any(A)!OneWakeUp

LEMMA AlertInitInv ==
    ASSUME NEW A
    PROVE  Any(A)!Init => AlertInv(A)
<1> SUFFICES ASSUME Any(A)!Init PROVE AlertInv(A)
  OBVIOUS
<1>1. Any(A)!TypeOK
  BY DEF Any!Init, Any!TypeOK, Any!Words
<1>2. Any(A)!Signallers = {}
  BY DEF Any!Init, Any!Signallers
<1>3. Any(A)!OneWakeUp
  BY <1>2 DEF Any!Init, Any!OneWakeUp, Any!Owed
<1> QED
  BY <1>1, <1>3 DEF Any!Init, AlertInv, Any!WaitBitIsOurs, BitsInv, Unwoken, TimingOut

\* Type correctness of a step.
LEMMA AlertTypeStep ==
    ASSUME NEW A, Any(A)!TypeOK, [Any(A)!Next]_(Any(A)!alertVars)
    PROVE  Any(A)!TypeOK'
<1> USE DEF Any!TypeOK, Any!Words
<1>1. ASSUME NEW a \in A, Any(A)!Alert(a) PROVE Any(A)!TypeOK'
  BY <1>1 DEF Any!Alert, Any!waiter
<1>2. ASSUME NEW a \in A, Any(A)!AlertExchange(a) PROVE Any(A)!TypeOK'
  BY <1>2 DEF Any!AlertExchange, Any!waiter
<1>3. ASSUME NEW a \in A, Any(A)!ZwAlertThread(a) PROVE Any(A)!TypeOK'
  BY <1>3 DEF Any!ZwAlertThread, Any!waiter
<1>4. CASE Any(A)!WaitForAlert
  BY <1>4 DEF Any!WaitForAlert, Any!alerter
<1>5. CASE Any(A)!WaitExchange
  BY <1>5 DEF Any!WaitExchange, Any!alerter
<1>6. CASE Any(A)!Woken \/ Any(A)!TimeOut \/ Any(A)!Reload \/ Any(A)!Spin
  BY <1>6 DEF Any!Woken, Any!TimeOut, Any!Reload, Any!Spin, Any!alerter
<1>7. CASE Any(A)!ClearExchange
  BY <1>7 DEF Any!ClearExchange, Any!alerter
<1>8. CASE UNCHANGED Any(A)!alertVars
  BY <1>8 DEF Any!alertVars, Any!waiter, Any!alerter
<1> QED
  BY <1>1, <1>2, <1>3, <1>4, <1>5, <1>6, <1>7, <1>8 DEF Any!Next, Any!AlertStep, Any!WaitStep

\* The set of those about to wake the thread changes only by these two.
LEMMA SignallersSame ==
    ASSUME NEW A, UNCHANGED apc
    PROVE  Any(A)!Signallers' = Any(A)!Signallers
BY DEF Any!Signallers

LEMMA SignallerLeaves ==
    ASSUME NEW A, Any(A)!TypeOK, NEW a \in A, Any(A)!ZwAlertThread(a)
    PROVE  a \in Any(A)!Signallers /\ Any(A)!Signallers' = Any(A)!Signallers \ {a}
BY DEF Any!Signallers, Any!ZwAlertThread, Any!TypeOK

LEMMA SignallerJoins ==
    ASSUME NEW A, Any(A)!TypeOK, NEW a \in A, Any(A)!AlertExchange(a)
    PROVE  IF word = aseen[a] /\ Any(A)!Wakes(word)
           THEN Any(A)!Signallers' = Any(A)!Signallers \cup {a}
           ELSE Any(A)!Signallers' = Any(A)!Signallers
<1> USE DEF Any!Signallers, Any!AlertExchange, Any!TypeOK
<1>1. CASE word = aseen[a] /\ Any(A)!Wakes(word)
  <2>1. apc' = [apc EXCEPT ![a] = "signal"]
    BY <1>1
  <2> QED
    BY <1>1, <2>1
<1>2. CASE word = aseen[a] /\ ~Any(A)!Wakes(word)
  <2>1. apc' = [apc EXCEPT ![a] = "idle"] /\ apc[a] = "cas"
    BY <1>2
  <2> QED
    BY <1>2, <2>1
<1>3. CASE word # aseen[a]
  BY <1>3
<1> QED
  BY <1>1, <1>2, <1>3

\* An alerter's step.
LEMMA AlerterStep ==
    ASSUME NEW A, AlertInv(A), Any(A)!TypeOK', NEW a \in A, Any(A)!Alert(a) \/ Any(A)!AlertStep(a)
    PROVE  Any(A)!WaitBitIsOurs' /\ BitsInv' /\ Any(A)!OneWakeUp'
<1> USE DEF AlertInv
<1>1. CASE Any(A)!Alert(a)
  <2>1. Any(A)!Signallers' = Any(A)!Signallers
    BY <1>1 DEF Any!Alert, Any!Signallers, Any!TypeOK
  <2> QED
    BY <1>1, <2>1 DEF Any!Alert, Any!waiter, Any!WaitBitIsOurs, BitsInv, Unwoken, TimingOut,
                      Any!OneWakeUp, Any!Owed
<1>2. CASE Any(A)!AlertExchange(a)
  <2>1. UNCHANGED <<kernel, wpc, wseen, status>>
    BY <1>2 DEF Any!AlertExchange, Any!waiter
  <2>2. Any(A)!WaitBitIsOurs'
    BY <2>1 DEF Any!WaitBitIsOurs
  <2>3. CASE word = aseen[a] /\ Any(A)!Wakes(word)
    <3>1. word' = {"alert"} /\ Any(A)!Signallers' = Any(A)!Signallers \cup {a}
      BY <1>2, <2>3, SignallerJoins DEF Any!AlertExchange
    <3>2. "wait" \in word /\ Unwoken /\ wpc # "spin"
      BY <2>3 DEF Any!Wakes, BitsInv, Unwoken, TimingOut
    <3>3. ~kernel /\ Any(A)!Signallers = {}
      BY <3>2 DEF Any!OneWakeUp, Any!Owed, Unwoken, TimingOut
    <3>4. BitsInv'
      BY <2>1, <3>1, <3>2 DEF BitsInv, Unwoken, TimingOut
    <3>5. Any(A)!OneWakeUp'
      BY <2>1, <3>1, <3>2, <3>3 DEF Any!OneWakeUp, Any!Owed, Unwoken, TimingOut
    <3> QED
      BY <2>2, <3>4, <3>5
  <2>4. CASE word = aseen[a] /\ ~Any(A)!Wakes(word)
    <3>1. word' = {"alert"} /\ Any(A)!Signallers' = Any(A)!Signallers
      BY <1>2, <2>4, SignallerJoins DEF Any!AlertExchange
    <3>2. "wait" \notin word
      BY <2>4 DEF Any!Wakes, BitsInv
    <3>3. BitsInv'
      BY <2>1, <3>1 DEF BitsInv, Unwoken, TimingOut
    <3>4. Any(A)!OneWakeUp'
      BY <2>1, <3>1, <3>2 DEF Any!OneWakeUp, Any!Owed
    <3> QED
      BY <2>2, <3>3, <3>4
  <2>5. CASE word # aseen[a]
    <3>1. UNCHANGED word /\ Any(A)!Signallers' = Any(A)!Signallers
      BY <1>2, <2>5, SignallerJoins DEF Any!AlertExchange
    <3> QED
      BY <2>1, <2>2, <3>1 DEF BitsInv, Unwoken, TimingOut, Any!OneWakeUp, Any!Owed
  <2> QED
    BY <2>3, <2>4, <2>5
<1>3. CASE Any(A)!ZwAlertThread(a)
  <2>1. a \in Any(A)!Signallers /\ Any(A)!Signallers' = Any(A)!Signallers \ {a}
    BY <1>3, SignallerLeaves
  <2>2. kernel' = TRUE /\ UNCHANGED <<word, wpc, wseen, status>>
    BY <1>3 DEF Any!ZwAlertThread, Any!waiter
  <2>3. ~kernel /\ Any(A)!Signallers' = {}
    BY <2>1 DEF Any!OneWakeUp
  <2>4. Any(A)!WaitBitIsOurs' /\ BitsInv'
    BY <2>2 DEF Any!WaitBitIsOurs, BitsInv, Unwoken, TimingOut
  <2>5. Any(A)!OneWakeUp'
    BY <2>1, <2>2, <2>3 DEF Any!OneWakeUp, Any!Owed
  <2> QED
    BY <2>4, <2>5
<1> QED
  BY <1>1, <1>2, <1>3 DEF Any!AlertStep

\* A step of the waiting thread.
LEMMA WaiterStep ==
    ASSUME NEW A, AlertInv(A), Any(A)!TypeOK',
           Any(A)!WaitForAlert \/ Any(A)!WaitStep \/ Any(A)!TimeOut
    PROVE  Any(A)!WaitBitIsOurs' /\ BitsInv' /\ Any(A)!OneWakeUp'
<1> USE DEF AlertInv
<1>0. Any(A)!Signallers' = Any(A)!Signallers
  BY SignallersSame DEF Any!WaitForAlert, Any!WaitStep, Any!WaitExchange, Any!Woken, Any!Reload,
                        Any!ClearExchange, Any!Spin, Any!TimeOut, Any!alerter
<1>1. CASE Any(A)!WaitForAlert
  BY <1>0, <1>1 DEF Any!WaitForAlert, Any!WaitBitIsOurs, BitsInv, Unwoken, TimingOut,
                    Any!OneWakeUp, Any!Owed
<1>2. CASE Any(A)!WaitExchange
  <2>1. Any(A)!WaitBitIsOurs' /\ BitsInv'
    BY <1>2 DEF Any!WaitExchange, Any!WaitBitIsOurs, BitsInv, Unwoken, TimingOut, Any!TypeOK, Any!Words
  <2>2. ~Any(A)!Owed /\ (wpc' = "sleep" => "wait" \in word') /\ wpc' \in {"out", "cas", "sleep"}
    BY <1>2 DEF Any!WaitExchange, Any!OneWakeUp
  <2>3. Any(A)!Owed' = Any(A)!Owed
    BY <1>0, <1>2 DEF Any!WaitExchange, Any!Owed
  <2>4. Any(A)!OneWakeUp'
    BY <1>0, <2>2, <2>3 DEF Any!OneWakeUp, Any!Owed
  <2> QED
    BY <2>1, <2>4
<1>3. CASE Any(A)!Woken
  <2>1. Any(A)!WaitBitIsOurs' /\ BitsInv'
    BY <1>3 DEF Any!Woken, Any!WaitBitIsOurs, BitsInv, Unwoken, TimingOut, Any!OneWakeUp, Any!Owed,
                Any!TypeOK, Any!Words
  <2>2. Any(A)!OneWakeUp'
    BY <1>0, <1>3 DEF Any!Woken, Any!OneWakeUp, Any!Owed
  <2> QED
    BY <2>1, <2>2
<1>4. CASE Any(A)!TimeOut
  <2>1. Any(A)!WaitBitIsOurs' /\ BitsInv'
    BY <1>4 DEF Any!TimeOut, Any!WaitBitIsOurs, BitsInv, Unwoken, TimingOut
  <2>2. Any(A)!OneWakeUp'
    BY <1>0, <1>4 DEF Any!TimeOut, Any!OneWakeUp, Any!Owed
  <2> QED
    BY <2>1, <2>2
<1>5. CASE Any(A)!Reload
  <2>1. Any(A)!WaitBitIsOurs' /\ BitsInv'
    BY <1>5 DEF Any!Reload, Any!WaitBitIsOurs, BitsInv, Unwoken, TimingOut
  <2>2. Any(A)!OneWakeUp'
    BY <1>0, <1>5 DEF Any!Reload, Any!OneWakeUp, Any!Owed
  <2> QED
    BY <2>1, <2>2
<1>6. CASE Any(A)!ClearExchange
  <2>1. Any(A)!WaitBitIsOurs' /\ BitsInv'
    BY <1>6 DEF Any!ClearExchange, Any!Late, Any!WaitBitIsOurs, BitsInv, Unwoken, TimingOut, Any!TypeOK
  <2>2. CASE word # wseen
    <3>1. UNCHANGED <<word, wpc, status, kernel>>
      BY <1>6, <2>2 DEF Any!ClearExchange
    <3> QED
      BY <1>0, <2>1, <3>1 DEF Any!OneWakeUp, Any!Owed
  <2>3. CASE word = wseen
    <3>1. /\ wpc = "clear" /\ wpc' = IF Any(A)!Late THEN "spin" ELSE "out"
          /\ UNCHANGED <<status, kernel>>
      BY <1>6, <2>3 DEF Any!ClearExchange
    <3>2. Any(A)!Owed <=> Any(A)!Late
      <4>1. Any(A)!Owed <=> "wait" \notin word /\ status = "timeout"
        BY <3>1 DEF Any!OneWakeUp
      <4>2. status = "timeout" => ("wait" \notin word <=> "alert" \in word)
        BY <3>1 DEF BitsInv, Unwoken, TimingOut, Any!TypeOK, Any!Words
      <4> QED
        BY <2>3, <4>1, <4>2 DEF Any!Late
    <3>3. Any(A)!Owed' = Any(A)!Owed
      BY <1>0, <3>1 DEF Any!Owed
    <3>4. Any(A)!OneWakeUp'
      BY <1>0, <3>1, <3>2, <3>3 DEF Any!OneWakeUp, Any!Owed
    <3> QED
      BY <2>1, <3>4
  <2> QED
    BY <2>2, <2>3
<1>7. CASE Any(A)!Spin
  <2>1. Any(A)!WaitBitIsOurs' /\ BitsInv'
    BY <1>7 DEF Any!Spin, Any!WaitBitIsOurs, BitsInv, Unwoken, TimingOut
  <2>2. Any(A)!OneWakeUp'
    BY <1>0, <1>7 DEF Any!Spin, Any!OneWakeUp, Any!Owed
  <2> QED
    BY <2>1, <2>2
<1> QED
  BY <1>1, <1>2, <1>3, <1>4, <1>5, <1>6, <1>7 DEF Any!WaitStep

LEMMA AlertStepInv ==
    ASSUME NEW A
    PROVE  AlertInv(A) /\ [Any(A)!Next]_(Any(A)!alertVars) => AlertInv(A)'
<1> SUFFICES ASSUME AlertInv(A), [Any(A)!Next]_(Any(A)!alertVars) PROVE AlertInv(A)'
  OBVIOUS
<1>1. Any(A)!TypeOK'
  BY AlertTypeStep DEF AlertInv
<1>2. CASE Any(A)!Next
  BY <1>1, <1>2, AlerterStep, WaiterStep DEF Any!Next, AlertInv
<1>3. CASE UNCHANGED Any(A)!alertVars
  <2>1. Any(A)!Signallers' = Any(A)!Signallers
    BY <1>3, SignallersSame DEF Any!alertVars, Any!alerter
  <2> QED
    BY <1>1, <1>3, <2>1 DEF AlertInv, Any!alertVars, Any!waiter, Any!WaitBitIsOurs, BitsInv, Unwoken,
                            TimingOut, Any!OneWakeUp, Any!Owed
<1> QED
  BY <1>2, <1>3

THEOREM AlertInvariant ==
    ASSUME NEW A
    PROVE  Any(A)!Spec => []AlertInv(A)
<1>1. Any(A)!Init => AlertInv(A)
  BY AlertInitInv
<1>2. AlertInv(A) /\ [Any(A)!Next]_(Any(A)!alertVars) => AlertInv(A)'
  BY AlertStepInv
<1> QED
  BY <1>1, <1>2, PTL DEF Any!Spec

\* The variables always have their types.
THEOREM AlertTypeCorrect ==
    ASSUME NEW A
    PROVE  Any(A)!Spec => []Any(A)!TypeOK
<1>1. AlertInv(A) => Any(A)!TypeOK
  BY DEF AlertInv
<1> QED
  BY <1>1, AlertInvariant, PTL

\* The __debugbreak of WaitForAlert is never reached.
THEOREM NoSecondWaiter ==
    ASSUME NEW A
    PROVE  Any(A)!Spec => []Any(A)!WaitBitIsOurs
<1>1. AlertInv(A) => Any(A)!WaitBitIsOurs
  BY DEF AlertInv
<1> QED
  BY <1>1, AlertInvariant, PTL

\* No system call that should wake the thread is lost, and none is left over
\* for a later wait.
THEOREM WakeUpsMatch ==
    ASSUME NEW A
    PROVE  Any(A)!Spec => []Any(A)!OneWakeUp
<1>1. AlertInv(A) => Any(A)!OneWakeUp
  BY DEF AlertInv
<1> QED
  BY <1>1, AlertInvariant, PTL

-----------------------------------------------------------------------------
LEMMA EventInit ==
    ASSUME NEW A
    PROVE  Any(A)!Init => Any(A)!Abs!Init
BY DEF Any!Init, Any!Abs!Init

\* Every step is one of the event's, or changes nothing it shows.
LEMMA EventStep ==
    ASSUME NEW A
    PROVE  AlertInv(A) /\ [Any(A)!Next]_(Any(A)!alertVars)
               => [Any(A)!Abs!Next]_(Any(A)!Abs!avars)
<1> SUFFICES ASSUME AlertInv(A), [Any(A)!Next]_(Any(A)!alertVars)
             PROVE  [Any(A)!Abs!Next]_(Any(A)!Abs!avars)
  OBVIOUS
<1> USE DEF Any!Abs!avars
<1>1. ASSUME NEW a \in A, Any(A)!Alert(a) \/ Any(A)!ZwAlertThread(a)
      PROVE  UNCHANGED Any(A)!Abs!avars
  BY <1>1 DEF Any!Alert, Any!ZwAlertThread, Any!waiter
<1>2. ASSUME NEW a \in A, Any(A)!AlertExchange(a)
      PROVE  Any(A)!Abs!Alert \/ UNCHANGED Any(A)!Abs!avars
  <2>1. UNCHANGED <<wpc, answer>>
    BY <1>2 DEF Any!AlertExchange, Any!waiter
  <2>2. UNCHANGED word \/ "alert" \in word'
    BY <1>2 DEF Any!AlertExchange
  <2> QED
    BY <2>1, <2>2 DEF Any!Abs!Alert
<1>3. CASE Any(A)!WaitForAlert
  <2>1. /\ wpc \in {"out", "spin"} /\ wpc' \notin {"out", "spin"}
        /\ UNCHANGED <<word, answer>>
    BY <1>3 DEF Any!WaitForAlert
  <2>2. Any(A)!Abs!WaitForAlert
    BY <2>1 DEF Any!Abs!WaitForAlert
  <2> QED
    BY <2>2 DEF Any!Abs!Next
<1>4. CASE Any(A)!WaitExchange
  <2>1. CASE word # wseen
    BY <1>4, <2>1 DEF Any!WaitExchange
  <2>2. CASE word = wseen /\ "alert" \in word
    <3>1. Any(A)!Abs!Alerted
      BY <1>4, <2>2 DEF Any!WaitExchange, Any!Abs!Alerted
    <3> QED
      BY <3>1 DEF Any!Abs!Next
  <2>3. CASE word = wseen /\ "alert" \notin word
    BY <1>4, <2>3 DEF Any!WaitExchange
  <2> QED
    BY <2>1, <2>2, <2>3 DEF Any!Abs!Next
<1>5. CASE Any(A)!Woken \/ Any(A)!TimeOut \/ Any(A)!Reload \/ Any(A)!Spin
  BY <1>5 DEF Any!Woken, Any!TimeOut, Any!Reload, Any!Spin
<1>6. CASE Any(A)!ClearExchange
  <2>1. CASE word # wseen
    BY <1>6, <2>1 DEF Any!ClearExchange
  <2>2. CASE word = wseen /\ "alert" \in word
    <3>1. answer' = "alerted"
      BY <1>6, <2>2 DEF Any!ClearExchange, Any!Late, AlertInv, Any!TypeOK
    <3>2. Any(A)!Abs!Alerted
      BY <1>6, <2>2, <3>1 DEF Any!ClearExchange, Any!Abs!Alerted
    <3> QED
      BY <3>2 DEF Any!Abs!Next
  <2>3. CASE word = wseen /\ "alert" \notin word
    <3>1. status = "timeout"
      BY <1>6, <2>3 DEF Any!ClearExchange, AlertInv, Any!TypeOK, BitsInv
    <3>2. Any(A)!Abs!TimedOut
      BY <1>6, <2>3, <3>1 DEF Any!ClearExchange, Any!Late, Any!Abs!TimedOut
    <3> QED
      BY <3>2 DEF Any!Abs!Next
  <2> QED
    BY <2>1, <2>2, <2>3
<1>7. CASE UNCHANGED Any(A)!alertVars
  BY <1>7 DEF Any!alertVars, Any!waiter
<1> QED
  BY <1>1, <1>2, <1>3, <1>4, <1>5, <1>6, <1>7 DEF Any!Next, Any!AlertStep, Any!WaitStep, Any!Abs!Next

\* Alert implements AlertSpec: an alert given while nobody waits is kept, many
\* count as one, and no wait that times out swallows or leaves one.
THEOREM AlertImplements ==
    ASSUME NEW A
    PROVE  Any(A)!Spec => Any(A)!AbsSpec
<1>1. Any(A)!Init => Any(A)!Abs!Init
  BY EventInit
<1>2. AlertInv(A) /\ [Any(A)!Next]_(Any(A)!alertVars) => [Any(A)!Abs!Next]_(Any(A)!Abs!avars)
  BY EventStep
<1> QED
  BY <1>1, <1>2, AlertInvariant, PTL DEF Any!Spec, Any!AbsSpec, Any!Abs!Spec

-----------------------------------------------------------------------------
ToAlert == handling /\ apc[Dispatcher] \in {"idle", "cas"}
Alerted == "alert" \in word
AlertToken == ToAlert \/ Alerted

\* The checkpoint counts exactly while a change is pending.
Changing == transit <=> state \in Pendings

\* Run waits in its place only, without a timeout, and the handler alerts only
\* after it has left the lock.
RunWaits ==
    /\ place # "wait" => wpc = "out"
    /\ wpc # "spin" /\ (wpc \in {"reload", "clear"} => status = "alerted")
    /\ ~handling => apc[Dispatcher] = "idle"

\* As long as every start succeeds a change has one token: it goes with the alert,
\* and then Run is on its way.
Returned == {"test", "top", "set", "end"}
OneToken ==
    ~failed =>
        /\ AlertToken => transit
        /\ ToAlert => ~Alerted
        /\ place \in Returned \cup {"gone"} => ~handling /\ ~Alerted
        /\ place \in Returned => transit

Ended == place = "gone" => state = "STOPPED"

\* Whatever starts: Run knows the target, or will read it.
UpToDate ==
    \/ AlertToken \/ unreported
    \/ place \in {"test", "top", "end", "gone"}
    \/ place = "set" /\ dwState = target
    \/ place \in {"start", "wait"} /\ state = target /\ ~transit

ServiceInv == ServiceTypeOK /\ Changing /\ RunWaits /\ OneToken /\ Ended /\ UpToDate

Controls == {"STOP", "PAUSE", "CONTINUE"}

-----------------------------------------------------------------------------
\* The alert of Service is the one with the handler as its only alerter.
LEMMA SameInit == TID!Init <=> Any({Dispatcher})!Init
BY DEF TID!Init, Any!Init

LEMMA SameStep ==
    [TID!Next]_(TID!alertVars) <=> [Any({Dispatcher})!Next]_(Any({Dispatcher})!alertVars)
<1>1. \A a \in {Dispatcher} :
        TID!Alert(a) \/ TID!AlertStep(a)
            <=> Any({Dispatcher})!Alert(a) \/ Any({Dispatcher})!AlertStep(a)
  BY DEF TID!Alert, TID!AlertStep, TID!AlertExchange, TID!Wakes, TID!ZwAlertThread, TID!waiter,
         Any!Alert, Any!AlertStep, Any!AlertExchange, Any!Wakes, Any!ZwAlertThread, Any!waiter
<1>2. /\ TID!WaitForAlert <=> Any({Dispatcher})!WaitForAlert
      /\ TID!TimeOut <=> Any({Dispatcher})!TimeOut
  BY DEF TID!WaitForAlert, TID!TimeOut, TID!alerter, Any!WaitForAlert, Any!TimeOut, Any!alerter
<1>3. /\ TID!WaitExchange <=> Any({Dispatcher})!WaitExchange
      /\ TID!ClearExchange <=> Any({Dispatcher})!ClearExchange
  BY DEF TID!WaitExchange, TID!ClearExchange, TID!Late, TID!alerter,
         Any!WaitExchange, Any!ClearExchange, Any!Late, Any!alerter
<1>4. /\ TID!Woken <=> Any({Dispatcher})!Woken
      /\ TID!Reload <=> Any({Dispatcher})!Reload
      /\ TID!Spin <=> Any({Dispatcher})!Spin
  BY DEF TID!Woken, TID!Reload, TID!Spin, TID!alerter, Any!Woken, Any!Reload, Any!Spin, Any!alerter
<1>5. UNCHANGED TID!alertVars <=> UNCHANGED Any({Dispatcher})!alertVars
  BY DEF TID!alertVars, TID!waiter, TID!alerter, Any!alertVars, Any!waiter, Any!alerter
<1> QED
  BY <1>1, <1>2, <1>3, <1>4, <1>5 DEF TID!Next, TID!WaitStep, Any!Next, Any!WaitStep

\* What the service does with m_tid are steps of Alert.
LEMMA AlertStep == [ServiceNext]_serviceVars => [TID!Next]_(TID!alertVars)
<1> SUFFICES ASSUME [ServiceNext]_serviceVars PROVE [TID!Next]_(TID!alertVars)
  OBVIOUS
<1>1. CASE Handler
  BY <1>1 DEF Handler, TID!Next
<1>2. CASE Wait
  BY <1>2 DEF Wait, TID!Next, TID!WaitStep
<1>3. ASSUME UNCHANGED tid PROVE UNCHANGED TID!alertVars
  BY <1>3 DEF tid, TID!alertVars, TID!waiter, TID!alerter
<1>4. CASE Top \/ Set \/ StartServer \/ Test \/ End \/ UNCHANGED serviceVars
  BY <1>3, <1>4 DEF Top, Set, StartServer, Test, End, serviceVars
<1>5. CASE \E c \in Controls : PreHandler(c)
  BY <1>3, <1>5 DEF PreHandler
<1> QED
  BY <1>1, <1>2, <1>4, <1>5 DEF ServiceNext, Run, Controls

LEMMA InitIInv == ServiceInit => ServiceInv
<1> SUFFICES ASSUME ServiceInit PROVE ServiceInv
  OBVIOUS
<1>1. TID!TypeOK
  BY DEF ServiceInit, TID!Init, TID!TypeOK, TID!Words
<1>2. ServiceTypeOK
  <2>1. state \in Finals \cup Pendings /\ target \in Finals /\ dwState \in Finals
    BY DEF ServiceInit, Finals, Pendings
  <2>2. accepted \subseteq Accepts
    BY DEF ServiceInit
  <2>3. controls \in 0 .. MaxControls
    BY ControlsAssumption DEF ServiceInit
  <2> QED
    BY <1>1, <2>1, <2>2, <2>3 DEF ServiceInit, ServiceTypeOK
<1>3. RunWaits
  BY DEF ServiceInit, TID!Init, RunWaits
<1>4. ~AlertToken
  BY DEF ServiceInit, TID!Init, AlertToken, ToAlert, Alerted
<1> QED
  BY <1>2, <1>3, <1>4
  DEF ServiceInit, ServiceInv, Changing, Pendings, OneToken, Returned, Ended, UpToDate, AlertToken

-----------------------------------------------------------------------------
\* Types: those of m_tid come from the first half of this module.
LEMMA ServiceTypeStep ==
    ASSUME ServiceTypeOK, TID!TypeOK', [ServiceNext]_serviceVars
    PROVE  ServiceTypeOK'
<1>1. CASE Top \/ StartServer \/ Test
  BY <1>1 DEF Top, StartServer, Test, ServiceTypeOK, Finals, svc
<1>2. CASE Set \/ End
  <2>1. state' \in Finals \cup Pendings /\ accepted' \subseteq Accepts /\ transit' \in BOOLEAN
    BY <1>2 DEF Set, End, SetState, ServiceTypeOK, Finals
  <2> QED
    BY <1>2, <2>1 DEF Set, End, ServiceTypeOK
<1>3. CASE Wait \/ Handler
  BY <1>3 DEF Wait, Handler, svc, ServiceTypeOK
<1>4. ASSUME NEW c \in Controls, PreHandler(c) PROVE ServiceTypeOK'
  <2>1. state' \in Pendings /\ target' \in Finals
    BY <1>4 DEF Controls, PreHandler, BeginChangeState, Control, Pendings, Finals
  <2>2. accepted' = {} /\ transit' = TRUE
    BY <1>4 DEF PreHandler, BeginChangeState
  <2>3. controls' \in 0 .. MaxControls
    BY <1>4, ControlsAssumption DEF PreHandler, ServiceTypeOK
  <2> QED
    BY <1>4, <2>1, <2>2, <2>3 DEF PreHandler, ServiceTypeOK
<1>5. CASE UNCHANGED serviceVars
  BY <1>5 DEF serviceVars, svc, ServiceTypeOK
<1> QED
  BY <1>1, <1>2, <1>3, <1>4, <1>5 DEF ServiceNext, Run, Controls

\* A control: no token is under way unless a start failed.
LEMMA PreHandlerStep ==
    ASSUME ServiceInv, NEW c \in Controls, PreHandler(c)
    PROVE  (Changing /\ RunWaits /\ OneToken /\ Ended /\ UpToDate)'
<1> USE DEF PreHandler, BeginChangeState, MayChange, Controls, Control
<1>1. Changing'
  BY DEF Changing, Pendings
<1>2. UNCHANGED <<word, wpc, status, apc, place, dwState>>
  BY DEF tid
<1>3. RunWaits'
  BY <1>2 DEF ServiceInv, RunWaits
<1>4. OneToken'
  BY <1>2 DEF ServiceInv, OneToken, AlertToken, ToAlert, Alerted, Returned, Ended
<1>5. Ended'
  BY <1>2 DEF ServiceInv, Ended
<1>6. UpToDate'
  BY <1>2 DEF ServiceInv, UpToDate, AlertToken, ToAlert, Alerted, RunWaits
<1> QED
  BY <1>1, <1>3, <1>4, <1>5, <1>6

\* The handler hands its token over.
LEMMA HandlerStep ==
    ASSUME ServiceInv, AlertInv({Dispatcher}), ServiceTypeOK', Handler
    PROVE  (Changing /\ RunWaits /\ OneToken /\ Ended /\ UpToDate)'
<1>1. UNCHANGED <<place, dwState, svc>>
  BY DEF Handler
<1>2. UNCHANGED <<state, transit, target, failed, unreported, place, dwState>>
  BY <1>1 DEF svc
<1>3. UNCHANGED <<wpc, status>>
  BY DEF Handler, TID!Alert, TID!AlertStep, TID!AlertExchange, TID!ZwAlertThread, TID!waiter
<1>4. Changing' /\ Ended'
  BY <1>2 DEF ServiceInv, Changing, Ended
<1>5. RunWaits'
  BY <1>2, <1>3 DEF Handler, ServiceInv, ServiceTypeOK, TID!TypeOK, RunWaits
<1>6. handling
  BY DEF Handler
<1>7. (AlertToken' => AlertToken) /\ (AlertToken => AlertToken') /\ ((ToAlert' => ~Alerted') \/ failed)
  <2>1. CASE TID!Alert(Dispatcher)
    BY <1>6, <2>1 DEF Handler, TID!Alert, ServiceInv, ServiceTypeOK, TID!TypeOK, OneToken,
       AlertToken, ToAlert, Alerted
  <2>2. CASE TID!AlertExchange(Dispatcher)
    BY <1>6, <2>2 DEF Handler, TID!AlertExchange, ServiceInv, ServiceTypeOK, TID!TypeOK, OneToken,
       AlertToken, ToAlert, Alerted
  <2>3. CASE TID!ZwAlertThread(Dispatcher)
    BY <1>6, <2>3 DEF Handler, TID!ZwAlertThread, ServiceInv, ServiceTypeOK, TID!TypeOK, OneToken,
       AlertToken, ToAlert, Alerted
  <2> QED
    BY <2>1, <2>2, <2>3 DEF Handler, TID!AlertStep
<1>8. AlertToken => AlertToken'
  <2>1. CASE TID!Alert(Dispatcher)
    BY <1>6, <2>1 DEF Handler, TID!Alert, ServiceInv, ServiceTypeOK, TID!TypeOK, AlertToken,
       ToAlert, Alerted
  <2>2. CASE TID!AlertExchange(Dispatcher)
    BY <1>6, <2>2 DEF Handler, TID!AlertExchange, ServiceInv, ServiceTypeOK, TID!TypeOK,
       AlertToken, ToAlert, Alerted
  <2>3. CASE TID!ZwAlertThread(Dispatcher)
    BY <1>6, <2>3 DEF Handler, TID!ZwAlertThread, ServiceInv, ServiceTypeOK, TID!TypeOK,
       AlertToken, ToAlert, Alerted
  <2> QED
    BY <2>1, <2>2, <2>3 DEF Handler, TID!AlertStep
<1>9. OneToken'
  BY <1>2, <1>6, <1>7 DEF ServiceInv, OneToken, Returned
<1>10. UpToDate'
  BY <1>2, <1>8 DEF ServiceInv, UpToDate
<1> QED
  BY <1>4, <1>5, <1>9, <1>10

\* SetState ends a change, also when it finds its state reported already.
LEMMA SetStateEnds ==
    ASSUME ServiceInv, NEW new \in Finals, NEW acc, SetState(new, acc)
    PROVE  state' = new /\ ~transit'
<1>1. CASE state = new
  <2>1. ~transit
    BY <1>1 DEF ServiceInv, Changing, Finals, Pendings
  <2> QED
    BY <1>1, <2>1 DEF SetState
<1>2. CASE state # new
  BY <1>2 DEF SetState
<1> QED
  BY <1>1, <1>2

\* Steps of Run that leave m_tid alone.
LEMMA RunStep ==
    ASSUME ServiceInv, ServiceTypeOK', Top \/ Set \/ StartServer \/ Test \/ End
    PROVE  (Changing /\ RunWaits /\ OneToken /\ Ended /\ UpToDate)'
<1>1. UNCHANGED <<word, wpc, status, apc, handling>>
  BY DEF Top, Set, StartServer, Test, End, tid
<1>2. (AlertToken' <=> AlertToken) /\ (ToAlert' <=> ToAlert) /\ (Alerted' <=> Alerted)
  BY <1>1 DEF AlertToken, ToAlert, Alerted
<1>3. RunWaits'
  BY <1>1 DEF ServiceInv, RunWaits, Top, Set, StartServer, Test, End
<1>4. CASE Top
  BY <1>2, <1>3, <1>4 DEF Top, svc, ServiceInv, Changing, OneToken, Returned, Ended, UpToDate
<1>5. CASE Set
  <2>2. dwState \in Finals
    BY DEF ServiceInv, ServiceTypeOK
  <2>1. state' = dwState /\ ~transit'
    BY <1>5, <2>2, SetStateEnds DEF Set
  <2>3. Changing'
    BY <2>1, <2>2 DEF Changing, Finals, Pendings
  <2>4. OneToken' /\ Ended' /\ UpToDate'
    BY <1>1, <1>5, <2>1 DEF Set, ServiceInv, OneToken, Returned, Ended, UpToDate, AlertToken,
       ToAlert, Alerted
  <2> QED
    BY <1>3, <2>3, <2>4
<1>6. CASE StartServer
  BY <1>2, <1>3, <1>6 DEF StartServer, ServiceInv, Changing, OneToken, Returned, Ended, UpToDate
<1>7. CASE Test
  BY <1>2, <1>3, <1>7 DEF Test, svc, ServiceInv, Changing, OneToken, Returned, Ended, UpToDate
<1>8. CASE End
  <2>1. state' = "STOPPED" /\ ~transit'
    BY <1>8, SetStateEnds DEF End, Finals
  <2>2. Changing' /\ Ended'
    BY <2>1 DEF Changing, Pendings, Ended
  <2>3. OneToken' /\ UpToDate'
    BY <1>1, <1>8, <2>1 DEF End, ServiceInv, OneToken, Returned, UpToDate, AlertToken, ToAlert, Alerted
  <2> QED
    BY <1>3, <2>2, <2>3
<1> QED
  BY <1>4, <1>5, <1>6, <1>7, <1>8


\* When a wait returns it has taken the token, and the handler is through with it.
LEMMA WaitReturns ==
    ASSUME ServiceInv, AlertInv({Dispatcher}), Wait, wpc' = "out"
    PROVE  Alerted /\ ~Alerted' /\ apc[Dispatcher] # "signal"
<1>1. CASE TID!WaitExchange
  <2>1. wpc = "cas" /\ Alerted /\ word' = {}
    BY <1>1 DEF TID!WaitExchange, Alerted
  <2>2. Any({Dispatcher})!Signallers = {}
    BY <2>1 DEF AlertInv, Any!OneWakeUp, Any!Owed
  <2> QED
    BY <2>1, <2>2 DEF Any!Signallers, Alerted
<1>2. CASE TID!ClearExchange
  <2>1. wpc = "clear" /\ word' = {} /\ status = "alerted"
    BY <1>2 DEF TID!ClearExchange, ServiceInv, RunWaits
  <2>2. Any({Dispatcher})!Signallers = {} /\ Alerted
    BY <2>1 DEF AlertInv, Any!OneWakeUp, Any!Owed, BitsInv, Alerted
  <2> QED
    BY <2>1, <2>2 DEF Any!Signallers, Alerted
<1> QED
  BY <1>1, <1>2 DEF Wait, TID!WaitForAlert, TID!Woken, TID!Reload

\* A step of a wait that does not return leaves the alert bit alone.
LEMMA WaitGoesOn ==
    ASSUME ServiceInv, AlertInv({Dispatcher}), Wait, wpc' # "out"
    PROVE  Alerted' <=> Alerted
BY DEF Wait, TID!WaitForAlert, TID!WaitExchange, TID!Woken, TID!Reload, TID!ClearExchange,
       TID!Late, Alerted, ServiceInv, RunWaits

LEMMA WaitStep ==
    ASSUME ServiceInv, AlertInv({Dispatcher}), ServiceTypeOK', Wait
    PROVE  (Changing /\ RunWaits /\ OneToken /\ Ended /\ UpToDate)'
<1>1. UNCHANGED <<state, transit, target, failed, unreported, handling>> /\ place = "wait"
  BY DEF Wait, svc
<1>2. apc' = apc
  BY DEF Wait, TID!WaitForAlert, TID!WaitExchange, TID!Woken, TID!Reload, TID!ClearExchange, TID!alerter
<1>3. place' = IF wpc' = "out" THEN "test" ELSE "wait"
  BY DEF Wait
<1>4. Changing' /\ Ended'
  BY <1>1, <1>3 DEF ServiceInv, Changing, Ended
<1>5. RunWaits'
  <2>1. wpc' # "spin" /\ (wpc' \in {"reload", "clear"} => status' = "alerted")
    BY DEF Wait, TID!WaitForAlert, TID!WaitExchange, TID!Woken, TID!Reload, TID!ClearExchange,
           TID!Late, ServiceInv, RunWaits
  <2> QED
    BY <1>1, <1>2, <1>3, <2>1 DEF ServiceInv, RunWaits
<1>6. ToAlert' <=> ToAlert
  BY <1>1, <1>2 DEF ToAlert
<1>7. CASE wpc' # "out"
  <2>1. OneToken' /\ UpToDate'
    BY <1>1, <1>3, <1>6, <1>7, WaitGoesOn DEF ServiceInv, OneToken, UpToDate, Returned, AlertToken
  <2> QED
    BY <1>4, <1>5, <2>1
<1>8. CASE wpc' = "out"
  <2>1. place' = "test"
    BY <1>3, <1>8
  <2>2. Alerted /\ ~Alerted' /\ apc[Dispatcher] # "signal"
    BY <1>8, WaitReturns
  <2>3. handling /\ ~failed => ToAlert
    BY <2>2 DEF ServiceInv, ServiceTypeOK, TID!TypeOK, ToAlert
  <2>4. OneToken'
    BY <1>1, <1>6, <2>1, <2>2, <2>3 DEF ServiceInv, OneToken, AlertToken, ToAlert, Returned
  <2>5. UpToDate'
    BY <2>1 DEF UpToDate
  <2> QED
    BY <1>4, <1>5, <2>4, <2>5
<1> QED
  BY <1>7, <1>8

-----------------------------------------------------------------------------
LEMMA StepIInv ==
    /\ ServiceInv /\ AlertInv({Dispatcher}) /\ AlertInv({Dispatcher})'
    /\ [ServiceNext]_serviceVars
    => ServiceInv'
<1> SUFFICES ASSUME ServiceInv, AlertInv({Dispatcher}), AlertInv({Dispatcher})', [ServiceNext]_serviceVars
             PROVE  ServiceInv'
  OBVIOUS
<1>1. ServiceTypeOK'
  <2>1. TID!TypeOK'
    BY DEF AlertInv, Any!TypeOK, Any!Words, TID!TypeOK, TID!Words
  <2> QED
    BY <2>1, ServiceTypeStep DEF ServiceInv
<1>2. CASE Top \/ Set \/ StartServer \/ Test \/ End
  BY <1>1, <1>2, RunStep DEF ServiceInv
<1>3. CASE Wait
  BY <1>1, <1>3, WaitStep DEF ServiceInv
<1>4. CASE Handler
  BY <1>1, <1>4, HandlerStep DEF ServiceInv
<1>5. CASE \E c \in Controls : PreHandler(c)
  BY <1>1, <1>5, PreHandlerStep DEF ServiceInv
<1>6. CASE UNCHANGED serviceVars
  BY <1>1, <1>6
  DEF serviceVars, svc, tid, ServiceInv, Changing, RunWaits, OneToken, Ended, UpToDate, AlertToken,
     ToAlert, Alerted
<1> QED
  BY <1>2, <1>3, <1>4, <1>5, <1>6 DEF ServiceNext, Run, Controls

LEMMA Uses == ServiceSpec => Any({Dispatcher})!Spec
<1>1. ServiceInit => Any({Dispatcher})!Init
  BY SameInit DEF ServiceInit
<1>2. [ServiceNext]_serviceVars => [Any({Dispatcher})!Next]_(Any({Dispatcher})!alertVars)
  BY AlertStep, SameStep
<1> QED
  BY <1>1, <1>2, PTL DEF ServiceSpec, Any!Spec

LEMMA ServiceInvariant == ServiceSpec => [](ServiceInv /\ AlertInv({Dispatcher}))
<1>1. Any({Dispatcher})!Init => AlertInv({Dispatcher})
  BY AlertInitInv
<1>2. AlertInv({Dispatcher}) /\ [Any({Dispatcher})!Next]_(Any({Dispatcher})!alertVars)
        => AlertInv({Dispatcher})'
  BY AlertStepInv
<1>3. Any({Dispatcher})!Spec => []AlertInv({Dispatcher})
  BY <1>1, <1>2, PTL DEF Any!Spec
<1> QED
  BY <1>3, Uses, InitIInv, StepIInv, PTL DEF ServiceSpec

\* For any number of controls: the variables have their types.
THEOREM ServiceTypeCorrect == ServiceSpec => []ServiceTypeOK
<1>1. ServiceInv => ServiceTypeOK
  BY DEF ServiceInv
<1> QED
  BY <1>1, ServiceInvariant, PTL

\* The handler never alerts a service object that Run's thread has left, unless a
\* start failed.
THEOREM AlertIsSafe == ServiceSpec => []AlertFindsService
<1>1. ServiceInv => AlertFindsService
  BY DEF ServiceInv, OneToken, Returned, AlertFindsService
<1> QED
  BY <1>1, ServiceInvariant, PTL

\* Between target, lock and alert no control is lost: Run sleeps only when what
\* was asked for last has been reported.
THEOREM NothingForgotten == ServiceSpec => []ReportedIsTarget
<1>1. ServiceInv => ReportedIsTarget
  BY DEF ServiceInv, UpToDate, AlertToken, ToAlert, Alerted, ReportedIsTarget, Asleep
<1> QED
  BY <1>1, ServiceInvariant, PTL

\* The way the service uses m_tid is one that Alert allows, so that m_tid
\* is an event for it.
THEOREM UsesAnEvent == ServiceSpec => AlertIsAnEvent
<1>1. ServiceInit => TID!Abs!Init
  BY DEF ServiceInit, TID!Init, TID!Abs!Init
<1>2. AlertInv({Dispatcher}) /\ [ServiceNext]_serviceVars => [TID!Abs!Next]_(TID!Abs!avars)
  <2> SUFFICES ASSUME AlertInv({Dispatcher}), [ServiceNext]_serviceVars PROVE [TID!Abs!Next]_(TID!Abs!avars)
    OBVIOUS
  <2>1. [Any({Dispatcher})!Abs!Next]_(Any({Dispatcher})!Abs!avars)
    BY AlertStep, SameStep, EventStep
  <2>2. (TID!Abs!Next <=> Any({Dispatcher})!Abs!Next) /\ TID!Abs!avars = Any({Dispatcher})!Abs!avars
    BY DEF TID!Abs!Next, TID!Abs!Alert, TID!Abs!WaitForAlert, TID!Abs!Alerted, TID!Abs!TimedOut,
           TID!Abs!avars, Any!Abs!Next, Any!Abs!Alert, Any!Abs!WaitForAlert, Any!Abs!Alerted,
           Any!Abs!TimedOut, Any!Abs!avars
  <2>3. UNCHANGED TID!Abs!avars <=> UNCHANGED Any({Dispatcher})!Abs!avars
    BY DEF TID!Abs!avars, Any!Abs!avars
  <2> QED
    BY <2>1, <2>2, <2>3
<1> QED
  BY <1>1, <1>2, ServiceInvariant, PTL DEF ServiceSpec, AlertIsAnEvent, TID!AbsSpec, TID!Abs!Spec

-----------------------------------------------------------------------------
(***************************************************************************)
(* Proofs about EncoderQueue for any number of threads and samples.        *)
(*                                                                         *)
(* The inductive invariant joins the exclusive places of the samples,      *)
(* the single demand and the absence of a lost wake-up: the full ring is   *)
(* excluded by counting (N waiting samples would leave none for the        *)
(* producer that wants to append), so NeverFull needs OnePlacePerSample,   *)
(* and OnePlacePerSample needs NeverFull where a sample is appended.       *)
(***************************************************************************)

Scanning ==
    \A t \in QueueThreads : /\ at[t] = "scan" => slot[t] \in 1 .. N
                            /\ at[t] \in {"idle", "event", "output", "dequeue"} => slot[t] = N
EmptyRing == ~hasData => readIdx = writeIdx

QueueInv ==
    /\ QueueTypeOK
    /\ Scanning
    /\ EmptyRing
    /\ OnePlacePerSample
    /\ OneDemand
    /\ NoLostWakeup

\* Appending to a ring that is not full adds the position writeIdx.
LEMMA AppendWaiting ==
    ASSUME QueueTypeOK, EmptyRing, ~(hasData /\ readIdx = writeIdx),
           writeIdx' = Next1(writeIdx), hasData' = TRUE, readIdx' = readIdx
    PROVE  /\ Waiting' = Waiting \cup {writeIdx}
           /\ writeIdx \notin Waiting
           /\ writeIdx' \in Slots
<1>1. /\ N \in Nat /\ N >= 1 /\ readIdx \in Int /\ writeIdx \in Int
      /\ 0 <= readIdx /\ readIdx < N /\ 0 <= writeIdx /\ writeIdx < N
  BY NAssumption DEF QueueTypeOK, Slots
<1>2. writeIdx' \in Slots
  BY <1>1 DEF Next1, Slots
<1>3. writeIdx \notin Waiting
  BY <1>1 DEF EmptyRing, Waiting
<1>4. ASSUME NEW i \in Slots
      PROVE  i \in Waiting' <=> (i \in Waiting \/ i = writeIdx)
  <2>1. i \in Int /\ 0 <= i /\ i < N
    BY <1>1 DEF Slots
  <2>2. CASE hasData
    BY <1>1, <2>1, <2>2 DEF Waiting, Next1
  <2>3. CASE ~hasData
    BY <1>1, <2>1, <2>3 DEF EmptyRing, Waiting, Next1
  <2> QED
    BY <2>2, <2>3
<1>5. Waiting \subseteq Slots /\ Waiting' \subseteq Slots /\ writeIdx \in Slots
  BY DEF Waiting, QueueTypeOK
<1> QED
  BY <1>2, <1>3, <1>4, <1>5

\* Taking from a ring that has data removes the position readIdx.
LEMMA TakeWaiting ==
    ASSUME QueueTypeOK, EmptyRing, hasData,
           readIdx' = Next1(readIdx), hasData' = (Next1(readIdx) # writeIdx),
           writeIdx' = writeIdx
    PROVE  /\ Waiting' = Waiting \ {readIdx}
           /\ readIdx \in Waiting
           /\ EmptyRing'
           /\ readIdx' \in Slots
<1>1. /\ N \in Nat /\ N >= 1 /\ readIdx \in Int /\ writeIdx \in Int
      /\ 0 <= readIdx /\ readIdx < N /\ 0 <= writeIdx /\ writeIdx < N
  BY NAssumption DEF QueueTypeOK, Slots
<1>2. readIdx' \in Slots
  BY <1>1 DEF Next1, Slots
<1>3. readIdx \in Waiting
  BY <1>1 DEF Waiting, Slots
<1>4. EmptyRing'
  BY DEF EmptyRing
<1>5. ASSUME NEW i \in Slots
      PROVE  i \in Waiting' <=> (i \in Waiting /\ i # readIdx)
  <2>1. i \in Int /\ 0 <= i /\ i < N
    BY <1>1 DEF Slots
  <2>2. CASE Next1(readIdx) = writeIdx
    <3>1. hasData' = FALSE
      BY <2>2
    <3>2. Waiting' = {}
      BY <3>1 DEF Waiting
    <3>3. i \in Waiting => i = readIdx
      BY <1>1, <2>1, <2>2 DEF Waiting, Next1
    <3> QED
      BY <3>2, <3>3
  <2>3. CASE Next1(readIdx) # writeIdx
    <3>1. hasData' = TRUE
      BY <2>3
    <3> QED
      BY <1>1, <2>1, <2>3, <3>1 DEF Waiting, Next1
  <2> QED
    BY <2>2, <2>3
<1>6. Waiting \subseteq Slots /\ Waiting' \subseteq Slots
  BY DEF Waiting
<1> QED
  BY <1>2, <1>3, <1>4, <1>5, <1>6

\* The ring cannot be full while a thread holds a sample: N waiting samples,
\* all different, are all the samples there are.
LEMMA RoomForMine ==
    ASSUME QueueTypeOK, OnePlacePerSample, NEW t \in Owners
    PROVE  ~(hasData /\ readIdx = writeIdx)
<1> SUFFICES ASSUME hasData, readIdx = writeIdx PROVE FALSE
  OBVIOUS
<1>1. Waiting = Slots
  <2>1. readIdx \in Int
    BY NAssumption DEF QueueTypeOK, Slots
  <2>2. \A i \in Slots : i \in Int /\ (readIdx <= i \/ i < writeIdx)
    BY <2>1, NAssumption DEF Slots
  <2> QED
    BY <2>1, <2>2 DEF Waiting
<1>2. queue \in Injection(Slots, Slots)
  BY <1>1 DEF QueueTypeOK, OnePlacePerSample, Injection, IsInjective
<1>3. IsFiniteSet(Slots)
  BY FS_Interval, NAssumption DEF Slots
<1>4. queue \in Surjection(Slots, Slots)
  BY <1>2, <1>3, FS_Injection
<1>5. slot[t] \in Slots
  BY DEF OnePlacePerSample
<1>6. PICK i \in Slots : queue[i] = slot[t]
  BY <1>4, <1>5 DEF Surjection
<1> QED
  BY <1>1, <1>6 DEF OnePlacePerSample

LEMMA InitInv == QueueInit => QueueInv
<1> SUFFICES ASSUME QueueInit PROVE QueueInv
  OBVIOUS
<1> USE DEF QueueInit
<1>1. 0 \in Slots /\ N \in 0 .. N
  BY NAssumption DEF Slots
<1>2. QueueTypeOK
  <2>1. free \subseteq Slots
    BY AllocAssumption DEF Slots
  <2>2. queue \in [Slots -> Slots] /\ number \in [Slots -> Nat]
    BY <1>1
  <2>3. at \in [QueueThreads -> PCs] /\ slot \in [QueueThreads -> 0 .. N]
    BY <1>1 DEF PCs
  <2>4. events \in Seq({"need", "out"})
    OBVIOUS
  <2> QED
    BY <1>1, <2>1, <2>2, <2>3, <2>4 DEF QueueTypeOK
<1>3. Owners = {} /\ Debtors = {} /\ Waiting = {}
  BY DEF Owners, Debtors, Waiting
<1>4. OnePlacePerSample /\ OneDemand
  BY <1>3 DEF OnePlacePerSample, OneDemand
<1>5. Scanning /\ EmptyRing /\ NoLostWakeup
  BY DEF Scanning, EmptyRing, NoLostWakeup
<1> QED
  BY <1>2, <1>4, <1>5 DEF QueueInv

LEMMA StepInv == QueueInv /\ [QueueNext]_queueVars => QueueInv'
<1> SUFFICES ASSUME QueueInv, [QueueNext]_queueVars PROVE QueueInv'
  OBVIOUS
<1>0. /\ QueueTypeOK /\ Scanning /\ EmptyRing /\ OnePlacePerSample /\ OneDemand /\ NoLostWakeup
      /\ Producers \subseteq QueueThreads /\ Workers \subseteq QueueThreads
      /\ N \in Nat /\ N >= 1
  BY NAssumption DEF QueueInv, QueueThreads
<1>2. ASSUME NEW p \in Producers, ProcessFrame(p) PROVE QueueInv'
  <2>1. QueueTypeOK'
    BY <1>0, <1>2 DEF ProcessFrame, QueueTypeOK, PCs, Proceed, packed, history
  <2>2. Scanning' /\ EmptyRing' /\ NoLostWakeup'
    BY <1>0, <1>2 DEF ProcessFrame, QueueTypeOK, Proceed, packed, Scanning, EmptyRing,
       NoLostWakeup, QueueThreads
  <2>3. OnePlacePerSample'
    BY <1>0, <1>2 DEF ProcessFrame, QueueTypeOK, Proceed, packed, OnePlacePerSample, Owners, Waiting
  <2>4. OneDemand'
    BY <1>0, <1>2 DEF ProcessFrame, QueueTypeOK, Proceed, packed, OneDemand, Debtors
  <2> QED
    BY <2>1, <2>2, <2>3, <2>4 DEF QueueInv
<1>4. ASSUME NEW p \in Producers, FillSample(p) PROVE QueueInv'
  <2>1. QueueTypeOK'
    BY <1>0, <1>4 DEF FillSample, QueueTypeOK, PCs, Proceed, packed, history
  <2>2. Scanning' /\ EmptyRing' /\ NoLostWakeup'
    BY <1>0, <1>4 DEF FillSample, QueueTypeOK, Proceed, packed, Scanning, EmptyRing, NoLostWakeup,
       QueueThreads
  <2>3. OnePlacePerSample'
    <3>1. at \in [QueueThreads -> PCs] /\ p \in QueueThreads
      BY <1>0 DEF QueueTypeOK
    <3>2. /\ slot' = slot /\ free' = free /\ queue' = queue /\ readIdx' = readIdx /\ writeIdx' = writeIdx
          /\ hasData' = hasData /\ at[p] = "fill"
          /\ at' = [at EXCEPT ![p] = "enqueue"] \/ at' = [at EXCEPT ![p] = "release"]
      BY <1>4 DEF FillSample, Proceed, packed
    <3>3. Owners' = Owners
      BY <3>1, <3>2 DEF Owners
    <3>4. Waiting' = Waiting
      BY <3>2 DEF Waiting
    <3> QED
      BY <1>0, <3>2, <3>3, <3>4 DEF OnePlacePerSample
  <2>4. OneDemand'
    BY <1>0, <1>4 DEF FillSample, QueueTypeOK, Proceed, packed, OneDemand, Debtors
  <2> QED
    BY <2>1, <2>2, <2>3, <2>4 DEF QueueInv
<1>6. ASSUME NEW t \in QueueThreads, RetryCas(t) PROVE QueueInv'
  <2>1. QueueTypeOK'
    BY <1>0, <1>6 DEF RetryCas, QueueTypeOK, PCs, Proceed, packed, history
  <2>2. Scanning' /\ EmptyRing' /\ NoLostWakeup'
    BY <1>0, <1>6 DEF RetryCas, QueueTypeOK, Proceed, packed, Scanning, EmptyRing, NoLostWakeup,
       QueueThreads
  <2>3. OnePlacePerSample'
    BY <1>0, <1>6 DEF RetryCas, QueueTypeOK, Proceed, packed, OnePlacePerSample, Owners, Waiting
  <2>4. OneDemand'
    BY <1>0, <1>6 DEF RetryCas, QueueTypeOK, Proceed, packed, OneDemand, Debtors
  <2> QED
    BY <2>1, <2>2, <2>3, <2>4 DEF QueueInv
<1>7. ASSUME NEW w \in Workers, Invoke(w) PROVE QueueInv'
  <2>1. QueueTypeOK'
    BY <1>0, <1>7 DEF Invoke, QueueTypeOK, PCs, Proceed, packed, history
  <2>2. Scanning' /\ EmptyRing' /\ NoLostWakeup'
    BY <1>0, <1>7 DEF Invoke, QueueTypeOK, Proceed, packed, Scanning, EmptyRing, NoLostWakeup, QueueThreads
  <2>3. OnePlacePerSample'
    BY <1>0, <1>7 DEF Invoke, QueueTypeOK, Proceed, packed, OnePlacePerSample, Owners, Waiting
  <2>4. OneDemand'
    BY <1>0, <1>7 DEF Invoke, QueueTypeOK, Proceed, packed, OneDemand, Debtors
  <2> QED
    BY <2>1, <2>2, <2>3, <2>4 DEF QueueInv
<1>8. ASSUME NEW w \in Workers, ProcessOutput(w) PROVE QueueInv'
  <2>1. QueueTypeOK'
    BY <1>0, <1>8 DEF ProcessOutput, QueueTypeOK, PCs, Proceed, packed, history
  <2>2. Scanning' /\ EmptyRing' /\ NoLostWakeup'
    BY <1>0, <1>8 DEF ProcessOutput, QueueTypeOK, Proceed, packed, Scanning, EmptyRing,
       NoLostWakeup, QueueThreads
  <2>3. OnePlacePerSample'
    BY <1>0, <1>8 DEF ProcessOutput, QueueTypeOK, Proceed, packed, OnePlacePerSample, Owners, Waiting
  <2>4. OneDemand'
    BY <1>0, <1>8 DEF ProcessOutput, QueueTypeOK, Proceed, packed, OneDemand, Debtors
  <2> QED
    BY <2>1, <2>2, <2>3, <2>4 DEF QueueInv
<1>9. ASSUME NEW w \in Workers, NeedInputEvent(w) PROVE QueueInv'
  <2>1. QueueTypeOK'
    BY <1>0, <1>9 DEF NeedInputEvent, QueueTypeOK, PCs, Proceed, packed, history
  <2>2. Scanning' /\ EmptyRing' /\ NoLostWakeup'
    BY <1>0, <1>9 DEF NeedInputEvent, QueueTypeOK, Proceed, packed, Scanning, EmptyRing,
       NoLostWakeup, QueueThreads
  <2>3. OnePlacePerSample'
    BY <1>0, <1>9 DEF NeedInputEvent, QueueTypeOK, Proceed, packed, OnePlacePerSample, Owners, Waiting
  <2>4. OneDemand'
    BY <1>0, <1>9 DEF NeedInputEvent, QueueTypeOK, Proceed, packed, OneDemand, Debtors
  <2> QED
    BY <2>1, <2>2, <2>3, <2>4 DEF QueueInv
<1>11. ASSUME NEW t \in QueueThreads, ProcessInput(t) PROVE QueueInv'
  <2>1. QueueTypeOK'
    <3>1. slot[t] \in Slots
      BY <1>0, <1>11 DEF ProcessInput, OnePlacePerSample, Owners
    <3>2. number[slot[t]] \in Nat
      BY <1>0, <3>1 DEF QueueTypeOK
    <3> QED
      BY <1>0, <1>11, <3>2 DEF ProcessInput, QueueTypeOK, PCs, Proceed, packed, history
  <2>2. Scanning' /\ EmptyRing' /\ NoLostWakeup'
    BY <1>0, <1>11 DEF ProcessInput, QueueTypeOK, Proceed, packed, Scanning, EmptyRing,
       NoLostWakeup, QueueThreads
  <2>3. OnePlacePerSample'
    <3>1. at[t] = "input" /\ \E c \in {"begin", "release"} : at' = [at EXCEPT ![t] = c]
      BY <1>11 DEF ProcessInput, Proceed
    <3>2. /\ free' = free /\ queue' = queue /\ readIdx' = readIdx /\ writeIdx' = writeIdx
          /\ hasData' = hasData /\ slot' = slot
      BY <1>11 DEF ProcessInput, packed
    <3>3. at \in [QueueThreads -> PCs]
      BY <1>0 DEF QueueTypeOK
    <3>4. Owners' = Owners
      BY <3>1, <3>3 DEF Owners
    <3>5. Waiting' = Waiting
      BY <3>2 DEF Waiting
    <3> QED
      BY <1>0, <3>2, <3>4, <3>5 DEF OnePlacePerSample
  <2>4. OneDemand'
    BY <1>0, <1>11 DEF ProcessInput, QueueTypeOK, Proceed, packed, OneDemand, Debtors
  <2> QED
    BY <2>1, <2>2, <2>3, <2>4 DEF QueueInv
<1>12. ASSUME NEW t \in QueueThreads, BeginGetEvent(t) PROVE QueueInv'
  <2>1. QueueTypeOK'
    BY <1>0, <1>12 DEF BeginGetEvent, QueueTypeOK, PCs, Proceed, packed, history
  <2>2. Scanning' /\ EmptyRing' /\ NoLostWakeup'
    BY <1>0, <1>12 DEF BeginGetEvent, QueueTypeOK, Proceed, packed, Scanning, EmptyRing,
       NoLostWakeup, QueueThreads
  <2>3. OnePlacePerSample'
    BY <1>0, <1>12 DEF BeginGetEvent, QueueTypeOK, Proceed, packed, OnePlacePerSample, Owners, Waiting
  <2>4. OneDemand'
    BY <1>0, <1>12 DEF BeginGetEvent, QueueTypeOK, Proceed, packed, OneDemand, Debtors
  <2> QED
    BY <2>1, <2>2, <2>3, <2>4 DEF QueueInv
<1>1. ASSUME EncoderNeedsInput \/ EncoderHasOutput PROVE QueueInv'
  <2>1. /\ UNCHANGED <<free, queue, readIdx, writeIdx, hasData, needInput, at, slot, requests>>
        /\ UNCHANGED <<frames, enqueued, number, fed>>
        /\ outs' \in Nat
        /\ \E e \in {"need", "out"} : events' = Append(events, e)
    BY <1>0, <1>1 DEF EncoderNeedsInput, EncoderHasOutput, QueueTypeOK, packed, history
  <2>2. events \in Seq({"need", "out"}) 
    BY <1>0 DEF QueueTypeOK
  <2>3. events' \in Seq({"need", "out"})
    BY <2>1, <2>2
  <2> QED
    <3>1. QueueTypeOK'
      BY <1>0, <2>1, <2>3 DEF QueueTypeOK
    <3>2. Scanning' /\ EmptyRing' /\ NoLostWakeup'
      BY <1>0, <2>1 DEF Scanning, EmptyRing, NoLostWakeup
    <3>3. OnePlacePerSample'
      BY <1>0, <2>1 DEF OnePlacePerSample, Owners, Waiting
    <3>4. OneDemand'
      BY <1>0, <2>1 DEF OneDemand, Debtors
    <3> QED
      BY <3>1, <3>2, <3>3, <3>4 DEF QueueInv
<1>3. ASSUME NEW p \in Producers, AcquirePoolSlot(p) PROVE QueueInv'
  <2>1. /\ slot[p] \in 1 .. N /\ slot[p] - 1 \in Slots /\ slot[p] - 1 \in 0 .. N
        /\ N \in 0 .. N /\ p \in QueueThreads /\ at[p] = "scan"
        /\ slot[p] - 1 # 0 => slot[p] - 1 \in 1 .. N
    <3>1. p \in QueueThreads /\ at[p] = "scan"
      BY <1>0, <1>3 DEF AcquirePoolSlot
    <3>2. slot[p] \in 1 .. N
      <4>1. Scanning
        BY <1>0
      <4> QED
        BY <3>1, <4>1, Zenon DEF Scanning
    <3>3. PICK n \in Nat : n = N /\ n >= 1
      BY <1>0
    <3>4. PICK k \in 1 .. n : k = slot[p]
      BY <3>2, <3>3
    <3>5. /\ k - 1 \in 0 .. n - 1 /\ k - 1 \in 0 .. n /\ n \in 0 .. n
          /\ k - 1 # 0 => k - 1 \in 1 .. n
      BY <3>3, <3>4
    <3> QED
      BY <3>1, <3>3, <3>4, <3>5 DEF Slots
  <2> DEFINE i == slot[p] - 1
  <2>a. /\ slot' \in [QueueThreads -> 0 .. N] /\ at' \in [QueueThreads -> PCs]
        /\ \A t \in QueueThreads \ {p} : slot'[t] = slot[t] /\ at'[t] = at[t]
        /\ \/ at'[p] = "fill"
           \/ at'[p] = "idle" /\ slot'[p] = N
           \/ at'[p] = "scan" /\ slot'[p] = i /\ i # 0
    <3>0. at \in [QueueThreads -> PCs] /\ slot \in [QueueThreads -> 0 .. N] /\ i \in 0 .. N
      BY <1>0, <2>1 DEF QueueTypeOK
    <3> HIDE DEF i
    <3>1. CASE i \in free
      <4>1. at' = [at EXCEPT ![p] = "fill"] /\ slot' = [slot EXCEPT ![p] = i]
        BY <1>3, <3>1 DEF AcquirePoolSlot, Proceed, i
      <4> QED
        BY <2>1, <3>0, <4>1 DEF PCs
    <3>2. CASE i \notin free /\ i = 0
      <4>1. at' = [at EXCEPT ![p] = "idle"] /\ slot' = [slot EXCEPT ![p] = N]
        BY <1>3, <3>2 DEF AcquirePoolSlot, Proceed, i
      <4> QED
        BY <2>1, <3>0, <4>1 DEF PCs
    <3>3. CASE i \notin free /\ i # 0
      <4>1. at' = at /\ slot' = [slot EXCEPT ![p] = i]
        BY <1>3, <3>3 DEF AcquirePoolSlot, Proceed, i
      <4> QED
        BY <2>1, <3>0, <3>3, <4>1 DEF PCs
    <3> QED
      BY <3>1, <3>2, <3>3
  <2>2. QueueTypeOK'
    <3>1. free' \subseteq Slots
      BY <1>0, <1>3 DEF AcquirePoolSlot, QueueTypeOK
    <3>2. /\ queue' = queue /\ readIdx' = readIdx /\ writeIdx' = writeIdx /\ hasData' = hasData
          /\ needInput' = needInput /\ requests' = requests /\ events' = events /\ outs' = outs
          /\ frames' = frames /\ enqueued' = enqueued /\ fed' = fed /\ number' = number
      BY <1>3 DEF AcquirePoolSlot, history
    <3> QED
      BY <1>0, <2>a, <3>1, <3>2 DEF QueueTypeOK
  <2>3. Scanning' /\ EmptyRing' /\ NoLostWakeup'
    <3>1. Scanning'
      <4>1. SUFFICES ASSUME NEW t \in QueueThreads
                     PROVE  /\ at'[t] = "scan" => slot'[t] \in 1 .. N
                            /\ at'[t] \in {"idle", "event", "output", "dequeue"} => slot'[t] = N
        BY Zenon DEF Scanning
      <4>2. CASE t = p
        BY <2>1, <2>a, <4>2
      <4>3. CASE t # p
        <5>1. at'[t] = at[t] /\ slot'[t] = slot[t]
          BY <2>a, <4>3
        <5>2. Scanning
          BY <1>0
        <5> QED
          BY <5>1, <5>2 DEF Scanning
      <4> QED
        BY <4>2, <4>3
    <3> QED
      BY <1>0, <1>3, <3>1 DEF AcquirePoolSlot, EmptyRing, NoLostWakeup
  <2>4. OneDemand'
    <3>1. at'[p] = "fill" \/ at'[p] = "idle" \/ at'[p] = "scan"
      BY <2>a, Zenon
    <3>2. \A t \in QueueThreads \ {p} : at'[t] = at[t]
      BY <2>a, Zenon
    <3>3. at[p] = "scan"
      BY <2>1
    <3>4. ASSUME NEW t \in QueueThreads
          PROVE  t \in Debtors' <=> t \in Debtors
      <4>1. CASE t = p
        BY <3>1, <3>3, <4>1 DEF Debtors
      <4>2. CASE t # p
        <5>1. at'[t] = at[t]
          BY <3>2, <4>2
        <5> QED
          BY <5>1 DEF Debtors
      <4> QED
        BY <4>1, <4>2
    <3>5. Debtors' = Debtors
      BY <3>4, Zenon DEF Debtors
    <3>6. requests' = requests /\ events' = events /\ outs' = outs /\ needInput' = needInput
      BY <1>3 DEF AcquirePoolSlot, history
    <3> QED
      BY <1>0, <3>6, <3>5 DEF OneDemand
  <2>5. Waiting' = Waiting /\ queue' = queue
    BY <1>3 DEF AcquirePoolSlot, Waiting
  <2>6. OnePlacePerSample'
    <3>1. CASE slot[p] - 1 \in free
      <4>1. /\ Owners' = Owners \cup {p} /\ p \notin Owners
            /\ slot' = [slot EXCEPT ![p] = slot[p] - 1]
            /\ free' = free \ {slot[p] - 1}
        BY <1>0, <1>3, <3>1, <2>1 DEF AcquirePoolSlot, QueueTypeOK, Proceed, Owners
      <4> QED
        BY <1>0, <2>1, <2>5, <3>1, <4>1 DEF QueueTypeOK, OnePlacePerSample
    <3>2. CASE slot[p] - 1 \notin free
      <4>1. /\ Owners' = Owners /\ p \notin Owners
            /\ \A t \in Owners : slot'[t] = slot[t]
            /\ free' = free
        BY <1>0, <1>3, <3>2, <2>1 DEF AcquirePoolSlot, QueueTypeOK, Proceed, Owners
      <4> QED
        BY <1>0, <2>5, <4>1 DEF OnePlacePerSample
    <3> QED
      BY <3>1, <3>2
  <2> QED
    BY <2>2, <2>3, <2>4, <2>6 DEF QueueInv
<1>5. ASSUME NEW p \in Producers, TryEnqueue(p) PROVE QueueInv'
  <2>0. p \in QueueThreads /\ p \in Owners /\ slot[p] \in Slots /\ N \in 0 .. N
    BY <1>0, <1>5 DEF TryEnqueue, Owners, OnePlacePerSample
  <2>1. CASE needInput
    <3>1. /\ needInput' = FALSE /\ Proceed(p, "input")
          /\ UNCHANGED <<free, queue, readIdx, writeIdx, hasData, slot, requests, events, outs, frames, fed>>
          /\ enqueued' = enqueued + 1
          /\ number' = [number EXCEPT ![slot[p]] = enqueued + 1]
      BY <1>5, <2>1 DEF TryEnqueue, Accept
    <3>2. QueueTypeOK'
      <4>0. enqueued + 1 \in Nat /\ number \in [Slots -> Nat]
        BY <1>0 DEF QueueTypeOK
      <4>1. number' \in [Slots -> Nat] /\ enqueued' \in Nat
        BY <3>1, <4>0
      <4>2. at' \in [QueueThreads -> PCs]
        BY <1>0, <3>1 DEF QueueTypeOK, PCs, Proceed
      <4> QED
        BY <1>0, <2>0, <3>1, <4>1, <4>2 DEF QueueTypeOK
    <3>3. Scanning' /\ EmptyRing' /\ NoLostWakeup'
      BY <1>0, <1>5, <3>1 DEF TryEnqueue, QueueTypeOK, Proceed, Scanning, EmptyRing, NoLostWakeup
    <3>4. Owners' = Owners /\ Waiting' = Waiting /\ Debtors' = Debtors \cup {p}
      BY <1>0, <1>5, <2>0, <3>1 DEF TryEnqueue, QueueTypeOK, Proceed, Owners, Waiting, Debtors
    <3>5. OnePlacePerSample'
      BY <1>0, <3>1, <3>4 DEF OnePlacePerSample
    <3>6. OneDemand'
      BY <1>0, <2>1, <3>1, <3>4 DEF OneDemand
    <3> QED
      BY <3>2, <3>3, <3>5, <3>6 DEF QueueInv
  <2>2. CASE ~needInput
    <3>1. /\ queue' = [queue EXCEPT ![writeIdx] = slot[p]]
          /\ writeIdx' = Next1(writeIdx) /\ hasData' = TRUE
          /\ slot' = [slot EXCEPT ![p] = N] /\ Proceed(p, "idle")
          /\ UNCHANGED <<free, readIdx, needInput, requests, events, outs, frames, fed>>
          /\ enqueued' = enqueued + 1
          /\ number' = [number EXCEPT ![slot[p]] = enqueued + 1]
      BY <1>5, <2>2 DEF TryEnqueue, Accept, AppendSample
    <3>2. ~(hasData /\ readIdx = writeIdx)
      BY <1>0, <2>0, RoomForMine
    <3>3. Waiting' = Waiting \cup {writeIdx} /\ writeIdx \notin Waiting /\ writeIdx' \in Slots
      BY <1>0, <3>1, <3>2, AppendWaiting
    <3>4. QueueTypeOK'
      BY <1>0, <2>0, <3>1, <3>3 DEF QueueTypeOK, PCs, Proceed
    <3>5. Scanning' /\ EmptyRing' /\ NoLostWakeup'
      BY <1>0, <1>5, <2>2, <3>1 DEF TryEnqueue, QueueTypeOK, Proceed, Scanning, EmptyRing, NoLostWakeup
    <3>6. Owners' = Owners \ {p} /\ Debtors' = Debtors
      BY <1>0, <1>5, <2>0, <3>1 DEF TryEnqueue, QueueTypeOK, Proceed, Owners, Debtors
    <3>7. /\ \A i \in Waiting : queue'[i] = queue[i]
          /\ queue'[writeIdx] = slot[p]
          /\ \A t \in Owners' : slot'[t] = slot[t]
          /\ Owners \subseteq QueueThreads
      BY <1>0, <2>0, <3>1, <3>3, <3>6 DEF QueueTypeOK, Waiting, Owners
    <3>8. OnePlacePerSample'
      BY <1>0, <2>0, <3>1, <3>3, <3>6, <3>7 DEF OnePlacePerSample
    <3>9. OneDemand'
      BY <1>0, <2>2, <3>1, <3>6 DEF OneDemand
    <3> QED
      BY <3>4, <3>5, <3>8, <3>9 DEF QueueInv
  <2> QED
    BY <2>1, <2>2
<1>10. ASSUME NEW w \in Workers, TryDequeue(w) PROVE QueueInv'
  <2>0. w \in QueueThreads /\ w \in Debtors /\ w \notin Owners
    BY <1>0, <1>10 DEF TryDequeue, Owners, Debtors
  <2>1. CASE hasData
    <3>1. /\ slot' = [slot EXCEPT ![w] = queue[readIdx]]
          /\ readIdx' = Next1(readIdx) /\ hasData' = (Next1(readIdx) # writeIdx)
          /\ writeIdx' = writeIdx /\ Proceed(w, "input")
          /\ UNCHANGED <<free, queue, needInput, requests, events, outs, frames, enqueued, number, fed>>
      BY <1>10, <2>1 DEF TryDequeue, TakeSample, history
    <3>2. /\ Waiting' = Waiting \ {readIdx} /\ readIdx \in Waiting
          /\ EmptyRing' /\ readIdx' \in Slots
      BY <1>0, <2>1, <3>1, TakeWaiting
    <3>3. queue[readIdx] \in Slots /\ queue[readIdx] \in 0 .. N
      <4>1. queue[readIdx] \in Slots
        BY <1>0 DEF QueueTypeOK
      <4> QED
        BY <4>1, <1>0 DEF Slots
    <3>4. QueueTypeOK'
      BY <1>0, <2>0, <3>1, <3>2, <3>3 DEF QueueTypeOK, PCs, Proceed
    <3>5. Scanning' /\ NoLostWakeup'
      BY <1>0, <1>10, <2>1, <3>1 DEF QueueTypeOK, Proceed, Scanning, NoLostWakeup
    <3>6. Owners' = Owners \cup {w} /\ Debtors' = Debtors
      BY <1>0, <1>10, <2>0, <3>1 DEF TryDequeue, QueueTypeOK, Proceed, Owners, Debtors
    <3>7. slot'[w] = queue[readIdx] /\ \A t \in Owners : slot'[t] = slot[t]
      BY <1>0, <2>0, <3>1 DEF QueueTypeOK, Owners
    <3>8. OnePlacePerSample'
      BY <1>0, <2>0, <3>1, <3>2, <3>3, <3>6, <3>7 DEF OnePlacePerSample
    <3>9. OneDemand'
      BY <1>0, <3>1, <3>6 DEF OneDemand
    <3> QED
      BY <3>2, <3>4, <3>5, <3>8, <3>9 DEF QueueInv
  <2>2. CASE ~hasData
    <3>1. /\ needInput' = TRUE /\ Proceed(w, "idle")
          /\ UNCHANGED <<free, queue, readIdx, writeIdx, hasData, slot, requests, events, outs,
                         frames, enqueued, number, fed>>
      BY <1>10, <2>2 DEF TryDequeue, LeaveWord, history
    <3>2. QueueTypeOK'
      BY <1>0, <2>0, <3>1 DEF QueueTypeOK, PCs, Proceed
    <3>3. Scanning' /\ EmptyRing' /\ NoLostWakeup'
      BY <1>0, <1>10, <2>2, <3>1 DEF TryDequeue, QueueTypeOK, Proceed, Scanning, EmptyRing,
         NoLostWakeup, QueueThreads
    <3>4. Owners' = Owners /\ Waiting' = Waiting /\ Debtors' = Debtors \ {w}
      BY <1>0, <1>10, <2>0, <3>1 DEF TryDequeue, QueueTypeOK, Proceed, Owners, Waiting, Debtors
    <3>5. OnePlacePerSample'
      BY <1>0, <3>1, <3>4 DEF OnePlacePerSample
    <3>6. Debtors' = {} /\ requests = 0
      BY <1>0, <2>0, <3>4 DEF OneDemand
    <3>7. OneDemand'
      BY <1>0, <3>1, <3>6 DEF OneDemand
    <3> QED
      BY <3>2, <3>3, <3>5, <3>7 DEF QueueInv
  <2> QED
    BY <2>1, <2>2
<1>13. ASSUME NEW t \in QueueThreads, ReleasePoolSlot(t) PROVE QueueInv'
  <2>1. t \in Owners /\ slot[t] \in Slots /\ N \in 0 .. N
    BY <1>0, <1>13 DEF ReleasePoolSlot, Owners, OnePlacePerSample
  <2>2. QueueTypeOK'
    BY <1>0, <1>13, <2>1 DEF ReleasePoolSlot, QueueTypeOK, PCs, Proceed, history
  <2>3. Scanning' /\ EmptyRing' /\ NoLostWakeup'
    BY <1>0, <1>13 DEF ReleasePoolSlot, QueueTypeOK, Proceed, Scanning, EmptyRing, NoLostWakeup
  <2>4. OneDemand'
    BY <1>0, <1>13 DEF ReleasePoolSlot, QueueTypeOK, Proceed, OneDemand, Debtors
  <2>5. /\ Owners' = Owners \ {t} /\ Waiting' = Waiting /\ queue' = queue
        /\ free' = free \cup {slot[t]}
        /\ \A u \in Owners' : slot'[u] = slot[u]
    BY <1>0, <1>13 DEF ReleasePoolSlot, QueueTypeOK, Proceed, Owners, Waiting
  <2>6. OnePlacePerSample'
    BY <1>0, <2>1, <2>5 DEF OnePlacePerSample
  <2> QED
    BY <2>2, <2>3, <2>4, <2>6 DEF QueueInv
<1>14. CASE UNCHANGED queueVars
  BY <1>0, <1>14 DEF queueVars, packed, history, QueueInv, QueueTypeOK, Scanning, EmptyRing,
     OnePlacePerSample,
                     OneDemand, NoLostWakeup, Owners, Waiting, Debtors
<1> QED
  BY <1>0, <1>1, <1>2, <1>3, <1>4, <1>5, <1>6, <1>7, <1>8, <1>9, <1>10, <1>11, <1>12, <1>13, <1>14
  DEF QueueNext, ProducerStep, WorkerStep

LEMMA QueueInvariant == QueueSpec => []QueueInv
<1> QED
  BY InitInv, StepInv, PTL DEF QueueSpec

\* Every variable keeps its type; the indices and the sample numbers stay in range.
THEOREM QueueTypeCorrect == QueueSpec => []QueueTypeOK
<1>1. QueueInv => QueueTypeOK
  BY DEF QueueInv
<1> QED
  BY <1>1, QueueInvariant, PTL

-----------------------------------------------------------------------------
\* No sample drops out of the pool: what an action takes from one place it puts
\* into another.
Kept(s) ==
    s \in free \/ (\E i \in Waiting : queue[i] = s) \/ (\E t \in Owners : slot[t] = s)

LEMMA StepKeepsSamples == QueueInv /\ NoSampleLost /\ [QueueNext]_queueVars => NoSampleLost'
<1> SUFFICES ASSUME QueueInv, NoSampleLost, [QueueNext]_queueVars PROVE NoSampleLost'
  OBVIOUS
<1>0. /\ QueueTypeOK /\ EmptyRing /\ OnePlacePerSample
      /\ Producers \subseteq QueueThreads /\ Workers \subseteq QueueThreads
      /\ Owners \subseteq QueueThreads
      /\ \A s \in Alloc : Kept(s)
  BY DEF QueueInv, QueueThreads, Owners, NoSampleLost, Kept
<1> SUFFICES ASSUME NEW s \in Alloc PROVE Kept(s)'
  BY DEF NoSampleLost, Kept
<1>1. ASSUME EncoderNeedsInput \/ EncoderHasOutput \/ UNCHANGED queueVars PROVE Kept(s)'
  BY <1>0, <1>1 DEF EncoderNeedsInput, EncoderHasOutput, queueVars, packed, Kept, Waiting, Owners
<1>2. ASSUME NEW p \in Producers, ProcessFrame(p) PROVE Kept(s)'
  BY <1>0, <1>2 DEF ProcessFrame, QueueTypeOK, Proceed, packed, Kept, Waiting, Owners
<1>3. ASSUME NEW p \in Producers, FillSample(p) PROVE Kept(s)'
  BY <1>0, <1>3 DEF FillSample, QueueTypeOK, Proceed, packed, Kept, Waiting, Owners
<1>4. ASSUME NEW t \in QueueThreads, RetryCas(t) PROVE Kept(s)'
  BY <1>0, <1>4 DEF RetryCas, packed, Kept, Waiting, Owners
<1>5. ASSUME NEW w \in Workers, Invoke(w) PROVE Kept(s)'
  BY <1>0, <1>5 DEF Invoke, QueueTypeOK, Proceed, packed, Kept, Waiting, Owners
<1>6. ASSUME NEW w \in Workers, ProcessOutput(w) PROVE Kept(s)'
  BY <1>0, <1>6 DEF ProcessOutput, QueueTypeOK, Proceed, packed, Kept, Waiting, Owners
<1>7. ASSUME NEW w \in Workers, NeedInputEvent(w) PROVE Kept(s)'
  BY <1>0, <1>7 DEF NeedInputEvent, QueueTypeOK, Proceed, packed, Kept, Waiting, Owners
<1>8. ASSUME NEW t \in QueueThreads, ProcessInput(t) PROVE Kept(s)'
  BY <1>0, <1>8 DEF ProcessInput, QueueTypeOK, Proceed, packed, Kept, Waiting, Owners
<1>9. ASSUME NEW t \in QueueThreads, BeginGetEvent(t) PROVE Kept(s)'
  BY <1>0, <1>9 DEF BeginGetEvent, QueueTypeOK, Proceed, packed, Kept, Waiting, Owners
<1>10. ASSUME NEW p \in Producers, AcquirePoolSlot(p) PROVE Kept(s)'
  <2>1. /\ Waiting' = Waiting /\ queue' = queue /\ p \in QueueThreads /\ p \notin Owners
    BY <1>0, <1>10 DEF AcquirePoolSlot, QueueTypeOK, Waiting, Owners
  <2>2. CASE slot[p] - 1 \in free
    <3>1. /\ Owners' = Owners \cup {p}
          /\ slot' = [slot EXCEPT ![p] = slot[p] - 1]
          /\ free' = free \ {slot[p] - 1}
      BY <1>0, <1>10, <2>1, <2>2 DEF AcquirePoolSlot, QueueTypeOK, Proceed, Owners
    <3> QED
      BY <1>0, <2>1, <3>1 DEF QueueTypeOK, Kept
  <2>3. CASE slot[p] - 1 \notin free
    <3>1. /\ Owners' = Owners /\ free' = free
          /\ \A t \in Owners : slot'[t] = slot[t]
      BY <1>0, <1>10, <2>1, <2>3 DEF AcquirePoolSlot, QueueTypeOK, Proceed, Owners
    <3> QED
      BY <1>0, <2>1, <3>1 DEF Kept
  <2> QED
    BY <2>2, <2>3
<1>11. ASSUME NEW p \in Producers, TryEnqueue(p) PROVE Kept(s)'
  <2>1. p \in QueueThreads /\ p \in Owners
    BY <1>0, <1>11 DEF TryEnqueue, Owners
  <2>2. CASE needInput
    <3>1. Owners' = Owners /\ Waiting' = Waiting /\ UNCHANGED <<free, queue, slot>>
      BY <1>0, <1>11, <2>1, <2>2 DEF TryEnqueue, Accept, QueueTypeOK, Proceed, Owners, Waiting
    <3> QED
      BY <1>0, <3>1 DEF Kept
  <2>3. CASE ~needInput
    <3>1. /\ queue' = [queue EXCEPT ![writeIdx] = slot[p]]
          /\ writeIdx' = Next1(writeIdx) /\ hasData' = TRUE
          /\ slot' = [slot EXCEPT ![p] = N] /\ UNCHANGED <<free, readIdx>>
          /\ Owners' = Owners \ {p}
      BY <1>0, <1>11, <2>1, <2>3 DEF TryEnqueue, Accept, AppendSample, QueueTypeOK, Proceed, Owners
    <3>2. ~(hasData /\ readIdx = writeIdx)
      BY <1>0, <2>1, RoomForMine
    <3>3. Waiting' = Waiting \cup {writeIdx} /\ writeIdx \notin Waiting
      BY <1>0, <3>1, <3>2, AppendWaiting
    <3>4. /\ \A i \in Waiting : queue'[i] = queue[i]
          /\ queue'[writeIdx] = slot[p]
          /\ \A t \in Owners' : slot'[t] = slot[t]
      BY <1>0, <3>1, <3>3 DEF QueueTypeOK, Waiting
    <3> QED
      BY <1>0, <3>1, <3>3, <3>4 DEF Kept
  <2> QED
    BY <2>2, <2>3
<1>12. ASSUME NEW w \in Workers, TryDequeue(w) PROVE Kept(s)'
  <2>1. w \in QueueThreads /\ w \notin Owners
    BY <1>0, <1>12 DEF TryDequeue, Owners
  <2>2. CASE hasData
    <3>1. /\ slot' = [slot EXCEPT ![w] = queue[readIdx]]
          /\ readIdx' = Next1(readIdx) /\ hasData' = (Next1(readIdx) # writeIdx)
          /\ writeIdx' = writeIdx /\ UNCHANGED <<free, queue>>
          /\ Owners' = Owners \cup {w}
      BY <1>0, <1>12, <2>1, <2>2 DEF TryDequeue, TakeSample, QueueTypeOK, Proceed, Owners
    <3>2. Waiting' = Waiting \ {readIdx} /\ readIdx \in Waiting
      BY <1>0, <2>2, <3>1, TakeWaiting
    <3>3. slot'[w] = queue[readIdx] /\ \A t \in Owners : slot'[t] = slot[t]
      BY <1>0, <2>1, <3>1 DEF QueueTypeOK
    <3> QED
      BY <1>0, <3>1, <3>2, <3>3 DEF Kept
  <2>3. CASE ~hasData
    <3>1. Owners' = Owners /\ Waiting' = Waiting /\ UNCHANGED <<free, queue, slot>>
      BY <1>0, <1>12, <2>1, <2>3 DEF TryDequeue, QueueTypeOK, Proceed, Owners, Waiting
    <3> QED
      BY <1>0, <3>1 DEF Kept
  <2> QED
    BY <2>2, <2>3
<1>13. ASSUME NEW t \in QueueThreads, ReleasePoolSlot(t) PROVE Kept(s)'
  <2>1. /\ Owners' = Owners \ {t} /\ Waiting' = Waiting /\ queue' = queue
        /\ free' = free \cup {slot[t]}
        /\ \A u \in Owners' : slot'[u] = slot[u]
    BY <1>0, <1>13 DEF ReleasePoolSlot, QueueTypeOK, Proceed, Owners, Waiting
  <2> QED
    BY <1>0, <2>1 DEF Kept
<1> QED
  BY <1>0, <1>1, <1>2, <1>3, <1>4, <1>5, <1>6, <1>7, <1>8, <1>9, <1>10, <1>11, <1>12, <1>13
  DEF QueueNext, ProducerStep, WorkerStep

\* A sample is in one place and none is lost: free, waiting once, or in the hands
\* of one thread.
THEOREM SamplesAreKept == QueueSpec => []PoolIsWhole
<1>1. QueueInit => NoSampleLost
  BY DEF QueueInit, NoSampleLost
<1>2. QueueInv /\ NoSampleLost => PoolIsWhole
  BY DEF QueueInv, PoolIsWhole
<1> QED
  BY <1>1, <1>2, QueueInvariant, StepKeepsSamples, PTL DEF QueueSpec

\* There is never a second BeginGetEvent outstanding or owed, and the encoder is
\* never left waiting while a frame waits.
THEOREM DemandIsUnique == QueueSpec => []DemandIsMet
<1>1. QueueInv => DemandIsMet
  BY DEF QueueInv, DemandIsMet
<1> QED
  BY <1>1, QueueInvariant, PTL

\* The code's "never must be": no producer ever meets a full ring.
THEOREM RingNeverFull == QueueSpec => []NeverFull
<1>1. QueueInv => NeverFull
  BY RoomForMine DEF QueueInv, NeverFull, Owners, QueueThreads
<1> QED
  BY <1>1, QueueInvariant, PTL
-----------------------------------------------------------------------------
\* The order of the frames.  Until the encoder refuses a sample, the frames that
\* wait have the numbers that follow the last one handed over, one after the
\* other from readIdx on, and the last of them is the last one accepted.
Feeding == {t \in QueueThreads : at[t] = "input"}
Handed  == IF Feeding = {} THEN fed ELSE fed + 1
Dist(i) == IF readIdx <= i THEN i - readIdx ELSE i - readIdx + N
CountOf   == IF ~hasData THEN 0
           ELSE IF readIdx < writeIdx THEN writeIdx - readIdx ELSE writeIdx - readIdx + N

InOrder ==
    /\ \A t \in Feeding : number[slot[t]] = fed + 1
    /\ \A i \in Waiting : number[queue[i]] = Handed + 1 + Dist(i)
    /\ enqueued = Handed + CountOf

\* What a step does that neither hands a frame over nor touches the ring.
RingUntouched ==
    /\ UNCHANGED <<queue, readIdx, writeIdx, hasData, enqueued, number, fed>>
    /\ Feeding' = Feeding
    /\ \A t \in Feeding : slot'[t] = slot[t]

LEMMA UntouchedOrder == RingUntouched /\ InOrder => InOrder'
<1> SUFFICES ASSUME RingUntouched, InOrder PROVE InOrder'
  OBVIOUS
<1>1. Waiting' = Waiting /\ Handed' = Handed /\ CountOf' = CountOf
  BY DEF RingUntouched, Waiting, Handed, CountOf
<1>2. \A i \in Waiting : Dist(i)' = Dist(i)
  BY DEF RingUntouched, Dist
<1>3. \A t \in Feeding' : number'[slot'[t]] = fed' + 1
  BY DEF RingUntouched, InOrder
<1> QED
  BY <1>1, <1>2, <1>3 DEF RingUntouched, InOrder

\* Once the demand is nowhere it stays nowhere.
LEMMA StepStalled == QueueInv /\ [QueueNext]_queueVars /\ Stalled => Stalled'
<1> SUFFICES ASSUME QueueInv, [QueueNext]_queueVars, Stalled PROVE Stalled'
  OBVIOUS
<1>0. /\ QueueTypeOK /\ Debtors = {} /\ requests = 0 /\ ~needInput
      /\ Producers \subseteq QueueThreads /\ Workers \subseteq QueueThreads
      /\ \A t \in QueueThreads : at[t] \notin {"event", "output", "dequeue", "input", "begin"}
  BY DEF QueueInv, QueueThreads, Stalled, Debtors
<1>1. CASE EncoderNeedsInput \/ EncoderHasOutput \/ UNCHANGED queueVars
  BY <1>0, <1>1 DEF EncoderNeedsInput, EncoderHasOutput, queueVars, packed, Stalled, Debtors
<1>2. ASSUME NEW p \in Producers, ProcessFrame(p) PROVE Stalled'
  BY <1>0, <1>2 DEF ProcessFrame, QueueTypeOK, Proceed, packed, Stalled, Debtors
<1>3. ASSUME NEW p \in Producers, AcquirePoolSlot(p) PROVE Stalled'
  BY <1>0, <1>3 DEF AcquirePoolSlot, QueueTypeOK, Proceed, Stalled, Debtors
<1>4. ASSUME NEW p \in Producers, FillSample(p) PROVE Stalled'
  BY <1>0, <1>4 DEF FillSample, QueueTypeOK, Proceed, packed, Stalled, Debtors
<1>5. ASSUME NEW p \in Producers, TryEnqueue(p) PROVE Stalled'
  BY <1>0, <1>5 DEF TryEnqueue, Accept, QueueTypeOK, Proceed, Stalled, Debtors
<1>6. ASSUME NEW t \in QueueThreads, RetryCas(t) PROVE Stalled'
  BY <1>0, <1>6 DEF RetryCas, packed, Stalled, Debtors
<1>7. ASSUME NEW w \in Workers, Invoke(w) PROVE Stalled'
  BY <1>0, <1>7 DEF Invoke
<1>8. ASSUME NEW t \in QueueThreads, \/ ProcessOutput(t) \/ NeedInputEvent(t) \/ TryDequeue(t)
                                \/ ProcessInput(t) \/ BeginGetEvent(t)
      PROVE  Stalled'
  BY <1>0, <1>8 DEF ProcessOutput, NeedInputEvent, TryDequeue, ProcessInput, BeginGetEvent
<1>9. ASSUME NEW t \in QueueThreads, ReleasePoolSlot(t) PROVE Stalled'
  BY <1>0, <1>9 DEF ReleasePoolSlot, QueueTypeOK, Proceed, Stalled, Debtors
<1> QED
  BY <1>0, <1>1, <1>2, <1>3, <1>4, <1>5, <1>6, <1>7, <1>8, <1>9
  DEF QueueNext, ProducerStep, WorkerStep

\* A frame that is accepted gets the next number, whether it is handed over at
\* once or goes to the end of the ring.
LEMMA EnqueueOrder ==
    ASSUME QueueInv, InOrder, NEW p \in Producers, TryEnqueue(p)
    PROVE  InOrder'
<1>0. /\ QueueTypeOK /\ EmptyRing /\ OnePlacePerSample /\ OneDemand /\ NoLostWakeup
      /\ N \in Nat /\ N >= 1 /\ readIdx \in Int /\ writeIdx \in Int
      /\ 0 <= readIdx /\ readIdx < N /\ 0 <= writeIdx /\ writeIdx < N
      /\ enqueued \in Nat /\ fed \in Nat
  <2>1. QueueTypeOK /\ EmptyRing /\ OnePlacePerSample /\ OneDemand /\ NoLostWakeup
    BY DEF QueueInv
  <2>2. enqueued \in Nat /\ fed \in Nat /\ readIdx \in Slots /\ writeIdx \in Slots
    BY <2>1 DEF QueueTypeOK
  <2>3. N \in Nat /\ N >= 1 /\ \A i \in Slots : i \in Int /\ 0 <= i /\ i < N
    BY NAssumption DEF Slots
  <2> QED
    BY <2>1, <2>2, <2>3
<1>1. p \in QueueThreads /\ p \in Owners /\ slot[p] \in Slots /\ p \notin Feeding /\ at[p] = "enqueue"
  BY <1>0 DEF TryEnqueue, Owners, OnePlacePerSample, QueueThreads, Feeding
<1>2. /\ enqueued' = enqueued + 1 /\ fed' = fed /\ readIdx' = readIdx
      /\ number' = [number EXCEPT ![slot[p]] = enqueued + 1]
      /\ number'[slot[p]] = enqueued + 1
      /\ \A s \in Slots : s # slot[p] => number'[s] = number[s]
  BY <1>0, <1>1 DEF TryEnqueue, Accept, QueueTypeOK
<1>3. CASE needInput
  <2>1. ~hasData /\ Waiting = {} /\ Feeding = {} /\ CountOf = 0 /\ Handed = fed
    <3>1. ~hasData /\ Debtors = {}
      BY <1>0, <1>3 DEF NoLostWakeup, OneDemand
    <3> QED
      BY <3>1 DEF Waiting, Feeding, Debtors, CountOf, Handed
  <2>2. UNCHANGED <<queue, writeIdx, hasData, slot>> /\ Proceed(p, "input")
    BY <1>3 DEF TryEnqueue
  <2>3. Feeding' = {p}
    BY <1>0, <1>1, <2>1, <2>2 DEF Proceed, QueueTypeOK, Feeding
  <2>4. Waiting' = {} /\ CountOf' = 0 /\ Handed' = fed + 1
    BY <1>2, <2>1, <2>2, <2>3 DEF Waiting, CountOf, Handed
  <2>5. enqueued = fed
    BY <1>0, <2>1 DEF InOrder
  <2> QED
    BY <1>0, <1>2, <2>2, <2>3, <2>4, <2>5 DEF InOrder
<1>4. CASE ~needInput
  <2>1. /\ queue' = [queue EXCEPT ![writeIdx] = slot[p]]
        /\ writeIdx' = Next1(writeIdx) /\ hasData' = TRUE
        /\ slot' = [slot EXCEPT ![p] = N] /\ Proceed(p, "idle")
    BY <1>4 DEF TryEnqueue, AppendSample
  <2>2. ~(hasData /\ readIdx = writeIdx)
    BY <1>0, <1>1, RoomForMine
  <2>3. Waiting' = Waiting \cup {writeIdx} /\ writeIdx \notin Waiting
    BY <1>0, <1>2, <2>1, <2>2, AppendWaiting
  <2>4. Feeding' = Feeding /\ \A t \in Feeding : slot'[t] = slot[t]
    BY <1>0, <1>1, <2>1 DEF Proceed, QueueTypeOK, Feeding
  <2>5. Handed' = Handed /\ Handed \in Nat
    BY <1>0, <1>2, <2>4 DEF Handed
  <2>6. CountOf' = CountOf + 1 /\ Dist(writeIdx) = CountOf /\ CountOf \in Nat
    BY <1>0, <1>2, <2>1, <2>2 DEF CountOf, Dist, Next1, EmptyRing
  <2>7. \A i \in Slots : Dist(i)' = Dist(i)
    BY <1>2 DEF Dist
  <2>8. enqueued = Handed + CountOf
    BY DEF InOrder
  <2>9. \A t \in Feeding' : number'[slot'[t]] = fed' + 1
    <3> SUFFICES ASSUME NEW t \in Feeding PROVE number'[slot[t]] = fed + 1
      BY <1>2, <2>4
    <3>1. t \in Owners /\ t # p
      BY <1>1 DEF Feeding, Owners
    <3>2. slot[t] # slot[p] /\ slot[t] \in Slots
      BY <1>0, <1>1, <3>1 DEF OnePlacePerSample
    <3> QED
      BY <1>2, <3>2 DEF InOrder
  <2>10. ASSUME NEW i \in Waiting' PROVE number'[queue'[i]] = Handed' + 1 + Dist(i)'
    <3>1. CASE i = writeIdx
      <4>1. queue'[i] = slot[p] /\ Dist(i)' = CountOf
        BY <1>0, <2>1, <2>6, <2>7, <3>1 DEF QueueTypeOK
      <4> QED
        BY <1>2, <2>5, <2>6, <2>8, <4>1
    <3>2. CASE i \in Waiting
      <4>1. i # writeIdx /\ i \in Slots
        BY <2>3, <3>2 DEF Waiting
      <4>2. queue'[i] = queue[i] /\ queue[i] \in Slots
        BY <1>0, <2>1, <4>1 DEF QueueTypeOK
      <4>3. queue[i] # slot[p]
        BY <1>0, <1>1, <3>2 DEF OnePlacePerSample
      <4>4. number[queue[i]] = Handed + 1 + Dist(i)
        BY <3>2 DEF InOrder
      <4> QED
        BY <1>2, <2>5, <2>7, <4>1, <4>2, <4>3, <4>4
    <3> QED
      BY <2>3, <3>1, <3>2
  <2>11. enqueued' = Handed' + CountOf'
    BY <1>2, <2>5, <2>6, <2>8
  <2> QED
    BY <2>9, <2>10, <2>11 DEF InOrder
<1> QED
  BY <1>3, <1>4

\* What TryDequeue takes is the frame after the last one fed.
LEMMA DequeueOrder ==
    ASSUME QueueInv, InOrder, NEW w \in Workers, TryDequeue(w)
    PROVE  InOrder'
<1>0. /\ QueueTypeOK /\ EmptyRing /\ OneDemand
      /\ N \in Nat /\ N >= 1 /\ readIdx \in Int /\ writeIdx \in Int
      /\ 0 <= readIdx /\ readIdx < N /\ 0 <= writeIdx /\ writeIdx < N
      /\ enqueued \in Nat /\ fed \in Nat
  <2>1. QueueTypeOK /\ EmptyRing /\ OneDemand
    BY DEF QueueInv
  <2>2. enqueued \in Nat /\ fed \in Nat /\ readIdx \in Slots /\ writeIdx \in Slots
    BY <2>1 DEF QueueTypeOK
  <2>3. N \in Nat /\ N >= 1 /\ \A i \in Slots : i \in Int /\ 0 <= i /\ i < N
    BY NAssumption DEF Slots
  <2> QED
    BY <2>1, <2>2, <2>3
<1>1. /\ w \in QueueThreads /\ w \in Debtors /\ at[w] = "dequeue"
      /\ UNCHANGED <<queue, enqueued, number, fed>>
  BY DEF TryDequeue, QueueThreads, Debtors, history
<1>2. Feeding = {} /\ Handed = fed
  <2>1. \A t \in Feeding : t \in Debtors /\ t # w
    BY <1>1 DEF Feeding, Debtors
  <2>2. Feeding = {}
    BY <1>0, <1>1, <2>1 DEF OneDemand
  <2> QED
    BY <2>2 DEF Handed
<1>3. CASE hasData
  <2>1. /\ slot' = [slot EXCEPT ![w] = queue[readIdx]]
        /\ readIdx' = Next1(readIdx) /\ hasData' = (Next1(readIdx) # writeIdx)
        /\ writeIdx' = writeIdx /\ Proceed(w, "input")
    BY <1>3 DEF TryDequeue, TakeSample
  <2>2. Waiting' = Waiting \ {readIdx} /\ readIdx \in Waiting
    BY <1>0, <1>3, <2>1, TakeWaiting
  <2>3. Feeding' = {w} /\ slot'[w] = queue[readIdx]
    BY <1>0, <1>1, <1>2, <2>1 DEF Proceed, QueueTypeOK, Feeding
  <2>4. Handed' = fed + 1
    BY <1>1, <2>3 DEF Handed
  <2>5. Dist(readIdx) = 0
    BY <1>0 DEF Dist
  <2>6. number[queue[readIdx]] = fed + 1
    BY <1>0, <1>2, <2>2, <2>5 DEF InOrder
  <2>7. CountOf = CountOf' + 1 /\ CountOf' \in Nat
    <3>1. CASE Next1(readIdx) = writeIdx
      <4>1. ~hasData' /\ CountOf' = 0
        BY <2>1, <3>1 DEF CountOf
      <4>2. CountOf = 1
        BY <1>0, <1>3, <3>1 DEF CountOf, Next1
      <4> QED
        BY <4>1, <4>2
    <3>2. CASE Next1(readIdx) # writeIdx
      <4>1. hasData'
        BY <2>1, <3>2
      <4> QED
        BY <1>0, <1>3, <2>1, <3>2, <4>1 DEF CountOf, Next1
    <3> QED
      BY <3>1, <3>2
  <2>8. ASSUME NEW i \in Waiting' PROVE number'[queue'[i]] = Handed' + 1 + Dist(i)'
    <3>1. i \in Waiting /\ i # readIdx /\ i \in Int /\ 0 <= i /\ i < N
      BY <1>0, <2>2 DEF Waiting, Slots
    <3>2. Dist(i) = Dist(i)' + 1 /\ Dist(i)' \in Int
      BY <1>0, <2>1, <3>1 DEF Dist, Next1
    <3>3. number[queue[i]] = fed + 1 + Dist(i)
      BY <1>2, <3>1 DEF InOrder
    <3> QED
      BY <1>0, <1>1, <2>4, <3>2, <3>3
  <2>9. enqueued = fed + CountOf
    BY <1>2 DEF InOrder
  <2>10. enqueued' = Handed' + CountOf'
    BY <1>0, <1>1, <2>4, <2>7, <2>9
  <2> QED
    BY <1>1, <2>3, <2>6, <2>8, <2>10 DEF InOrder
<1>4. CASE ~hasData
  <2>1. UNCHANGED <<slot, readIdx, writeIdx, hasData>> /\ Proceed(w, "idle")
    BY <1>4 DEF TryDequeue
  <2>2. Feeding' = Feeding
    BY <1>0, <1>1, <1>2, <2>1 DEF Proceed, QueueTypeOK, Feeding
  <2> QED
    BY <1>1, <2>1, <2>2, UntouchedOrder DEF RingUntouched
<1> QED
  BY <1>3, <1>4

\* The encoder takes the frame, or refuses it and is never heard of again.
LEMMA InputOrder ==
    ASSUME QueueInv, InOrder, NEW t \in QueueThreads, ProcessInput(t)
    PROVE  /\ InOrder' \/ Stalled'
           /\ fed' # fed => fed' = fed + 1
<1>0. QueueTypeOK /\ OneDemand /\ fed \in Nat
  BY DEF QueueInv, QueueTypeOK
<1>1. /\ at[t] = "input" /\ t \in Feeding /\ t \in Debtors
      /\ UNCHANGED <<queue, readIdx, writeIdx, hasData, needInput, slot, requests, enqueued, number>>
  BY DEF ProcessInput, Feeding, Debtors, packed
<1>2. requests = 0 /\ ~needInput /\ Debtors = {t}
  BY <1>0, <1>1 DEF OneDemand
<1>3. Feeding = {t} /\ Handed = fed + 1
  <2>1. Feeding \subseteq Debtors
    BY DEF Feeding, Debtors
  <2>2. Feeding = {t}
    BY <1>1, <1>2, <2>1
  <2> QED
    BY <2>2 DEF Handed
<1>4. number[slot[t]] = fed + 1
  BY <1>1 DEF InOrder
<1>5. CASE fed' = number[slot[t]] /\ Proceed(t, "begin")
  <2>1. Feeding' = {} /\ fed' = fed + 1
    BY <1>0, <1>1, <1>3, <1>4, <1>5 DEF Proceed, QueueTypeOK, Feeding
  <2>2. Handed' = Handed
    BY <1>3, <2>1 DEF Handed
  <2>3. Waiting' = Waiting /\ CountOf' = CountOf
    BY <1>1 DEF Waiting, CountOf
  <2>4. \A i \in Waiting : Dist(i)' = Dist(i)
    BY <1>1 DEF Dist
  <2>5. InOrder'
    BY <1>1, <2>1, <2>2, <2>3, <2>4 DEF InOrder
  <2> QED
    BY <2>1, <2>5
<1>6. CASE Proceed(t, "release") /\ fed' = fed
  <2>1. Debtors' = {}
    BY <1>0, <1>1, <1>2, <1>6 DEF Proceed, QueueTypeOK, Debtors
  <2> QED
    BY <1>1, <1>2, <1>6, <2>1 DEF Stalled
<1> QED
  BY <1>5, <1>6 DEF ProcessInput

\* Every other step leaves the order alone.
LEMMA StepOrder ==
    QueueInv /\ (Stalled \/ InOrder) /\ [QueueNext]_queueVars
        => /\ (Stalled \/ InOrder)'
           /\ fed' # fed => fed' = fed + 1
<1> SUFFICES ASSUME QueueInv, Stalled \/ InOrder, [QueueNext]_queueVars
             PROVE  (Stalled \/ InOrder)' /\ (fed' # fed => fed' = fed + 1)
  OBVIOUS
<1> DEFINE Fine == (Stalled \/ InOrder)' /\ (fed' # fed => fed' = fed + 1)
<1>0. QueueTypeOK /\ Producers \subseteq QueueThreads /\ Workers \subseteq QueueThreads
  BY DEF QueueInv, QueueThreads
<1>1. CASE Stalled
  <2>1. fed' = fed
    <3>1. \A t \in QueueThreads : at[t] # "input"
      BY <1>1 DEF Stalled, Debtors
    <3>2. \A t \in QueueThreads : ~ProcessInput(t)
      BY <3>1 DEF ProcessInput
    <3> QED
      BY <1>0, <3>2 DEF QueueNext, ProducerStep, WorkerStep, queueVars, history, EncoderNeedsInput,
         EncoderHasOutput, ProcessFrame, AcquirePoolSlot, FillSample, TryEnqueue, Accept,
         RetryCas, Invoke, ProcessOutput, NeedInputEvent, TryDequeue, BeginGetEvent,
         ReleasePoolSlot
  <2> QED
    BY <1>1, <2>1, StepStalled
<1>2. CASE InOrder
  <2>a. RingUntouched => Fine
    BY <1>2, UntouchedOrder DEF RingUntouched
  <2>1. ASSUME EncoderNeedsInput \/ EncoderHasOutput \/ UNCHANGED queueVars PROVE Fine
    BY <2>a, <2>1 DEF EncoderNeedsInput, EncoderHasOutput, queueVars, packed, history,
       RingUntouched, Feeding
  <2>2. ASSUME NEW p \in Producers, ProcessFrame(p) PROVE Fine
    BY <1>0, <2>a, <2>2 DEF ProcessFrame, QueueTypeOK, Proceed, packed, RingUntouched, Feeding
  <2>3. ASSUME NEW p \in Producers, AcquirePoolSlot(p) PROVE Fine
    <3>1. at[p] = "scan" /\ UNCHANGED <<queue, readIdx, writeIdx, hasData, enqueued, number, fed>>
      BY <2>3 DEF AcquirePoolSlot, history
    <3>2. /\ Feeding' = Feeding /\ p \notin Feeding
          /\ \A t \in Feeding : slot'[t] = slot[t]
      BY <1>0, <2>3, <3>1 DEF AcquirePoolSlot, QueueTypeOK, Proceed, Feeding
    <3> QED
      BY <2>a, <3>1, <3>2 DEF RingUntouched
  <2>4. ASSUME NEW p \in Producers, FillSample(p) PROVE Fine
    BY <1>0, <2>a, <2>4 DEF FillSample, QueueTypeOK, Proceed, packed, history, RingUntouched, Feeding
  <2>5. ASSUME NEW p \in Producers, TryEnqueue(p) PROVE Fine
    BY <1>2, <2>5, EnqueueOrder DEF TryEnqueue, Accept
  <2>6. ASSUME NEW t \in QueueThreads, RetryCas(t) PROVE Fine
    BY <2>a, <2>6 DEF RetryCas, packed, history, RingUntouched, Feeding
  <2>7. ASSUME NEW w \in Workers, Invoke(w) PROVE Fine
    <3>1. /\ at[w] = "idle" /\ at' = [at EXCEPT ![w] = at'[w]] /\ at'[w] # "input"
          /\ UNCHANGED <<queue, readIdx, writeIdx, hasData, enqueued, number, fed, slot>>
      BY <1>0, <2>7 DEF Invoke, QueueTypeOK, Proceed, packed, history
    <3>2. Feeding' = Feeding
      BY <1>0, <3>1 DEF QueueTypeOK, Feeding
    <3> QED
      BY <2>a, <3>1, <3>2 DEF RingUntouched
  <2>8. ASSUME NEW w \in Workers, ProcessOutput(w) PROVE Fine
    BY <1>0, <2>a, <2>8 DEF ProcessOutput, QueueTypeOK, Proceed, packed, history, RingUntouched, Feeding
  <2>9. ASSUME NEW w \in Workers, NeedInputEvent(w) PROVE Fine
    BY <1>0, <2>a, <2>9 DEF NeedInputEvent, QueueTypeOK, Proceed, packed, history, RingUntouched, Feeding
  <2>10. ASSUME NEW w \in Workers, TryDequeue(w) PROVE Fine
    BY <1>2, <2>10, DequeueOrder DEF TryDequeue, history
  <2>11. ASSUME NEW t \in QueueThreads, ProcessInput(t) PROVE Fine
    BY <1>2, <2>11, InputOrder
  <2>12. ASSUME NEW t \in QueueThreads, BeginGetEvent(t) PROVE Fine
    BY <1>0, <2>a, <2>12 DEF BeginGetEvent, QueueTypeOK, Proceed, packed, history, RingUntouched, Feeding
  <2>13. ASSUME NEW t \in QueueThreads, ReleasePoolSlot(t) PROVE Fine
    <3>1. at[t] = "release" /\ t \notin Feeding
      BY <2>13 DEF ReleasePoolSlot, Feeding
    <3> QED
      BY <1>0, <2>a, <2>13, <3>1 DEF ReleasePoolSlot, QueueTypeOK, Proceed, history, RingUntouched, Feeding
  <2> HIDE DEF Fine
  <2>14. Fine
    BY <1>0, <2>1, <2>2, <2>3, <2>4, <2>5, <2>6, <2>7, <2>8, <2>9, <2>10, <2>11, <2>12, <2>13
    DEF QueueNext, ProducerStep, WorkerStep
  <2> QED
    BY <2>14 DEF Fine
<1> QED
  BY <1>1, <1>2

\* The encoder gets the frames in the order of their acceptance, none twice and
\* none left out: for any pool and any threads, also when the encoder may refuse a
\* sample.
THEOREM FramesInOrder == QueueSpec => FedInOrder
<1>1. QueueInit => InOrder
  <2> SUFFICES ASSUME QueueInit PROVE InOrder
    OBVIOUS
  <2>1. Feeding = {} /\ Waiting = {} /\ CountOf = 0
    BY DEF QueueInit, Feeding, Waiting, CountOf
  <2>2. Handed = 0 /\ enqueued = 0
    BY <2>1 DEF QueueInit, Handed
  <2> QED
    BY <2>1, <2>2 DEF InOrder
<1>2. QueueInv /\ (Stalled \/ InOrder) /\ [QueueNext]_queueVars
          => (Stalled \/ InOrder)' /\ [fed' # fed => fed' = fed + 1]_queueVars
  BY StepOrder
<1> QED
  BY <1>1, <1>2, QueueInvariant, PTL DEF QueueSpec, FedInOrder
=============================================================================
