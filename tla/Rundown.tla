------------------------------- MODULE Rundown -------------------------------
(***************************************************************************)
(* RundownProtection of inc/rundown.h: one 32-bit word that is at the same *)
(* time a "may still be used" flag (bit 31) and a count of users.  It      *)
(* guards every object of the program that two threads can close: file and *)
(* socket handles, TCP connections, UDP endpoints, windows.                *)
(*                                                                         *)
(* The word is read as a signed number.  v_init is the most negative one,  *)
(* here -Bias (Bias = 2^31 in the code); v_complete is 0.  Acquire is a    *)
(* compare-and-swap loop, every other operation is one interlocked         *)
(* instruction, so each instruction is one step here.                      *)
(*                                                                         *)
(* A user is one use of the object: it acquires, possibly begins the       *)
(* rundown, releases, and runs the completion callback if its Release      *)
(* returned TRUE.  The history variables count incarnations.               *)
(***************************************************************************)
EXTENDS Integers, FiniteSets

CONSTANTS Users,     \* threads and pending requests that use the object: fewer than Bias
          Bias,      \* 2^31: minus the value v_init
          MaxInit    \* bound on the number of incarnations explored

v_init     == -Bias
v_complete == 0

VARIABLES value,     \* _Value
          pc,        \* pc[u]: where user u is
          guess,     \* guess[u]: the local variable Value of Acquire
          inits,     \* history: successful calls of Init
          callbacks, \* history: completion callbacks owed or run
          era        \* era[u]: history: the incarnation u acquired

vars == <<value, pc, guess, inits, callbacks, era>>

TypeOK ==
    /\ value \in -Bias .. Cardinality(Users)
    /\ pc \in [Users -> {"idle", "trying", "held", "callback"}]
    /\ guess \in [Users -> -Bias .. -1]
    /\ inits \in Nat
    /\ callbacks \in Nat
    /\ era \in [Users -> Nat]

Init ==
    /\ value = v_complete
    /\ pc = [u \in Users |-> "idle"]
    /\ guess = [u \in Users |-> v_init]
    /\ inits = 0
    /\ callbacks = 0
    /\ era = [u \in Users |-> 0]

Goto(u, l) == pc' = [pc EXCEPT ![u] = l]

-----------------------------------------------------------------------------
\* Init(): succeeds only on an object whose rundown is complete.
Start(u) ==
    /\ pc[u] = "idle"
    /\ inits < MaxInit
    /\ value = v_complete
    /\ value' = v_init
    /\ inits' = inits + 1
    /\ UNCHANGED <<pc, guess, callbacks, era>>

\* Acquire(), first line: the first guess is v_init, whatever the value is.
AcquireBegin(u) ==
    /\ pc[u] = "idle"
    /\ guess' = [guess EXCEPT ![u] = v_init]
    /\ Goto(u, "trying")
    /\ UNCHANGED <<value, inits, callbacks, era>>

\* The compare-and-swap found the guessed value: the object is protected.
AcquireWin(u) ==
    /\ pc[u] = "trying"
    /\ value = guess[u]
    /\ value' = value + 1
    /\ era' = [era EXCEPT ![u] = inits]
    /\ Goto(u, "held")
    /\ UNCHANGED <<guess, inits, callbacks>>

\* It found another value: try again with that one if it is negative.
AcquireRetry(u) ==
    /\ pc[u] = "trying"
    /\ value # guess[u]
    /\ value < 0
    /\ guess' = [guess EXCEPT ![u] = value]
    /\ UNCHANGED <<value, pc, inits, callbacks, era>>

\* It found a value without bit 31: return FALSE.
AcquireFail_Leaks(u) ==     \* mutant: increment first, test after
    /\ pc[u] = "trying"
    /\ value # guess[u]
    /\ value >= 0
    /\ value < Bias
    /\ value' = value + 1
    /\ Goto(u, "idle")
    /\ UNCHANGED <<guess, inits, callbacks, era>>

AcquireFail(u) ==
    /\ pc[u] = "trying"
    /\ value # guess[u]
    /\ value >= 0
    /\ Goto(u, "idle")
    /\ UNCHANGED <<value, guess, inits, callbacks, era>>

\* Rundown_l(), called by a user that holds protection: reset bit 31.
ClearTopBit(v) == IF v < 0 THEN v + Bias ELSE v

Rundown_l(u) ==
    /\ pc[u] = "held"
    /\ value' = ClearTopBit(value)
    /\ UNCHANGED <<pc, guess, inits, callbacks, era>>

\* Release(): the user that brings the word to v_complete runs the callback.
Release_NotExact(u) ==      \* mutant: the result is tested for <= 0
    /\ pc[u] = "held"
    /\ value' = value - 1
    /\ IF value - 1 <= v_complete
       THEN Goto(u, "callback") /\ callbacks' = callbacks + 1
       ELSE Goto(u, "idle") /\ UNCHANGED callbacks
    /\ UNCHANGED <<guess, inits, era>>

Release(u) ==
    /\ pc[u] = "held"
    /\ value' = value - 1
    /\ IF value - 1 = v_complete
       THEN Goto(u, "callback") /\ callbacks' = callbacks + 1
       ELSE Goto(u, "idle") /\ UNCHANGED callbacks
    /\ UNCHANGED <<guess, inits, era>>

\* RundownCompleted() / OnDisconnect() returns.
CallbackEnd(u) ==
    /\ pc[u] = "callback"
    /\ Goto(u, "idle")
    /\ UNCHANGED <<value, guess, inits, callbacks, era>>

UserStep(u) ==
    \/ AcquireWin(u) \/ AcquireRetry(u) \/ AcquireFail(u)
    \/ Release(u) \/ CallbackEnd(u)

Next ==
    \E u \in Users : Start(u) \/ AcquireBegin(u) \/ Rundown_l(u) \/ UserStep(u)

\* A user never has to call Init, Acquire or Rundown_l; what it has begun it
\* goes on with, and whoever holds protection releases it at last.
Spec == Init /\ [][Next]_vars
FairSpec == Spec /\ \A u \in Users : WF_vars(UserStep(u))

-----------------------------------------------------------------------------
Holders == {u \in Users : pc[u] = "held"}
Owing   == {u \in Users : pc[u] = "callback"}

\* The word always counts the users that hold protection, in every
\* interleaving of the compare-and-swap loops with Rundown_l and Init: nobody
\* is counted twice, and no retry with a stale guess is counted at all.
CountsHolders ==
    value = IF value < 0 THEN Cardinality(Holders) - Bias ELSE Cardinality(Holders)

\* Whoever holds protection holds it on the current incarnation, and that one
\* is not complete: OnDisconnect (or CloseHandle) never runs under a user's feet,
\* and no user of an old incarnation survives into a new one.
HeldIsCurrent ==
    \A u \in Holders : value # v_complete /\ era[u] = inits

\* Every incarnation that ended got exactly one completion callback, the
\* current one none: two threads whose Release race never both see zero,
\* and never both miss it.
OneCallbackPerIncarnation ==
    callbacks = IF value = v_complete THEN inits ELSE inits - 1

\* Once the rundown has begun nobody new gets in, and the object cannot come
\* back to life except by an Init that found it complete.
RundownIsFinal ==
    [][value > 0 => value' >= 0 /\ Holders' \subseteq Holders]_vars

\* A begun rundown completes: the users drain.
RundownCompletes == (value > 0) ~> (value = v_complete)

\* The implementation relation with the abstract rundown lock.
Abs == INSTANCE RundownSpec WITH
    phase   <- IF value < 0 THEN "live" ELSE IF value = v_complete THEN "off" ELSE "closing",
    holders <- Holders,
    owing   <- Owing
AbsSpec == Abs!Spec
=============================================================================
