---------------------------- MODULE RundownSpec ----------------------------
(***************************************************************************)
(* What a rundown lock promises its users, with no word about how it is    *)
(* represented.  An object is "off", "live" or "closing".  A user may      *)
(* protect a live object only; any protecting user may begin the rundown;  *)
(* the user that leaves last after that, and no other, owes the completion *)
(* callback (OnDisconnect, RundownCompleted, the handle's close).  Module  *)
(* Rundown is shown to implement this one.                                 *)
(***************************************************************************)
CONSTANT Users          \* the uses of the object: threads, pending requests

VARIABLES phase,        \* "off", "live" or "closing"
          holders,      \* the users that hold protection
          owing         \* the users that have yet to run the completion callback

svars == <<phase, holders, owing>>

TypeOK ==
    /\ phase \in {"off", "live", "closing"}
    /\ holders \subseteq Users
    /\ owing \subseteq Users

Init ==
    /\ phase = "off"
    /\ holders = {}
    /\ owing = {}

Idle(u) == u \notin holders /\ u \notin owing

\* A new incarnation of an object whose previous rundown is complete.
Start(u) ==
    /\ Idle(u)
    /\ phase = "off"
    /\ phase' = "live"
    /\ UNCHANGED <<holders, owing>>

Protect(u) ==
    /\ Idle(u)
    /\ phase = "live"
    /\ holders' = holders \cup {u}
    /\ UNCHANGED <<phase, owing>>

BeginRundown(u) ==
    /\ u \in holders
    /\ phase = "live"
    /\ phase' = "closing"
    /\ UNCHANGED <<holders, owing>>

Unprotect(u) ==
    /\ u \in holders
    /\ holders' = holders \ {u}
    /\ IF phase = "closing" /\ holders = {u}
       THEN phase' = "off" /\ owing' = owing \cup {u}
       ELSE UNCHANGED <<phase, owing>>

Complete(u) ==
    /\ u \in owing
    /\ owing' = owing \ {u}
    /\ UNCHANGED <<phase, holders>>

Next ==
    \E u \in Users : \/ Start(u) \/ Protect(u) \/ BeginRundown(u)
                     \/ Unprotect(u) \/ Complete(u)

Spec == Init /\ [][Next]_svars
=============================================================================
