------------------------------ MODULE AlertSpec ------------------------------
(***************************************************************************)
(* What a TIDFA promises, with no word about how it is represented: one    *)
(* thread waits for an alert that others give.  An alert that comes while  *)
(* nobody waits is kept, many alerts count as one, and a wait that times   *)
(* out leaves no alert behind.  Module Alert is shown to implement this.   *)
(***************************************************************************)
VARIABLES pending,      \* an alert was given and not yet taken
          waiting,      \* WaitForAlert was called
          answer        \* what the last WaitForAlert returned

avars == <<pending, waiting, answer>>

TypeOK ==
    /\ pending \in BOOLEAN /\ waiting \in BOOLEAN
    /\ answer \in {"alerted", "timeout"}

Init == pending = FALSE /\ waiting = FALSE /\ answer = "timeout"

Alert ==
    /\ pending' = TRUE
    /\ UNCHANGED <<waiting, answer>>

WaitForAlert ==
    /\ ~waiting
    /\ waiting' = TRUE
    /\ UNCHANGED <<pending, answer>>

Alerted ==
    /\ waiting /\ pending
    /\ pending' = FALSE /\ waiting' = FALSE /\ answer' = "alerted"

TimedOut ==
    /\ waiting /\ ~pending
    /\ waiting' = FALSE /\ answer' = "timeout"
    /\ UNCHANGED pending

Next == Alert \/ WaitForAlert \/ Alerted \/ TimedOut

Spec == Init /\ [][Next]_avars
=============================================================================
