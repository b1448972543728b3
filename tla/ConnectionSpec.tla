--------------------------- MODULE ConnectionSpec ---------------------------
(***************************************************************************)
(* What CTcpEndpoint and CPipeEnd promise the class derived from them:     *)
(* OnDisconnect is called once for each connection, and no OnRecv, OnRead, *)
(* OnSend or OnWrite runs beside it or after it.                           *)
(***************************************************************************)
EXTENDS Integers

VARIABLES begun,    \* connections made
          ended,    \* calls of OnDisconnect
          running   \* callbacks of the connection that are running

Init == begun = 0 /\ ended = 0 /\ running = 0

Connect ==
    /\ begun = ended
    /\ begun' = begun + 1
    /\ UNCHANGED <<ended, running>>

Callback ==
    /\ begun = ended + 1
    /\ running' = running + 1
    /\ UNCHANGED <<begun, ended>>

Return ==
    /\ running > 0
    /\ running' = running - 1
    /\ UNCHANGED <<begun, ended>>

Disconnect ==
    /\ begun = ended + 1 /\ running = 0
    /\ ended' = ended + 1
    /\ UNCHANGED <<begun, running>>

Next == Connect \/ Callback \/ Return \/ Disconnect

Spec == Init /\ [][Next]_<<begun, ended, running>>
=============================================================================
