----------------------------- MODULE MCEndpoint -----------------------------
(***************************************************************************)
(* Both sides' Endpoint for TLC.  The constants of the configuration are   *)
(* the server's; the client's endpoint is an instance of the same module   *)
(* with the other side and with its own bounds.  A behaviour is one side's. *)
(***************************************************************************)
EXTENDS EndpointLife

CONSTANTS ClientConnects, ClientPackets   \* the client's two bounds

VARIABLE side

Client == INSTANCE EndpointLife WITH
              Server <- FALSE, MaxConnect <- ClientConnects, MaxPackets <- ClientPackets

MCInit ==
    \/ side = "server" /\ Init
    \/ side = "client" /\ Client!Init

MCNext ==
    /\ UNCHANGED side
    /\ \/ side = "server" /\ Next
       \/ side = "client" /\ Client!Next

\* The fairness of the module is the server's, whose threads never wait for a
\* user: nothing is assumed of the dialog.
MCSpec ==
    /\ MCInit /\ [][MCNext]_<<vars, side>>
    /\ side = "server" => Fairness

\* A server's endpoint is always deleted in the end: no reference is forgotten,
\* and the session of a client that died does not keep the camera.
SessionIsFreed == side = "server" => EndpointIsFreed
=============================================================================
