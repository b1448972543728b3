------------------------------- MODULE Service -------------------------------
(***************************************************************************)
(* The camera server as a Windows service: CSvcBase, whose handler for the *)
(* service control manager changes the state under m_SRWLock, and CSvc,    *)
(* whose Run on the service's own thread carries the change out.  The two  *)
(* meet in dwCurrentState, m_dwTargetState (read without the lock) and the *)
(* alert m_tid, which is module Alert.                                     *)
(*                                                                         *)
(* The service control manager calls the handler from one thread, one      *)
(* control at a time, and none for a service that has reported STOPPED.    *)
(* What StartServer starts is the other modules' matter; here it starts or *)
(* does not.                                                               *)
(***************************************************************************)
EXTENDS Integers

CONSTANTS Dispatcher,   \* the thread of the control manager
          MaxControls   \* bound on the controls that are accepted

ASSUME ControlsAssumption == MaxControls \in Nat

VARIABLES
    state,          \* dwCurrentState
    accepted,       \* dwControlsAccepted
    transit,        \* dwCheckPoint # 0
    target,         \* m_dwTargetState
    place, dwState, \* Run: its place, its copy of the target
    handling,       \* the handler has left the lock and has yet to alert Run
    controls,       \* controls accepted so far
    failed,         \* history: Windows Sockets, Media Foundation or the server did not start
    unreported,     \* history: SetServiceStatus failed in the handler
    word, kernel, wpc, wseen, status, answer, apc, aseen    \* m_tid

svc == <<state, accepted, transit, target, controls, failed, unreported>>
tid == <<word, kernel, wpc, wseen, status, answer, apc, aseen>>
serviceVars == <<svc, place, dwState, handling, tid>>

TID == INSTANCE Alert WITH Alerters <- {Dispatcher}

Finals == {"RUNNING", "PAUSED", "STOPPED"}
Pendings == {"START_PENDING", "CONTINUE_PENDING", "PAUSE_PENDING", "STOP_PENDING"}
Accepts == {"STOP", "PAUSE_CONTINUE"}

ServiceTypeOK ==
    /\ state \in Finals \cup Pendings /\ accepted \subseteq Accepts
    /\ transit \in BOOLEAN /\ target \in Finals
    /\ place \in {"top", "set", "start", "wait", "test", "end", "gone"} /\ dwState \in Finals
    /\ handling \in BOOLEAN /\ controls \in 0 .. MaxControls
    /\ failed \in BOOLEAN /\ unreported \in BOOLEAN
    /\ TID!TypeOK

\* ServiceMain, on its way into Run.
ServiceInit ==
    /\ state = "START_PENDING" /\ accepted = {} /\ transit = TRUE /\ target = "RUNNING"
    /\ place = "top" /\ dwState = "STOPPED" /\ handling = FALSE /\ controls = 0
    /\ failed = FALSE /\ unreported = FALSE
    /\ TID!Init

-----------------------------------------------------------------------------
\* PreHandler: the three controls, and what each demands.
Control(c) ==
    CASE c = "STOP"     -> [from |-> Finals \cup Pendings, must |-> "STOP",
                            pending |-> "STOP_PENDING", final |-> "STOPPED"]
      [] c = "PAUSE"    -> [from |-> {"RUNNING"}, must |-> "PAUSE_CONTINUE",
                            pending |-> "PAUSE_PENDING", final |-> "PAUSED"]
      [] c = "CONTINUE" -> [from |-> {"PAUSED"}, must |-> "PAUSE_CONTINUE",
                            pending |-> "CONTINUE_PENDING", final |-> "RUNNING"]

MayChange_Always(must) == TRUE  \* mutant: a change may begin before the last is complete
MayChange(must) == ~transit /\ must \in accepted

BeginChangeState(k) ==
    /\ MayChange(k.must)
    /\ state' = k.pending
    /\ transit' = TRUE
    /\ accepted' = {}
    /\ target' = k.final

\* SetServiceStatus reports the change; without that Run is not alerted.
PreHandler(c) ==
    /\ ~handling /\ state # "STOPPED" /\ controls < MaxControls
    /\ state \in Control(c).from
    /\ BeginChangeState(Control(c))
    /\ controls' = controls + 1
    /\ \/ handling' = TRUE /\ UNCHANGED unreported
       \/ unreported' = TRUE /\ UNCHANGED handling
    /\ UNCHANGED <<place, dwState, failed, tid>>

\* Handler: m_tid.Alert().
Handler ==
    /\ handling
    /\ TID!Alert(Dispatcher) \/ TID!AlertStep(Dispatcher)
    /\ handling' = (apc'[Dispatcher] # "idle")
    /\ UNCHANGED <<svc, place, dwState>>

-----------------------------------------------------------------------------
\* Run: the target is read ...
Top ==
    /\ place = "top"
    /\ dwState' = target
    /\ place' = "set"
    /\ UNCHANGED <<svc, handling, tid>>

\* ... reported, under the lock ...
SetState(new, controlsAccepted) ==
    IF state # new
    THEN state' = new /\ accepted' = controlsAccepted /\ transit' = FALSE
    ELSE UNCHANGED <<state, accepted, transit>>

Set ==
    /\ place = "set"
    /\ SetState(dwState, Accepts)
    /\ place' = IF dwState = "RUNNING" THEN "start" ELSE "wait"
    /\ UNCHANGED <<target, controls, failed, unreported, dwState, handling, tid>>

\* ... and carried out.  If Windows Sockets or Media Foundation does not start
\* Run tries again; if the server does not start, it gives up.
StartServer ==
    /\ place = "start"
    /\ \/ place' = "wait" /\ UNCHANGED <<target, failed>>
       \/ place' = "test" /\ failed' = TRUE /\ UNCHANGED target
       \/ place' = "test" /\ failed' = TRUE /\ target' = "STOPPED"
    /\ UNCHANGED <<state, accepted, transit, controls, unreported, dwState, handling, tid>>

\* m_tid.WaitForAlert(), without a timeout.
Wait ==
    /\ place = "wait"
    /\ \/ TID!WaitForAlert \/ TID!WaitExchange \/ TID!Woken
       \/ TID!Reload \/ TID!ClearExchange
    /\ place' = IF wpc' = "out" THEN "test" ELSE "wait"
    /\ UNCHANGED <<svc, dwState, handling>>

Test ==
    /\ place = "test"
    /\ place' = IF target = "STOPPED" THEN "end" ELSE "top"
    /\ UNCHANGED <<svc, dwState, handling, tid>>

\* ServiceMain reports the end and returns; the service object is gone.
End ==
    /\ place = "end"
    /\ SetState("STOPPED", {})
    /\ place' = "gone"
    /\ UNCHANGED <<target, controls, failed, unreported, dwState, handling, tid>>

Run == Top \/ Set \/ StartServer \/ Wait \/ Test \/ End

ServiceNext == Run \/ Handler \/ \E c \in {"STOP", "PAUSE", "CONTINUE"} : PreHandler(c)

ServiceSpec == ServiceInit /\ [][ServiceNext]_serviceVars

\* Both threads go on.
ServiceFairSpec == ServiceSpec /\ WF_serviceVars(Run) /\ WF_serviceVars(Handler)

-----------------------------------------------------------------------------
\* m_tid is used as an Alert, and so behaves as module AlertSpec says.
AlertIsAnEvent == TID!AbsSpec

\* The handler alerts a service that is still there (it is an object on the
\* stack of the thread that runs Run), unless a start that failed made Run
\* return without waiting for the alert.
AlertFindsService == handling => place # "gone" \/ failed

\* When Run sleeps and no control is on its way, what was reported is what was
\* asked for last: no control is lost between the lock, the target and the alert.
Asleep == place = "wait" /\ wpc = "sleep" /\ "alert" \notin word
ReportedIsTarget == Asleep /\ ~handling /\ ~unreported => state = target /\ ~transit

\* A control that was accepted is carried out, unless a start failed on the way
\* (Run may then report a target it read before) or the report itself failed.
ControlIsCarriedOut ==
    \A c \in {"STOP", "PAUSE", "CONTINUE"} :
        state = Control(c).pending ~> (state = Control(c).final \/ failed \/ unreported)
=============================================================================
