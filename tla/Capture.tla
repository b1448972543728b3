------------------------------- MODULE Capture -------------------------------
(***************************************************************************)
(* The camera of one session of the server: CEncTcp (start, stop and the   *)
(* end of the session) with its pins (module KsRead) and the references    *)
(* between them.  The completion of a read can end the session, the end of *)
(* the session stops the pin, the last reference destroys it, and its      *)
(* destructor tells the client.                                            *)
(*                                                                         *)
(* The session's rundown lock m_rp is as module RundownSpec has it.  The   *)
(* encoder behind ProcessFrame is module EncoderQueue; here it accepts a   *)
(* frame or does not.                                                      *)
(*                                                                         *)
(* Nothing in CEncTcp is written for two receives in OnUserData at once,   *)
(* and nothing prevents it: a behaviour ends where that happens (overlap). *)
(***************************************************************************)
EXTENDS KsRead

CONSTANT MaxPackets     \* bound on the packets of the client

ASSUME PacketsAssumption == MaxPackets \in Nat

Recv == Owners          \* the receives that run OnUserData

VARIABLES
    phase, inside,  \* m_rp of the endpoint: "live", "closing", "off"; who is in
    stoping,        \* per pin: _bStoping
    packets,        \* packets received
    overlap         \* two receives are in OnUserData at once

session == <<phase, inside, packets, overlap>>
vars == <<session, stoping, pinVars>>

Calls == {"strt", "create", "run", "stop", "cstop", "clear", "refuse", "fail", "leave", "disconnect",
          "read", "issue", "ioctl", "process", "push", "release", "h264stop",
          "pinstop", "setstate", "setstop", "close", "unlock"}

TypeOK ==
    /\ PinTypeOK
    /\ phase \in {"live", "closing", "off"} /\ inside \subseteq Recv
    /\ \A t \in Threads : \A i \in DOMAIN todo[t] : todo[t][i].op \in Calls
    /\ stoping \in [Pins -> BOOLEAN]
    /\ packets \in 0 .. MaxPackets /\ overlap \in BOOLEAN

Init ==
    /\ PinInit
    /\ phase = "live" /\ inside = {} /\ packets = 0 /\ overlap = FALSE
    /\ stoping = [p \in Pins |-> FALSE]

Idle == UNCHANGED <<pin, made, handle, users, refs, running, free, posted, dead, lost, dry>>

-----------------------------------------------------------------------------
\* The client's packets: a message, handled by OnUserData inside the session's
\* rundown lock, or a goodbye.
Message(t) ==
    /\ todo[t] = <<>> /\ packets < MaxPackets
    /\ packets' = packets + 1
    /\ phase = "live"
    /\ inside' = inside \cup {t}
    /\ overlap' = (overlap \/ inside # {})
    /\ \E op \in {"strt", "stop"} :
         todo' = [todo EXCEPT ![t] = <<Call(op), Call("leave")>>]
    /\ Idle /\ UNCHANGED <<phase, stoping>>

Goodbye(t) ==
    /\ todo[t] = <<>> /\ packets < MaxPackets
    /\ packets' = packets + 1
    /\ todo' = [todo EXCEPT ![t] = <<Call("disconnect")>>]
    /\ Idle /\ UNCHANGED <<phase, inside, overlap, stoping>>

\* OnUserData returned an error: OnData removes the connection on its way out.  The
\* call is the last one before the thread leaves m_rp.
Refused == <<Call("leave"), Call("disconnect")>>
Refuse(t) == todo' = [todo EXCEPT ![t] = Refused]

\* CEncTcp::Start: the file or the encoder cannot be opened, or a pin is made.
NotStarted == pin = NoPin

Strt(t) ==
    /\ At(t, "strt")
    /\ \/ ~NotStarted /\ Do(t, <<>>) /\ Idle
       \/ NotStarted /\ Refuse(t) /\ Idle
       \/ NotStarted /\ NewPin(t, <<On("create", made + 1)>>)
    /\ UNCHANGED <<session, stoping>>

\* When Create fails, nobody releases the pin; when SetState fails, it is released.
\* Both are errors of OnUserData, whose thread then leaves and disconnects.
Opening(t) ==
    /\ \/ Create(t, <<Call("refuse")>>)
       \/ Run(t, <<On("release", Arg(t)), Call("refuse")>>)
    /\ UNCHANGED <<session, stoping>>

Refusing(t) ==
    /\ At(t, "refuse")
    /\ Refuse(t)
    /\ Idle /\ UNCHANGED <<session, stoping>>

\* 'stop': without a pin it is an error.
UserStop(t) ==
    /\ At(t, "stop")
    /\ IF pin = NoPin THEN Refuse(t) ELSE Do(t, <<Call("cstop")>>)
    /\ Idle /\ UNCHANGED <<session, stoping>>

\* CEncTcp::Stop: _pin->Stop(), _pin->Release(), _pin = 0.
StopPin_ReleasesFirst(t) == \* mutant: Release before Stop
    Do(t, IF pin = NoPin THEN <<>>
          ELSE <<On("release", pin), On("pinstop", pin), Call("clear")>>)
StopPin_Keeps(t) ==         \* mutant: Release forgotten
    Do(t, IF pin = NoPin THEN <<>> ELSE <<On("pinstop", pin), Call("clear")>>)
StopPin(t) ==
    Do(t, IF pin = NoPin THEN <<>>
          ELSE <<On("pinstop", pin), On("release", pin), Call("clear")>>)

CStop(t) ==
    /\ At(t, "cstop")
    /\ StopPin(t)
    /\ Idle /\ UNCHANGED <<session, stoping>>

\* m_rp.Release, and OnDisconnect by the last one out.
Leave(t) ==
    /\ At(t, "leave")
    /\ inside' = inside \ {t}
    /\ IF phase = "closing" /\ inside = {t}
       THEN phase' = "off" /\ Do(t, <<Call("cstop")>>)
       ELSE Do(t, <<>>) /\ UNCHANGED phase
    /\ Idle /\ UNCHANGED <<packets, overlap, stoping>>

\* RemoveConnection: notify_disconnect, and OnDisconnect if nobody is inside.
LastOut_Anyway == TRUE      \* mutant: does not wait for OnUserData
LastOut == inside = {}

Disconnect(t) ==
    /\ At(t, "disconnect")
    /\ IF phase = "live" /\ LastOut
       THEN phase' = "off" /\ Do(t, <<Call("cstop")>>)
       ELSE /\ phase' = IF phase = "live" THEN "closing" ELSE phase
            /\ Do(t, <<>>)
    /\ Idle /\ UNCHANGED <<inside, packets, overlap, stoping>>

-----------------------------------------------------------------------------
\* A read that fails ends the session and closes the pin, unless the pin is being
\* stopped.
Fail(p) == IF stoping[p] THEN <<>> ELSE <<Call("h264stop"), Call("disconnect"), On("close", p)>>

\* The destructor tells the client, and ends the session unless the pin was stopped.
Destructor(p) == <<Call("h264stop")>> \o (IF stoping[p] THEN <<>> ELSE <<Call("disconnect")>>)

ReadStep(t) ==
    /\ \/ OwnStep(t)
       \/ todo[t] # <<>> /\ "pin" \in DOMAIN Head(todo[t])
            /\ \/ NoRequest(t, Fail(Arg(t))) \/ ReadFailed(t, Fail(Arg(t)))
               \/ Release(t, Destructor(Arg(t)))
    /\ UNCHANGED <<session, stoping>>

\* OnReadComplete: ProcessFrame may refuse the frame.
Process(t) ==
    /\ At(t, "process")
    /\ \/ Do(t, <<>>)
       \/ /\ ~stoping[Arg(t)]
          /\ Do(t, <<On("pinstop", Arg(t)), Call("h264stop"), Call("disconnect")>>)
    /\ Idle /\ UNCHANGED <<session, stoping>>

\* KsRead::Stop: _bStoping, SetState(KSSTATE_STOP), Close.
PinStop(t) ==
    /\ At(t, "pinstop")
    /\ stoping' = [stoping EXCEPT ![Arg(t)] = TRUE]
    /\ Do(t, StopCalls(Arg(t)))
    /\ Idle /\ UNCHANGED session

\* H264::Stop flushes the encoder and sends 'stop' to the client.
H264Stop(t) ==
    /\ At(t, "h264stop")
    /\ Do(t, <<>>)
    /\ Idle /\ UNCHANGED <<session, stoping>>

Delivered(t) == ReadDone(t) /\ UNCHANGED <<session, stoping>>

PinStep(t) == ReadStep(t) \/ Process(t) \/ PinStop(t) \/ H264Stop(t) \/ Disconnect(t) \/ CStop(t)
SessionStep(t) == Strt(t) \/ Opening(t) \/ Refusing(t) \/ UserStop(t) \/ Leave(t)
Step(t) == PinStep(t) \/ SessionStep(t)

Next ==
    /\ ~overlap
    /\ \/ \E t \in Recv : Message(t) \/ Goodbye(t)
       \/ \E t \in Pool : Delivered(t)
       \/ \E t \in Threads : Step(t)

Spec == Init /\ [][Next]_vars

\* Threads go on and the driver completes the reads it has.
GoesOn(t) == ~overlap /\ (Step(t) \/ (t \in Pool /\ Delivered(t)))
FairSpec == Spec /\ \A t \in Threads : WF_vars(GoesOn(t))

-----------------------------------------------------------------------------
\* When the session is over and everybody went home, the camera is closed.
CameraOffAfterSession ==
    phase = "off" /\ (\A t \in Threads : todo[t] = <<>>) =>
        /\ pin = NoPin
        /\ \A p \in 1 .. made : ~running[p] /\ handle[p] \in {"none", "closed"}

\* And it gets there: the end of the session closes the pin, and the driver
\* then gives back its reads, so that the pin is freed; except a pin Create
\* could not open.
PinsFreed == overlap \/ \A p \in 1 .. made : p \in dead \cup lost
SessionEndFreesPins == (phase # "live") ~> PinsFreed
=============================================================================
