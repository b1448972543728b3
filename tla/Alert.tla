-------------------------------- MODULE Alert --------------------------------
(***************************************************************************)
(* TIDFA (AlertByThreadId): an event for one waiting thread, made of the   *)
(* two low bits of a word that holds the thread's id.  The word is changed *)
(* by compare-and-exchange only; each load, exchange and system call is    *)
(* one step.  The thread's own alert, which ZwAlertThreadByThreadId sets   *)
(* and ZwWaitForAlertByThreadId waits for and clears, is the flag kernel.  *)
(***************************************************************************)
CONSTANT Alerters       \* the threads that call Alert

VARIABLES
    word,           \* which of the bits m_wait and m_alert are set
    kernel,         \* the alert of the thread is set
    wpc, wseen,     \* WaitForAlert: its place, its copy of the word
    status,         \*   what ZwWaitForAlertByThreadId returned
    answer,         \*   what it returned itself
    apc, aseen      \* Alert, per thread: place and copy

waiter == <<wpc, wseen, status, answer>>
alerter == <<apc, aseen>>
alertVars == <<word, kernel, waiter, alerter>>

Words == SUBSET {"wait", "alert"}

TypeOK ==
    /\ word \in Words /\ kernel \in BOOLEAN
    /\ wpc \in {"out", "cas", "sleep", "reload", "clear", "spin"} /\ wseen \in Words
    /\ status \in {"alerted", "timeout"} /\ answer \in {"alerted", "timeout"}
    /\ apc \in [Alerters -> {"idle", "cas", "signal"}] /\ aseen \in [Alerters -> Words]

Init ==
    /\ word = {} /\ kernel = FALSE
    /\ wpc = "out" /\ wseen = {}
    /\ status = "timeout" /\ answer = "timeout"
    /\ apc = [a \in Alerters |-> "idle"]
    /\ aseen = [a \in Alerters |-> {}]

-----------------------------------------------------------------------------
\* Alert: set the alert bit, take the wait bit; who took it wakes the thread.
Alert(a) ==
    /\ apc[a] = "idle"
    /\ aseen' = [aseen EXCEPT ![a] = word]
    /\ apc' = [apc EXCEPT ![a] = "cas"]
    /\ UNCHANGED <<word, kernel, waiter>>

Wakes_Always(old) == old # {}  \* mutant: the alert bit does not matter
Wakes(old) == "wait" \in old /\ "alert" \notin old

AlertExchange_Blind(a) ==   \* mutant: a store instead of an exchange
    /\ apc[a] = "cas"
    /\ word' = {"alert"}
    /\ apc' = [apc EXCEPT ![a] = IF Wakes(aseen[a]) THEN "signal" ELSE "idle"]
    /\ UNCHANGED <<aseen, kernel, waiter>>

AlertExchange(a) ==
    /\ apc[a] = "cas"
    /\ IF word = aseen[a]
       THEN /\ word' = {"alert"}
            /\ apc' = [apc EXCEPT ![a] = IF Wakes(aseen[a]) THEN "signal" ELSE "idle"]
            /\ UNCHANGED aseen
       ELSE aseen' = [aseen EXCEPT ![a] = word] /\ UNCHANGED <<word, apc>>
    /\ UNCHANGED <<kernel, waiter>>

ZwAlertThread(a) ==
    /\ apc[a] = "signal"
    /\ kernel' = TRUE
    /\ apc' = [apc EXCEPT ![a] = "idle"]
    /\ UNCHANGED <<word, aseen, waiter>>

AlertStep(a) == AlertExchange(a) \/ ZwAlertThread(a)

-----------------------------------------------------------------------------
\* WaitForAlert: take the alert bit, or set the wait bit and sleep.
WaitForAlert ==
    /\ wpc = "out"
    /\ wseen' = word
    /\ wpc' = "cas"
    /\ UNCHANGED <<word, kernel, status, answer, alerter>>

WaitExchange_Blind ==       \* mutant: a store instead of an exchange
    /\ wpc = "cas"
    /\ UNCHANGED wseen
    /\ IF "alert" \in wseen
       THEN word' = {} /\ wpc' = "out" /\ answer' = "alerted"
       ELSE word' = {"wait"} /\ wpc' = "sleep" /\ UNCHANGED answer
    /\ UNCHANGED <<kernel, status, alerter>>

WaitExchange ==
    /\ wpc = "cas"
    /\ IF word # wseen
       THEN wseen' = word /\ UNCHANGED <<word, wpc, answer>>
       ELSE /\ UNCHANGED wseen
            /\ IF "alert" \in wseen
               THEN word' = {} /\ wpc' = "out" /\ answer' = "alerted"
               ELSE word' = {"wait"} /\ wpc' = "sleep" /\ UNCHANGED answer
    /\ UNCHANGED <<kernel, status, alerter>>

\* ZwWaitForAlertByThreadId returns ...
Woken ==
    /\ wpc = "sleep" /\ kernel
    /\ kernel' = FALSE
    /\ status' = "alerted" /\ wpc' = "reload"
    /\ UNCHANGED <<word, wseen, answer, alerter>>

\* ... or, if the caller gave a Timeout, the time is up.
TimeOut ==
    /\ wpc = "sleep" /\ ~kernel
    /\ status' = "timeout" /\ wpc' = "reload"
    /\ UNCHANGED <<word, kernel, wseen, answer, alerter>>

Reload ==
    /\ wpc = "reload"
    /\ wseen' = word
    /\ wpc' = "clear"
    /\ UNCHANGED <<word, kernel, status, answer, alerter>>

\* Both bits go.  An alert that crossed the timeout counts, and its system
\* call, which is still to come, must not be left to the next wait.
Late == "alert" \in wseen /\ status = "timeout"

ClearExchange ==
    /\ wpc = "clear"
    /\ IF word # wseen
       THEN wseen' = word /\ UNCHANGED <<word, wpc, answer>>
       ELSE /\ UNCHANGED wseen
            /\ word' = {}
            /\ wpc' = IF Late THEN "spin" ELSE "out"
            /\ answer' = IF Late THEN "alerted" ELSE status
    /\ UNCHANGED <<kernel, status, alerter>>

Spin ==
    /\ wpc = "spin" /\ kernel
    /\ kernel' = FALSE
    /\ wpc' = "out"
    /\ UNCHANGED <<word, wseen, status, answer, alerter>>

WaitStep == WaitExchange \/ Woken \/ Reload \/ ClearExchange \/ Spin

Next ==
    \/ \E a \in Alerters : Alert(a) \/ AlertStep(a)
    \/ WaitForAlert \/ WaitStep \/ TimeOut

Spec == Init /\ [][Next]_alertVars

-----------------------------------------------------------------------------
\* Nobody but the one waiting thread sets the wait bit: WaitForAlert never
\* finds it set (its __debugbreak).
WaitBitIsOurs == wpc = "cas" => "wait" \notin wseen

\* The thread's alert is set, or about to be set, exactly when the sleeping
\* thread's wait bit was taken: no wake-up is lost and none is left over.
Signallers == {a \in Alerters : apc[a] = "signal"}
Owed == kernel \/ Signallers # {}
OneWakeUp ==
    /\ kernel => Signallers = {}
    /\ \A a, b \in Signallers : a = b
    /\ Owed <=> \/ wpc = "sleep" /\ "wait" \notin word
                \/ wpc \in {"reload", "clear"} /\ "wait" \notin word /\ status = "timeout"
                \/ wpc = "spin"

\* The abstract event: an alert is pending while the bit is set; a wait that
\* has cleared both bits has returned.
Abs == INSTANCE AlertSpec WITH
    pending <- "alert" \in word,
    waiting <- wpc \notin {"out", "spin"}

\* WaitForAlert returns once for the alerts since the last time, and times out
\* only if there was none.
AbsSpec == Abs!Spec
=============================================================================
