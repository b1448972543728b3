----------------------------- MODULE EncoderQueue -----------------------------
(***************************************************************************)
(* The lock-free frame queue of the server's encoder (camera server,       *)
(* H264.cpp).  One 32-bit word holds everything: which samples of the pool *)
(* are free, a ring of the samples that wait for the encoder, its two      *)
(* indices, a flag "the ring has data" and a flag "the encoder asked and   *)
(* found nothing".  Threads that complete a camera read (producers) put    *)
(* frames in; threads that run the encoder's event callback (workers) take *)
(* them out.  The word is only changed by interlocked instructions.        *)
(*                                                                         *)
(* The media foundation transform is external: it queues "need" and "out"  *)
(* events and delivers one event for each BeginGetEvent call.              *)
(*                                                                         *)
(* History variables number the frames in the order in which TryEnqueue    *)
(* accepted them.                                                          *)
(***************************************************************************)
EXTENDS Integers, Sequences, FiniteSets

CONSTANTS Producers,    \* threads that may be in ProcessFrame
          Workers,      \* threads that may be in Invoke
          N,            \* number of samples, 4 in the code
          Alloc,        \* the samples Init could allocate
          MaxFrames,    \* bound on the frames offered
          MaxEvents,    \* bound on the events the encoder has queued
          InputMayFail, \* may IMFTransform::ProcessInput fail?
          NoWord        \* a local copy that is out of scope

ASSUME NAssumption == N \in Nat \ {0}
ASSUME AllocAssumption == Alloc \subseteq 0 .. N - 1 /\ Alloc # {}
ASSUME ThreadsAssumption == Producers \cap Workers = {}
ASSUME BoundsAssumption == MaxFrames \in Nat /\ MaxEvents \in Nat /\ InputMayFail \in BOOLEAN

QueueThreads == Producers \cup Workers
Slots   == 0 .. N - 1

VARIABLES free,      \* m_freePoolSlots
          queue,     \* m_indexQueue
          readIdx,   \* m_readIdx
          writeIdx,  \* m_writeIdx
          hasData,   \* m_hasData
          needInput, \* m_needInput
          at,        \* where each thread is
          slot,      \* the local variable index of each thread
          snap,      \* the local copy packedState of each thread
          requests,  \* BeginGetEvent calls the transform has not answered
          events,    \* events the transform has queued
          outs,      \* encoded frames the transform has announced
          frames,    \* history: frames offered
          enqueued,  \* history: frames accepted by TryEnqueue
          number,    \* history: number[s] is the number of the frame in sample s
          fed        \* history: the number of the last frame given to the encoder

packed    == <<free, queue, readIdx, writeIdx, hasData, needInput>>
history   == <<frames, enqueued, number, fed>>
queueVars == <<packed, at, slot, snap, requests, events, outs, history>>

m_packedState ==
    [free |-> free, queue |-> queue, readIdx |-> readIdx, writeIdx |-> writeIdx,
     hasData |-> hasData, needInput |-> needInput]

PCs == {"idle", "scan", "fill", "enqueue", "event", "output", "dequeue",
        "input", "begin", "release"}

QueueTypeOK ==
    /\ free \subseteq Slots
    /\ queue \in [Slots -> Slots]
    /\ readIdx \in Slots /\ writeIdx \in Slots
    /\ hasData \in BOOLEAN /\ needInput \in BOOLEAN
    /\ at \in [QueueThreads -> PCs]
    /\ slot \in [QueueThreads -> 0 .. N] \* N: not set
    /\ requests \in Nat
    /\ events \in Seq({"need", "out"})
    /\ outs \in Nat
    /\ frames \in Nat /\ enqueued \in Nat /\ fed \in Nat
    /\ number \in [Slots -> Nat]

\* H264::Init: the samples that could be allocated are free, one event is
\* asked for.
QueueInit ==
    /\ free = Alloc
    /\ queue = [i \in Slots |-> 0]
    /\ readIdx = 0 /\ writeIdx = 0
    /\ hasData = FALSE /\ needInput = FALSE
    /\ at = [t \in QueueThreads |-> "idle"]
    /\ slot = [t \in QueueThreads |-> N]
    /\ snap = [t \in QueueThreads |-> NoWord]
    /\ requests = 1
    /\ events = <<>> /\ outs = 0
    /\ frames = 0 /\ enqueued = 0 /\ fed = 0
    /\ number = [s \in Slots |-> 0]

Proceed(t, l) == at' = [at EXCEPT ![t] = l]

\* The indices of the ring are two bits wide: they wrap.
Next1(i) == IF i = N - 1 THEN 0 ELSE i + 1

-----------------------------------------------------------------------------
\* The transform (external).
EncoderNeedsInput ==
    /\ Len(events) < MaxEvents
    /\ events' = Append(events, "need")
    /\ UNCHANGED <<packed, at, slot, snap, requests, outs, history>>

EncoderHasOutput ==
    /\ Len(events) < MaxEvents
    /\ outs < fed
    /\ outs' = outs + 1
    /\ events' = Append(events, "out")
    /\ UNCHANGED <<packed, at, slot, snap, requests, history>>

-----------------------------------------------------------------------------
\* ProcessFrame: a read has completed with a frame.
ProcessFrame(p) ==
    /\ at[p] = "idle"
    /\ frames < MaxFrames
    /\ frames' = frames + 1
    /\ Proceed(p, "scan")
    /\ UNCHANGED <<packed, slot, snap, requests, events, outs, enqueued, number, fed>>

\* AcquirePoolSlot: one _interlockedbittestandreset per sample, from the last
\* one down.  When none is free the frame is dropped.
AcquirePoolSlot(p) ==
    LET i == slot[p] - 1 IN
    /\ at[p] = "scan"
    /\ IF i \in free
       THEN Proceed(p, "fill") /\ slot' = [slot EXCEPT ![p] = i] /\ free' = free \ {i}
       ELSE /\ UNCHANGED free
            /\ IF i = 0 THEN Proceed(p, "idle") /\ slot' = [slot EXCEPT ![p] = N]
                        ELSE slot' = [slot EXCEPT ![p] = i] /\ UNCHANGED at
    /\ UNCHANGED <<queue, readIdx, writeIdx, hasData, needInput, snap, requests,
                   events, outs, history>>

\* The frame is converted into the sample and the word is read; or a buffer
\* call failed and the sample goes back.
FillSample_Forgets(p) ==            \* mutant: the failure path just returns
    /\ at[p] = "fill"
    /\ \/ Proceed(p, "enqueue") /\ snap' = [snap EXCEPT ![p] = m_packedState]
       \/ Proceed(p, "idle") /\ UNCHANGED snap
    /\ UNCHANGED <<packed, slot, requests, events, outs, history>>

FillSample(p) ==
    /\ at[p] = "fill"
    /\ \/ Proceed(p, "enqueue") /\ snap' = [snap EXCEPT ![p] = m_packedState]
       \/ Proceed(p, "release") /\ UNCHANGED snap
    /\ UNCHANGED <<packed, slot, requests, events, outs, history>>

\* TryEnqueue: the sample goes to writeIdx ...
AppendSample(p) ==
    /\ queue' = [queue EXCEPT ![writeIdx] = slot[p]]
    /\ writeIdx' = Next1(writeIdx)
    /\ hasData' = TRUE

\* ... and the frame has its number.
Accept(p) ==
    /\ enqueued' = enqueued + 1
    /\ number' = [number EXCEPT ![slot[p]] = enqueued + 1]
    /\ snap' = [snap EXCEPT ![p] = NoWord]
    /\ UNCHANGED <<free, readIdx, requests, events, outs, frames, fed>>

TryEnqueue_KeepsDemand(p) ==        \* mutant: m_needInput is not reset
    /\ at[p] = "enqueue"
    /\ snap[p] = m_packedState
    /\ IF needInput
       THEN Proceed(p, "input") /\ UNCHANGED <<needInput, queue, writeIdx, hasData, slot>>
       ELSE AppendSample(p) /\ Proceed(p, "idle") /\ UNCHANGED <<needInput, slot>>
    /\ Accept(p)

TryEnqueue_IgnoresDemand(p) ==      \* mutant: m_needInput is not looked at
    /\ at[p] = "enqueue"
    /\ snap[p] = m_packedState
    /\ AppendSample(p) /\ Proceed(p, "idle") /\ UNCHANGED <<needInput, slot>>
    /\ Accept(p)

TryEnqueue_ReleasesToo(p) ==        \* mutant: ProcessFrame goes on to the release
    /\ at[p] = "enqueue"
    /\ snap[p] = m_packedState
    /\ IF needInput
       THEN needInput' = FALSE /\ Proceed(p, "input") /\ UNCHANGED <<queue, writeIdx, hasData, slot>>
       ELSE AppendSample(p) /\ Proceed(p, "release") /\ UNCHANGED <<needInput, slot>>
    /\ Accept(p)

\* TryEnqueue: if the encoder is waiting, take its demand over; else append.
TryEnqueue(p) ==
    /\ at[p] = "enqueue"
    /\ snap[p] = m_packedState
    /\ IF needInput
       THEN /\ needInput' = FALSE
            /\ Proceed(p, "input")
            /\ UNCHANGED <<queue, writeIdx, hasData, slot>>
       ELSE /\ AppendSample(p)
            /\ slot' = [slot EXCEPT ![p] = N]
            /\ Proceed(p, "idle")
            /\ UNCHANGED needInput
    /\ Accept(p)

\* The compare-and-swap of TryEnqueue or TryDequeue failed: look again.
RetryCas(t) ==
    /\ at[t] \in {"enqueue", "dequeue"}
    /\ snap[t] # m_packedState
    /\ snap' = [snap EXCEPT ![t] = m_packedState]
    /\ UNCHANGED <<packed, at, slot, requests, events, outs, history>>

-----------------------------------------------------------------------------
\* Invoke: the transform answers a BeginGetEvent.
Invoke(w) ==
    /\ at[w] = "idle"
    /\ requests > 0
    /\ events # <<>>
    /\ requests' = requests - 1
    /\ events' = Tail(events)
    /\ Proceed(w, IF Head(events) = "need" THEN "event" ELSE "output")
    /\ UNCHANGED <<packed, slot, snap, outs, history>>

\* METransformHaveOutput: the encoded frame is sent, the next event asked for.
ProcessOutput(w) ==
    /\ at[w] = "output"
    /\ requests' = requests + 1
    /\ Proceed(w, "idle")
    /\ UNCHANGED <<packed, slot, snap, events, outs, history>>

\* METransformNeedInput: TryDequeue reads the word.
NeedInputEvent(w) ==
    /\ at[w] = "event"
    /\ snap' = [snap EXCEPT ![w] = m_packedState]
    /\ Proceed(w, "dequeue")
    /\ UNCHANGED <<packed, slot, requests, events, outs, history>>

\* TryDequeue takes the oldest sample, at readIdx; the ring may be empty then.
TakeSample_Newest(w) ==             \* mutant: takes the one put in last
    LET i == CHOOSE j \in Slots : Next1(j) = writeIdx IN
    /\ slot' = [slot EXCEPT ![w] = queue[i]]
    /\ writeIdx' = i
    /\ hasData' = (i # readIdx)
    /\ UNCHANGED readIdx

TakeSample_StaysFull(w) ==          \* mutant: m_hasData is not reset
    /\ slot' = [slot EXCEPT ![w] = queue[readIdx]]
    /\ readIdx' = Next1(readIdx)
    /\ UNCHANGED <<hasData, writeIdx>>

TakeSample(w) ==
    /\ slot' = [slot EXCEPT ![w] = queue[readIdx]]
    /\ readIdx' = Next1(readIdx)
    /\ hasData' = (Next1(readIdx) # writeIdx)
    /\ UNCHANGED writeIdx

\* Nothing waits: leave word that the encoder does.
LeaveWord == needInput' = TRUE

TryDequeue(w) ==
    /\ at[w] = "dequeue"
    /\ snap[w] = m_packedState
    /\ IF hasData
       THEN TakeSample(w) /\ Proceed(w, "input") /\ UNCHANGED needInput
       ELSE LeaveWord /\ Proceed(w, "idle") /\ UNCHANGED <<slot, readIdx, writeIdx, hasData>>
    /\ snap' = [snap EXCEPT ![w] = NoWord]
    /\ UNCHANGED <<free, queue, requests, events, outs, history>>

-----------------------------------------------------------------------------
\* ProcessInput, by a worker that dequeued or by a producer that took the
\* demand over: give the sample to the encoder, then ask for the next event.
\* When the encoder refuses the sample no event is asked for.
ProcessInput(t) ==
    /\ at[t] = "input"
    /\ \/ /\ fed' = number[slot[t]]
          /\ Proceed(t, "begin")
       \/ /\ InputMayFail
          /\ Proceed(t, "release")
          /\ UNCHANGED fed
    /\ UNCHANGED <<packed, slot, snap, requests, events, outs, frames, enqueued, number>>

BeginGetEvent(t) ==
    /\ at[t] = "begin"
    /\ requests' = requests + 1
    /\ Proceed(t, "release")
    /\ UNCHANGED <<packed, slot, snap, events, outs, history>>

ReleasePoolSlot(t) ==
    /\ at[t] = "release"
    /\ free' = free \cup {slot[t]}
    /\ slot' = [slot EXCEPT ![t] = N]
    /\ Proceed(t, "idle")
    /\ UNCHANGED <<queue, readIdx, writeIdx, hasData, needInput, snap, requests,
                   events, outs, history>>

ProducerStep(p) ==
    \/ AcquirePoolSlot(p) \/ FillSample(p) \/ TryEnqueue(p) \/ RetryCas(p)
    \/ ProcessInput(p) \/ BeginGetEvent(p) \/ ReleasePoolSlot(p)

WorkerStep(w) ==
    \/ Invoke(w) \/ ProcessOutput(w) \/ NeedInputEvent(w) \/ TryDequeue(w)
    \/ RetryCas(w) \/ ProcessInput(w) \/ BeginGetEvent(w) \/ ReleasePoolSlot(w)

QueueNext ==
    \/ EncoderNeedsInput \/ EncoderHasOutput
    \/ \E p \in Producers : ProcessFrame(p) \/ ProducerStep(p)
    \/ \E w \in Workers : WorkerStep(w)

QueueSpec == QueueInit /\ [][QueueNext]_queueVars

\* Threads run on, some thread of the callback pool takes up a waiting event,
\* and the encoder asks for input again and again.  Frames need not come.
Fairness ==
    /\ \A p \in Producers : WF_queueVars(ProducerStep(p))
    /\ \A w \in Workers : WF_queueVars(WorkerStep(w))
    /\ WF_queueVars(EncoderNeedsInput)

QueueFairSpec == QueueSpec /\ Fairness

-----------------------------------------------------------------------------
\* The positions of the ring that hold a waiting sample.
Waiting ==
    {i \in Slots : hasData /\ IF readIdx < writeIdx THEN readIdx <= i /\ i < writeIdx
                                                    ELSE readIdx <= i \/ i < writeIdx}

\* The threads that own the sample in their variable index.
Owners == {t \in QueueThreads : at[t] \in {"fill", "enqueue", "input", "begin", "release"}}

\* The threads that owe the transform the next BeginGetEvent.
Debtors == {t \in QueueThreads : at[t] \in {"event", "output", "dequeue", "input", "begin"}}

\* A sample is in one place at most: free, waiting at one position of the ring, or
\* in the hands of one thread.
OnePlacePerSample ==
    /\ \A t \in Owners : slot[t] \in Slots \ free /\ \A i \in Waiting : queue[i] # slot[t]
    /\ \A t, u \in Owners : t # u => slot[t] # slot[u]
    /\ \A i \in Waiting : queue[i] \notin free
    /\ \A i, j \in Waiting : i # j => queue[i] # queue[j]

\* An allocated sample is in some place.
NoSampleLost ==
    \A s \in Alloc : \/ s \in free
                     \/ \E i \in Waiting : queue[i] = s
                     \/ \E t \in Owners : slot[t] = s

\* Every sample is always in one place.  So no frame is overwritten while it
\* waits or is being encoded, ReleasePoolSlot never meets a set bit (its
\* __debugbreak), and the pool does not run dry.
PoolIsWhole == OnePlacePerSample /\ NoSampleLost

\* "never must be": the ring is not full when a producer is about to append.
NeverFull ==
    \A p \in Producers :
        at[p] = "enqueue" => ~(hasData /\ readIdx = writeIdx)

\* The demand of the encoder is in one place: the transform (an outstanding
\* BeginGetEvent), a thread that owes one, or the flag m_needInput.
OneDemand ==
    /\ requests <= 1
    /\ needInput => requests = 0 /\ Debtors = {}
    /\ Debtors # {} => requests = 0
    /\ \A t, u \in Debtors : t = u

\* The encoder never waits for input while frames wait.
NoLostWakeup == ~(needInput /\ hasData)

\* The encoder's demand is neither doubled, a second BeginGetEvent would be refused
\* and end in __debugbreak, nor left lying while a frame waits.
DemandIsMet == OneDemand /\ NoLostWakeup

\* The encoder gets the frames in the order in which TryEnqueue accepted them,
\* none twice and none left out, whichever thread hands them over.
FedInOrder == [][fed' # fed => fed' = fed + 1]_queueVars

\* Every accepted frame reaches the encoder, unless the encoder refuses a sample:
\* then no event is asked for again and its demand is nowhere, for good.
Stalled == requests = 0 /\ ~needInput /\ Debtors = {}
EveryFrameIsFed ==
    \A k \in 1 .. MaxFrames : (enqueued >= k) ~> (fed >= k \/ (InputMayFail /\ Stalled))
=============================================================================
