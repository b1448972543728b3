# A TLA+ model of camera-udp

The programs of this repository show a web camera on another computer. The
*camera server* is a Windows service that reads frames from a camera driver,
encodes them to H.264 and sends them over an encrypted UDP protocol of its own;
the *remote camera* is the client, a dialog that connects, asks for a format
and shows the pictures. A third program, `camera`, shows a camera of its own
computer. All are made of callbacks that run on pool threads,
and almost every shared word is changed by interlocked instructions without a
lock. There are no tests and no design documents. What must never happen is
written in the code as `__debugbreak()` and in short comments. That is where
most of the properties below start.

Every definition of the modules is translated from the code; `PROJECT.json`
("map") names the lines. The directory names of the repository contain spaces:
"server/" below is `src/camera server/`, "client/" is `src/remote camera/`.

## 1. Inventory

| part | state | operations | used by |
|---|---|---|---|
| rundown lock, `inc/rundown.h` | one word: bit 31 "alive", the rest a count | Init, Acquire, Rundown_l, Release | endpoints, handles, everything that closes |
| UDP endpoint and connection list, `TUDP.cpp` on both sides | list under `m_lock`; per endpoint a reference count, a rundown lock, cookies, `m_tick` | Connect, OnConnect, get, OnData, OnPing, OnDisconnect, RemoveConnection, OnTimer, Disconnect, Stop | client dialog, camera session |
| message reassembly, `TUDP.cpp` | four message buffers (`e_nb`): bits, number, bytes missing, tick | SendUserData, get, OnData | everything sent after the set-up |
| session protocol and dialog, client/`client.cpp`, `ep.cpp`, `TUDP.cpp` | cookies, private key, session key, buttons, timer, posted window messages | Connect, Disconnect, ping, window messages | the user |
| camera session and capture, server/`server.cpp`, `userendp.h`, `read.cpp` | `_pin`; per pin a handle, a reference count, frame buffers, reads in the driver | strt, stop, OnDisconnect, Start, Read, OnReadComplete, Stop | endpoint callbacks, driver completions |
| encoder queue, server/`H264.cpp` | one packed word: pool, ring, two indices, two flags | ProcessFrame, TryEnqueue, TryDequeue, Invoke, ProcessInput, ProcessOutput, BeginGetEvent | completions of camera reads, events of the encoder |
| alert, server/`AlertByThreadId.cpp` | two bits of a word, the thread's system alert | Alert, WaitForAlert | the service |
| service, server/`SvcBase.cpp`, `ep.cpp` | the reported status, the target state | PreHandler, BeginChangeState, SetState, Run, Handler | the service control manager |
| the server object, server/`TUDP.cpp` (`CClientServerR`) | the list's links, counted receives, the timer, a reference count | Start, Stop, OnTimer, AddConnection, RemoveConnection, the destructor | `StartServer`, the receives, the endpoints |
| client picture and camera list, client/`client.cpp`, `ep.cpp`, `render.cpp` | `_vid`, the window's picture, the count of a picture, the lists of the dialog, its buttons | Start, Stop, Hide, Refresh, frames and answers, OnDisconnect | the user, endpoint callbacks |
| IO objects, completions and timers, `asio/io.*`, `tp.*` | handle under a rundown lock, requests in flight, a reference count, a timeout with a count of its own | start and complete a request, Close, SetTimeout, StopTimeout, OnTimer | all of the above |
| TCP endpoint and pipes, `asio/socket.cpp`, `pipe.cpp` | connection lock, two flags, requests in flight | Listen, Connect, Recv, Send, Disconnect, Close and their completions | no program of the repository |
| ring buffer, `asio/CiclicBuffer.*` | one 64-bit word, a count of operations | Start, EndRead, EndWrite, Stop | no program of the repository |
| the rest of `asio/`: ports, mailslots, TLS, DNS, ping, block heap | each its own | each its own | the programs call none of them, or (packets, block heap) only as memory |
| the local viewer, `camera/` | `_pin`, the window's picture, the count of a picture, the count of IO objects | OnOk, Stop, e_set, e_update, OnReadComplete, BeginRundown | the user, driver completions |
| decoder and painting, formats, crypto, logs, installers, kernel filter, `winZ` | mostly sequential, or external libraries | | |

How they meet. A datagram completes one of four outstanding receives of
`CClientServerR`; `OnRecv` finds the endpoint in the list by its cookie, takes
a reference, and `OnData` enters its rundown lock, decodes, reassembles and
calls `OnUserData`. On the server that is `CEncTcp`, which opens a pin of the
camera; each completed read of the pin encodes its frame
(`H264::ProcessFrame`), and the encoder's events send the result back with
`SendUserData`. On the client it is `CClient`, which decodes and posts window
messages to the dialog `WCDlg`. The server's timer walks the list and drops
who has been silent for 15 s. Sessions end from many places at once: a goodbye
packet, a packet that fails, the timer, the dialog, a camera that fails. The
last user to leave the rundown lock runs `OnDisconnect`.

What is hard in this code:

* the compare-and-exchange loops of the rundown lock, the encoder's packed
  word and the alert: retries with stale copies, a wake-up that must not be lost;
* several receives in one endpoint at once, while the timer, Stop or the
  dialog ends it, with a reference count next to the rundown lock;
* reassembly where only `get` is under the lock, and the bits, the bytes and the
  count are not, over a network that loses, duplicates and reorders, of messages
  that several threads send at once, fragment by fragment and without a lock;
* reads in the driver while the pin is closed and released by another thread;
  destructors that run inside a completion;
* answers of an earlier attempt that reach the next one; a dialog that learns
  of the end of its session by a posted message;
* a service whose control handler and main thread share a target state and an
  alert;
* a server object whose last receive walks a list it took over without the
  lock, while other threads still remove entries;
* one plain pointer to a picture that the dialog, the frames and the end of the
  session change; a list shown by the window that came from a reused buffer;
* a handle that is closed under requests in flight, a timeout that fires, is
  stopped and is replaced at once, a timer that refers back to its object;
* two chains of operations over one word of a ring, each of which may stop and
  be started again by the other.

What makes each part correct (section 3 gives the properties):
the rundown lock lets nobody in after the rundown began and calls back once;
an endpoint is told of the end of a session once, and of nothing after it, and
is deleted when nobody can reach it; a message is delivered whole, from its own
bytes, not more often than it came; a sample and a frame buffer is in one place
at a time; a pin outlives its users and the camera does not outlive its
session; a control that was accepted is carried out; a picture and a list are
alive while they are used; an object and its timers are freed, and not before
their last use; the bytes of a stream keep their order. `PROJECT.json` ("hazards")
lists line by line what can go wrong.

## 2. Modules

| module | what it is | code |
|---|---|---|
| `RundownSpec` | abstract: a lock with holders and three phases | |
| `Rundown`, `MCRundown` | the interlocked word, one step per instruction; implements `RundownSpec` | `inc/rundown.h` |
| `EncoderQueue` | the packed word, frame threads, event threads, the encoder as a queue of events | server/`H264.cpp`, `H264.h` |
| `Reassembly` | sending threads, network, buffers, receive threads; `Strict` chooses between the two copies of `OnData`, `Header` between those of `SendUserData` | `TUDP.cpp` |
| `MCReassembly` | for TLC: two receives at once; both directions of a session in order | |
| `ReassemblyProof` | proofs of `Reassembly` and `MCReassembly` | |
| `EndpointLife`, `MCEndpoint` | one endpoint on either side (`Server`): list membership, references, rundown, threads | `TUDP.cpp`, client/`ep.cpp` |
| `EndpointLifeProof` | proofs of it, of `Rundown` and of `Connection` | |
| `ListenServer` | the object with the socket: links of the list, counted receives, Stop's walk, the timer, the end of the object | server/`TUDP.cpp`, `ep.cpp` |
| `KsRead` | a pin: buffers, reads, handle, references; the actions take the calls in which the two programs differ | server/`read.cpp`, `asio/io.*` |
| `Capture` | the camera of one session: `CEncTcp`, its `KsRead`, `H264::Stop` | server/`server.cpp`, `userendp.h`, `read.cpp` |
| `LocalViewer` | dialog and window of the program `camera`, its `KsRead`, the end of the process | `camera/ep.cpp`, `read.cpp`, `render.cpp`, `video.h` |
| `MCCapture` | both for TLC | |
| `CaptureProof` | proofs of `KsRead` and `Capture` | |
| `ViewerProof` | proofs of `LocalViewer`; the theorems on `MCCapture` and `Capture` | |
| `Session`, `MCSession` | dialog, client endpoint, network, server endpoints | client/, server/`TUDP.cpp` |
| `SessionProof` | proofs | |
| `ClientVideo`, `MCClientVideo` | the client's picture and lists in one session: dialog and window, receives, messages both ways | client/`client.cpp`, `ep.cpp`, `render.cpp`, `video.h`; server/`server.cpp` |
| `ClientVideoProof` | proofs | |
| `AlertSpec` | abstract: an event for one waiting thread | |
| `Alert` | the two bits and the system alert, one step per load, exchange and system call; implements `AlertSpec` | server/`AlertByThreadId.cpp` |
| `Service` | handler and main thread of the service, composed with `Alert` (`TID`) | server/`SvcBase.cpp`, `ep.cpp` |
| `ServerProof` | proofs of `EncoderQueue`, `ListenServer`, `Alert` and `Service`, which share nothing but the module | |
| `IoObject` | object, handle, requests, timeout; a thread is a stack of calls | `asio/io.*`, `tp.*` |
| `ConnectionSpec` | abstract: one OnDisconnect for each connection, no callback beside or after it | |
| `Connection` | TCP endpoint, pipe server and pipe client; implements `ConnectionSpec` | `asio/socket.cpp`, `pipe.cpp` |
| `RingBuffer` | the word, the count, the two chains of operations | `asio/CiclicBuffer.*` |
| `MCAsio` | `RingBuffer` and `IoObject` for TLC | |
| `AsioProof` | proofs of both | |

The modules are layered. `EndpointLife`, `Capture`, `Session`, `ClientVideo`,
`IoObject` and `Connection` use a rundown lock in the form of `RundownSpec`
(phase and users), which `Rundown` is proved to implement; `Service` uses the
detailed `Alert` itself, and its run and its proof show that the use refines
`AlertSpec`. `Session` has a server endpoint as one step per handler because
`EndpointLife` takes that handler apart; so has `ListenServer` what happens
inside one endpoint. `Capture` has the encoder as "a frame is taken or dropped"
because `EncoderQueue` takes that apart; `Session` and `ClientVideo` keep
messages whole because `Reassembly` takes them apart. `Connection` has the
handle close some time after it was told to because `IoObject` takes that apart.

An MC module with several instances of a module (`MCReassembly`, `MCEndpoint`,
`MCCapture`, `MCClientVideo`, `MCAsio`) has a variable (`mode`, `side`, `size`)
that is chosen in the initial state and never changes: a behaviour is a
behaviour of one instance, and the properties are those of the instance.

Grain. A step is one interlocked instruction, one lock region, one external
call, or one access to memory another thread can change meanwhile. A place in
the code is a value of `pc[t]`; in `KsRead` (`Capture`, `LocalViewer`), `Connection` and `IoObject`, where
calls nest (a completion ends the session, which stops the pin, whose last
reference runs a destructor), each thread has instead a list `todo[t]` of the
calls it still has to make.

Abstractions of data. Bytes of payload are replaced by the number of the
message they belong to; keys and cookies by the number of the session or
attempt that made them; pixel formats, media types, window texts, log lines
and addresses are left out. `GetTickCount` is a bounded counter modulo
`TickMod` in `Reassembly` and the two values "time is up or not" (`fresh`)
elsewhere. An uninitialised `m_tick` is any value of `InitTicks`.

Abstractions of control, each in one place:

* `Reassembly`: the counter moves, and the first fragment is built, in the step in
  which a thread calls `SendUserData`; nobody else reads the local variables.
* `ListenServer`: waiting for the timer's callbacks and releasing the timer are
  one step; what `notify_disconnect`, Init and Accept do in the endpoint is part
  of the step that calls them.
* `Session`: a Connect initialises the endpoint in two steps, because a receive may
  find it in between; decoding an answer and storing the key are two steps, and
  the second writes all that the code writes after the check (two receives
  between them are `mixed`).
* `Connection`: what a derived class does in `OnRecv` or `OnRead` beyond its
  result is left to the user's thread; a transact request is a write whose
  failure only leaves the lock; `OnEmptyRecv` returns FALSE, as in the code.
  `Connect` is called on a handle that is there (`LockSocket`): a handle closed
  meanwhile only makes the request fail, which `Outcome` has. The callback
  `OnConnect(error)` of an attempt that failed is outside any connection, before
  which and after which nothing is promised, and is left out.
* `EncoderQueue`: an event call or an output of the encoder that fails ends in
  `__debugbreak`, which stops the service's process; there is nothing after it.
* `IoObject`: the system stores the timer's handle before the timer may fire, and
  one thread runs all timers.
* `ClientVideo`: one session; the network is in order except that two receives
  may overtake each other, and for late duplicates; a list has at least one
  camera; making a picture or a decoder succeeds or the click changes nothing.
  `Start` stores the picture, adds references, shows the window and sends in one
  step: all of it is on the user's thread, and no message of the new picture
  can come before the send. After two threads met on the plain `_vid`, or a use
  of a picture that is not there, the program is undefined (`undefined`) and
  the behaviour ends. 'stop' is answered by the step that takes it, where the code
  answers when the last read of the pin is over: for the client that is the same
  as a request that is longer on its way, since the encoder may send its frames
  before and after. The window takes the picture it is given: selecting a bitmap
  that is in no other device context does not fail; `overtaken`, `impatient`, `doubled` and `lossy` are the
  histories the properties except.
* `KsRead`: which of the free buffers a read gets makes no difference. The copies
  of `KsRead` in the server and in `camera/` are the same but for the constructor,
  the destructor, what they do with a frame and with an error; those are the
  calls that `Capture` and `LocalViewer` pass to its actions.
* `LocalViewer`: one picture for each pin; a `VBmp` that cannot be made changes
  nothing and is left out, and so is a window that cannot select its picture
  (as above). After a use of a picture that is
  not there or is another pin's (`undefined`) the behaviour ends; `hasty` is the
  history the property excepts.
* `RingBuffer`: the minima are at least 1 and the offsets do not overflow 32 bits;
  `Stop` comes after `Start`; a `BeginRead` or `BeginWrite` that fails is one
  step with the `EndRead(0)` or `EndWrite(0)` it makes.

## 3. Runs

Fairness is stated in section 4. CHECK_DEADLOCK is FALSE wherever the system
may come to rest: packets, frames and controls are bounded and need not come.
Only `rundown` has no such state.

### rundown
Three users, `Bias` = 5 (2^31 in the code), three incarnations. Three users is
the least number at which a compare-and-exchange can fail, retry and race with
a release and a new Init. `LockIsKept`: the word implements `RundownSpec`, and so
nobody holds protection of a complete or an older incarnation and each gets one
callback. `LockCompletes`: a rundown that has begun completes.

### encoder_queue
Two frame threads, two event threads, a pool of two samples, three frames: the
ring fills and wraps, frames are dropped, both kinds of thread race for the
word. `InputMayFail` is TRUE. `PoolIsWhole` (one place for each sample, and none
lost), `NeverFull` (the code's "never must be"), `DemandIsMet` (one BeginGetEvent
at a time, a second one ends in `__debugbreak`, and no frame waits beside an
encoder that asked), `FedInOrder`, `EveryFrameIsFed`. The last excepts
`Stalled`: when `ProcessInput` fails nobody asks for the next event again, in
the code as in the model.

### reassembly
Four instances. Two have two receives inside `OnData`, two messages of two
fragments, reordering, packets delayed without bound (so that one that is lost
needs no step of its own) and one duplicate. One sender is enough because the
network reorders: the fragments of the two messages arrive in every order.
*each* has a buffer for each message. *race* has one, a clock that passes the
999 ms limit and a tick that may be uninitialised, so that `get` gives the buffer
from one message to the other when it is free or was not written for too long.
In them `MessageIntact` says that a delivered message consists of its own bytes,
and is not delivered more often than it arrived, as long as `get` has not given a
buffer away while another thread used it (`stolen`); that can happen, because a
buffer counts as empty until its first bit is set outside the lock.
`FragSize` 2 is enough for fragments that are empty, partly filled and full.

The other two are the directions of a session on a channel that keeps the order, so that a
receive is over before the next begins. In both, two threads call `SendUserData`;
each takes its number and then sends one fragment after the other, so that the
fragments of two messages come among each other.
*down*, from a server to a client: three buffers, messages of two, two, one and
two fragments; two packets may be lost, or `SendMsg` fails and the rest of its
message is not sent. The number wraps after three, so that the fourth message
has the number of the first and its length, and meets whatever the first
left: nothing, a complete buffer, or a damaged one with bits and a count.
*up*, from a client to a server: the stricter `OnData`, seven messages of one
fragment, two of them empty, one of them too long to be sent; one packet lost;
the number wraps after four, onto messages of the same and of another length.
In both `OnUserData` may fail (`refused`), which closes the connection.

`e_nb` is 4 in the code; with three buffers and two senders one damaged message may
hold a buffer, with the second there are as many buffers as claims on
them, and a third shows what happens with fewer. A message that lost a packet, or met a
buffer of its number, may keep one for good; a thread that sends needs one.
`Spare` says that they are together no more than the buffers: in the code,
with two threads at work, two such messages. Beyond it `get` drops what it
has no buffer for or gives one away that has old bits, and the code does
lose undamaged messages or close the connection.

In them `MessageIntact` says that what `OnUserData` reads is of messages of its own
number always, and of its own message unless a number came back on a buffer of the
same length (`Mixed`). `OrderedChannelStaysOpen`: `OnData` fails only because `OnUserData` did,
because no buffer was to spare, or for such a number. `WholeMessagesDelivered`:
every message that lost no packet is delivered in the end, once, unless no buffer was
to spare or a number was back on a buffer that still had it (`Swallowed`, `Mixed`).
The last is what the code does 65536 messages later: `get` looks for the number
first and finds the old buffer, complete or damaged. A message of another length
is dropped, one of the same length is bad data or is completed with old fragments.
Nothing clears such a buffer, except that another message is given it.

### endpoint
Two instances. *server*: two receives, three packets of any kind, the timer,
receive errors and Stop, from `OnConnect` to the deletion. *client*: the dialog
connects twice, disconnects and is destroyed at any time.
`NoCallbackAfterDisconnect`, `OneDisconnectPerSession`, `ListIsSane`,
`SessionIsFreed`. The client's Init may find no memory, the first time. `ListIsSane` (nothing is freed while somebody can reach it,
nothing is linked twice) speaks of behaviours in which `RemoveConnection` was
not called for an endpoint that had left the list already (`twice`): it releases
the list's reference whether or not the endpoint is in the list, so a second
call is a release too many. `OnTimer` is such a caller.

### capture
Three instances. *two pins*: two receives, three packets, one pool thread, two
pins with one read and one buffer. *one pin*: two pool threads, three buffers.
*viewer*: `LocalViewer` with one pool thread, two pins of two buffers, one frame.
Every call of the driver may fail, and so may the memory for a request.
`FramesGoRound` (one place for each buffer; a completed read is followed by
another as long as reads plus busy threads do not exceed the buffers),
`PinInUse`, `CameraOff` (after the session; when the viewer's process ends),
`PictureInWindow` (the count of the viewer's pictures, and that the window shows
the picture of the pin the dialog has), `PinsAreFreed` (a session that ends frees
its pins; a viewer that is closed ends). `PinsAreFreed` excepts pins that are
forgotten after `Create` failed (`lost`): `CEncTcp::Start` and `WCDlg::OnOk` both
do that, and in the viewer such a pin keeps the process alive for good.
`PictureInWindow` excepts a user who starts again before the last pin is gone
(`hasty`): its destructor's e_set then takes the new picture off the window, and
for every format but '2YUY' the next e_update decodes out of a null picture.
A behaviour ends where two receives are in `OnUserData` at once (`overlap`): the
code has no protection against that and nothing holds after it. Two pins are
what it takes for the late end of one to meet the other.

### session, session_live
*session*: three clicks on Connect, two server endpoints, two receives, one
packet lost or duplicated, no user traffic; *session_live*: one click, two
messages or pings. `ConnectStartsClean`: a Connect finds no private key of an
earlier attempt (`SetPrivateKey`'s `__debugbreak`) and an endpoint that is free.
`KeyOfTheSession`, `AbandonedSessionEnds`, `DialogComesBack`. Excluded: what
follows a Connect that failed in Init or to send (`stray`), two answers decoded
at the same time (`mixed`), and, for the dialog, lost packets of the set-up
(`lossy`), which nothing sends again. Three attempts are what it takes for an
answer of the first to meet the key of another after a complete session in
between.

### service
Five controls against Run. A stop, a pause, a continue and one more of each can
all be on their way in every order. `AlertFindsService`: the handler never
alerts a service object that is gone, except after a start that `failed`.
`ReportedIsTarget`: when Run sleeps and no control is on its way, the reported
state is the one that was asked for last. `AlertIsAnEvent`: `m_tid` behaves as
`AlertSpec`. `ControlIsCarriedOut`, unless a start `failed` (Run then goes round
without waiting and may report an old target over a newer control) or the
report of the control failed (`unreported`: Run is not alerted then, and no
further control is accepted).

### listen_server
Two receives, two endpoints, three packets for an endpoint (a goodbye, or one that
only uses it) or expiries. A new endpoint may be removed at once, because Init,
Accept or the answer failed. Receives fail at any time: at once, or before
`AddListen` has counted them, so that Stop runs early, twice, or beside a Start
that still posts. `WalkIsSafe`: no freed endpoint
and no dead list head is touched (`broken`) unless a list reference was claimed
twice before (`twice`), which the timer does whenever it drops an endpoint.
The timer takes the expired endpoints out one by one with the lock held
(`OnTimer`, `Collect`, `Collected`), so that what asks for the lock (`Unlocked`)
waits, and what needs none, as the walk of a Stop, goes on beside it.
`DeafServerGoes`: when the last receive has ended the object and all its
endpoints go, except `twice`, where a receive ended before it was counted
(`miscounted`), and where the timer itself drops the last reference ("stuck":
the destructor waits for the callback it runs in). Two endpoints are what it
takes for a walk with a next entry that another thread removes.

### connection
TCP endpoint, pipe server and pipe client, two connections one after the other,
two pool threads, a user who makes one call (write, disconnect, close) at any
time, one request that fails for want of memory. `CallbacksKept`: it implements
`ConnectionSpec`; the second connection shows that the first left nothing
behind. `EndIsReported`: a connection that is being ended ends, and one whose
other side left is noticed, unless the read that would notice it could not be
posted (`starved`).

### asio
Three instances. *tight* and *roomy*: a ring of three bytes through which five
go, which wraps it, with the largest minima `Start` allows (the `__debugbreak`)
and with the smallest. `BytesInOrder`, `NeverStalls` (a chain that stopped for
want of bytes or room is started again by the other), `StopsOnce`. *object*: two
users with two calls between them, one pool thread, the timer thread, two timers;
the object is a socket's or a file's, whose `Close` differ. `NothingUsedAfterFree`
for the object, its handle and its timers, `OneTimeout`, `ObjectIsFreed`: the
object and its timer refer to each other, and still both go. Two timers are what
it takes to replace one that is firing.

### client_video
Three instances. *pictures*: two pictures one after the other, a frame, two
receives; *lists*: two requests for a list; *faults*: one packet lost or
duplicated or a send that fails, a camera with or without the wanted formats. In all of them the encoder may send
a frame after 'stop', and a 'strt' may start nothing.
`PictureInUse`: a picture is counted by who has it, and the frames go to the one
the window shows. `ListsCurrent`: the boxes of the dialog point into the list
the dialog has. `StopIsAnswered`: after Stop the window goes. All three except the
histories named in section 2: a frame of the old picture overtaken by the
start of a new one, a second click before the answer, a duplicate of an
answer, a lost one. A frame is overtaken whoever gives its picture back: a
'stop' on another receive, the end of the connection, or the dialog's next Start,
which with a third picture and a second 'stop' releases the one before.

Properties with an exception name it in a variable of the module, marked
"history" or, for `overlap`, in the session's state. The exception is what the
code does; the property says that nothing else goes wrong, and the mutants show
that it can fail.

For every property of a run `PROJECT.json` ("mutants") names a changed form of
one operation (a dropped test, a swapped order, a store in place of an
exchange) under which the same run finds the property violated.

## 4. Fairness

* A thread that is inside an operation goes on: `WF` of its steps. Pool threads
  and the main thread of the service are never stopped between two instructions.
* A thread need not begin an operation: no fairness for user clicks, packets of
  the peer, frames of the camera or controls. `Rundown` requires of a holder
  that it releases, because every Acquire in the code is followed by a Release
  on every path.
* The network: a packet that is not lost arrives (`WF` of `OnRecv`,
  `ServerRecv`), because every completed receive is posted again.
* On the ordered channels of `MCReassembly` some thread goes on: one in
  `SendUserData`'s loop, a pending receive for which there is a packet, or one in
  `OnRecv` (`WF` of `Working`, all of them together: each comes to an end, so
  nothing more is needed). Nobody need call `SendUserData`.
* Time: the server's timer is periodic (4 s, `StartServer`), and 15 s of silence
  do pass (`WF` of `Silence`, `OnTimer`).
* The encoder asks for input again and again (`WF` of `EncoderNeedsInput`):
  what Media Foundation promises of an asynchronous transform.
* The driver completes its reads, at the latest when the pin is closed; a request
  on a handle completes at the latest when the handle closes (`OnIoComplete` of
  `IoObject`, `Connection`), and a disconnect that was begun completes.
* A timer that is set fires (`Fire`), and the handle that was told to close closes
  (`CloseObjectHandle`).
* In `ListenServer` the receives and Stop go on, and the timer's callback, once
  it has begun; the peers need not say goodbye.

Strong fairness is assumed nowhere.

## 5. Proofs

All theorems hold for every value of the constants that satisfies the named
assumptions of the module, in particular for any number of threads.

* **EndpointLifeProof, the lock** (finite `Users`, fewer than `Bias`: `LockSizes`), on
  the variables of `MCRundown`. `LockInv` = types, "the
  word counts the holders", "held means current", "one callback each". The
  count is what makes the rest inductive: only it tells that a word at
  `v_complete` has no holder and that a word one above it has exactly one.
  `LockTypeCorrect`, `WordCountsHolders`, `NoCallbackUnderAHolder`,
  `ExactlyOneCallback`, `RundownStaysFinal` (an action property),
  `LockImplements` (`LockIsKept`: what the endpoints above assume of their lock).
* **ServerProof, the encoder queue** (any `N` > 0, any threads). Exclusive places, single
  demand and no lost wake-up are proved together: the full ring is excluded by
  counting samples, and the counting needs their exclusive places. That no
  sample is lost needs one step more for each place it can be in.
  For the order of the frames the history numbers are followed round the ring:
  `InOrder` says that the waiting frames continue the numbers from the last one
  handed over, up to the last one accepted. It is inductive only beside
  `Stalled`, since a refused sample leaves a gap and ends the demand for good
  (`StepStalled`).
  `QueueTypeCorrect`, `SamplesAreKept` (`PoolIsWhole`), `DemandIsUnique`
  (`DemandIsMet`), `RingNeverFull` (`NeverFull`), `FramesInOrder` (`FedInOrder`,
  an action property).
* **ReassemblyProof** (any messages, fragment size, buffers and finite set of
  threads; a network that loses, duplicates and reorders). The program has no
  variable that says which fragments of a buffer were copied *and* counted:
  `m_bits` says which were claimed, `m_cbNeed` how many bytes are missing. The
  invariant has that set, `C`, under an existential quantifier, and each step
  names the new one. `Base` is unconditional: the packets in flight are ones
  SendMsg makes, no two buffers have one number. `Safe(C)`: the places in `C`
  hold bytes of messages with the buffer's number, what is missing is the length
  less `C`, a thread between bit and count owns one place outside `C`, and a
  thread in OnUserData has a complete buffer to itself. `Counted(C)` is a
  balance: of each fragment, the copies that arrived are at least its message's
  deliveries, the threads that carry one and the buffers that hold one. Both
  hold until `get` gives a buffer away under its user (`stolen`), the hole
  that `BufferIntact` excludes too. That the lengths of a message's fragments
  add up is proved with the bytes as a set: a fragment takes away its
  own (`MissingLess`), and a buffer from which nothing is missing has all of
  them (`AllThere`). `TypeCorrect`; `NumberKept`: OnUserData sees no unfilled place and
  no bytes of another *number*; `MessageKept`: nor of another *message*, and no
  delivery is made up, provided that no two messages of which the receiver has a
  packet have one number (`NumbersDiffer`); `RaceIsIntact` (`MessageIntact`): that
  premise holds when no more messages are sent than there are numbers, however
  many threads send them and however many receives take them. The premise cannot go: a packet
  delayed until 65536 messages later is one of another message to the code, which
  compares nothing but the number and the length.
* **EndpointLifeProof, the endpoint** (any finite set of receives, both sides). `Session` (who
  is inside the rundown lock, and for which session), `Places` (where each
  thread can be), `Refs` (as long as nobody removed the endpoint twice, the
  reference count is the creator's, the list's, one per receive that found the
  object and one per thread that took it out and has not dropped it),
  `OneRemover` (on the client at most one thread ends a session that can be
  followed by another). `TypeCorrect`, `CallbacksAreProtected`,
  `DisconnectOnce`, `NoUseAfterFree` (`ListIsSane`).
* **ServerProof, the listening object** (any finite sets of receives and endpoints). Two things
  are proved together, as long as no list reference was claimed `twice`.
  `Tokens`: the list's reference of an endpoint is unclaimed (`owed`) or with one
  thread, and the count is that reference and one for each receive that found
  the endpoint. `Links`: behind an unclaimed endpoint are only unclaimed ones, up
  to the head of a list that lives, and before it is at most the entry that a
  walking Stop has claimed (`Around`); what Stop has passed stays linked to it
  and may be freed, but the way from an unclaimed endpoint does not lead there
  (`TwoWay`). The links alone do not tell which list an endpoint is in, nor
  that a list is no ring without its head, and without that a walk could end
  with endpoints left over or the two links of an entry could lead to two
  lists. `Lists` therefore says that there is a map from nodes to heads and one
  to numbers that grow along every list, and each step gives the new maps: a
  new endpoint gets the number of those still to come, `StopTake` renames a
  head, nothing else changes them. That `Stop` ends with nothing left in its
  list (`EndLinks`) takes the endpoint with the least number (`Least`).
  `TypeCorrect`, `StopIsSafe` (`WalkIsSafe`), `EndpointsAreCounted`,
  `ListIsOwed`, and `OnlyRemovalsClaimTwice`, an action property that says who
  can spoil it: a RemoveConnection of what Stop has picked up, or the timer's
  second Release, never Stop's walk or the timer's own.
* **SessionProof** (any receives, clicks, server endpoints, faults). A session ends
  at one thread, which destroys the key and then posts the message that lets the
  dialog connect again: a baton. `OneEnd` says that only one of these is going
  on, `Connecting` that while Connect can be clicked nothing of a session is
  left, `KeyInUse` that a private key exists only between Init and its
  destruction, `Keys` which key an answer on its way can carry. `TypeCorrect`,
  `ConnectIsClean` (`ConnectStartsClean`), `KeyMatches` (`KeyOfTheSession`).
* **ClientVideoProof** (any finite set of receives with a buffer for each, any
  pictures, lists, frames and faults, cameras of every format). `Books`: the
  count of a picture is what `_vid`, the window and OnOk keep. `_vid` is the
  difficulty: its picture is given back first and the pointer cleared after, on
  the dialog's thread or on whichever thread calls OnDisconnect, so for a while it
  does not count (`Dropped`); the books say that one thread at a time may be
  there, and that a Start that is undone still has all three references. `Places`
  supplies that OnDisconnect is alone: who is in it is the last one out of the
  rundown lock. `Decoded`: a frame is decoded into `_vid`'s picture while that
  counts, or it was overtaken. `Videos`: the dialog's flag, `_vid` and the window
  agree, or the message that ends the video is posted; for that a receive that
  handles 'stop' must have posted it before it touches `_vid`. These three hold
  until the program is undefined; `Freed` says that nothing but two threads in
  `_vid` at once, or an overtaken frame, frees a picture in use. `ListInv`: at most
  one answer with a list is on its way, counted over the request, the packet, the
  message in hand and the window message (`OneAnswer`), and while there is one the
  combo boxes are empty; e_connected stands for the first request, and comes
  before any button (`Connecting`). `TypeCorrect` (with it that a receive always
  finds a buffer, `FreeSlot`), `PicturesAreCounted`, `WindowShowsDecoded`,
  `ListStays`; `PicturesInUse` and `ListsInUse` (`PictureInUse`, `ListsCurrent`)
  state them for the first instance of the run.
* **ServerProof, the alert** (any `Alerters`, with timeouts). `BitsInv` says what the
  two bits can be at each place of `WaitForAlert`; together with `OneWakeUp` it is
  inductive. The lemmas are about `Any(A)`, the module with any set `A` of
  alerters, so that the service can use them with its own.
  `AlertTypeCorrect`, `NoSecondWaiter` (the `__debugbreak` of `WaitForAlert`),
  `WakeUpsMatch`, `AlertImplements` (`Spec => AbsSpec`). The waits of the service
  have no timeout, so `TimeOut` and `Spin` are steps of `Alert` that only these
  proofs cover.
* **ServerProof, the service** (any number of controls). The facts about the alert
  are taken with the handler as the one alerter. On top of them a
  control is one token that goes from the handler (`ToAlert`) to the alert
  (`Alerted`) to Run: `OneToken`, and `UpToDate`, that without a token Run has
  taken up the target or is about to. `ServiceTypeCorrect`, `AlertIsSafe` (`AlertFindsService`),
  `NothingForgotten` (`ReportedIsTarget`), `UsesAnEvent` (`AlertIsAnEvent`).
* **AsioProof, the ring** (any threads, size, minima that `Start` allows). `Chains`:
  each chain is in flight, over, or in the hands of one thread, or stopped for
  want of bytes or room. `Snapshots`: what a thread knows of the word may be old,
  but only the other chain has changed it since, to this chain's advantage.
  `Stream` (which bytes the ring holds) and `Counted`. `RingTypeCorrect`, `StreamIsKept`
  (`BytesInOrder`), `ChainsGoOn` (`NeverStalls`), `StopIsLast` (`StopsOnce`).
* **AsioProof, the object** (finite `Users` and `Pool` without common threads, a
  `Clock` that is neither, any timers and calls). `ObjectInv` is the books of an
  object: `ObjectRefs`, `HandleRefs` and `TimerRefs` say that the object's count,
  the holders of its handle, the operations the pool expects and each timer's
  count are the numbers of requests, pointers and calls that will give them back.
  A call is a task on some thread's stack, so a count is the cardinality of a set
  of `Places`: a thread and a height above the bottom of its stack, which does
  not change while calls come and go above it, so that an action adds or takes
  one place at a time. The counts alone do not say that a call finds its
  object: `Backing` does, that each task that uses the object or a timer stands
  above one that still owns a reference. `Timeouts` and `Callback` say where the
  one call of OnTimer is: in the armed timer, on a stack, or made; and what
  `_hTimer` and `_cbExecuted` can be then. All of it is one induction, since the
  timer's cancellation closes the object and the object's close stops the timer.
  `ObjectBooks`, `ObjectSafe` (`NothingUsedAfterFree`), `TimeoutOnce`
  (`OneTimeout`).
* **EndpointLifeProof, the connection** (any finite `Pool`, any calls, connections and
  faults; the three kinds). Threads are stacks of calls here too. `ConnInv`:
  `Holders`, that the count of the connection's lock is the number of calls
  that will leave it, of reads, writes and disconnects under way and of their
  completions; `Between`, that a connection is there as long as its lock is up or
  held or the call of OnDisconnect is still on a stack, and that there is one
  such call; `Waiting`, that nobody waits for a connection while there is one,
  and one request at a time does; `Above`, that OnRecv and OnSend run on top of
  the call that releases the connection. From the last it follows that no
  callback runs when the count reaches zero, which is the step that OnDisconnect
  refines. `ConnectionBooks`, `ConnectionImplements` (`CallbacksKept`).
* **CaptureProof, ViewerProof** (finite sets of receives, pool threads and frames,
  any number of pins, packets and pictures). What the threads have still to do is
  on their stacks, so who has which reference, frame, read or lock is seen
  there only: a pin's last reference is dropped at the end of a chain of calls
  that another thread began. The invariant counts places, as in `AsioProof`.
  `PinBooks`: a pin's references are its reads in the driver, the calls that will
  release one and the owner's pointer. `FrameBooks`: a frame of an opened pin is
  free, with the driver, or named by one call. `ReadBooks`: reads under way and to
  come are at most `Reads`. `Pushed` says that a step takes the first call of one
  stack and puts others in its place; so each count changes by what that call and
  those calls are worth. This is proved once (`CountOne`, `Traded`), and an action
  has only to show that its assignments make up for it (`Settled`).
  The counts alone do not say that a pin is there when it is used: `Backed` does,
  each call that uses a pin is above one that releases it, or the owner keeps it.
  `Locked` and `LockPlaces`: who is inside the handle's lock. `Handles`: an open
  handle will be closed, by the owner's stop, by a call, or by the destructor.
  `Fresh`: a pin being opened is known to its opener. `Solo`: one thread at a time opens or stops one,
  and this is what two receives in `OnUserData` would break (`overlap`).
  For the camera to be off, `SessionPlaces` says that only somebody inside the
  session opens or stops a pin. `ViewerInv` joins the viewer's invariant with its window:
  `Pictures` counts a picture as a pin is counted, and `Closed` and `Ended` keep
  the cameras of a viewer that ended off. That the window shows the picture
  of the dialog's pin rests on the order of a pin's last steps: its destructor
  lets the picture go, posts e_set and closes the handle, so no message about
  a frame comes after e_set (`Calm`). It is inductive only until the user is `hasty`.
  The lemmas have sets and sizes as parameters, so that they apply to each of
  the instances of `MCCapture` as well as to `Capture`. `MCInvariant`,
  `FramesGoRoundAlways`, `PinInUseAlways`, `CameraOffAlways`,
  `PictureInWindowAlways` (the invariants of the run, for any values of its
  constants); `CaptureInvariant`, `OnePlaceAlways`, `OutlivesAlways`,
  `ReplacedAlways`, `OffAlways` (the same for the session alone).

Model-checked only: of `Reassembly` the instances `each`, `down` and `up`
(`RaceIsIntact` is about the module with any constants; `NumberKept` says what
`NumberIntact` says of the other two; that a channel in order stays open and
delivers is for TLC); of `ClientVideo` the instances `lists` and `faults`, whose
constants are fixed numbers too (the theorems hold of their constants, but the
prover takes an instance for a different module); all liveness. Liveness under
fairness and ENABLED are outside what TLAPS proves, and so is induction over
data with an operator parameter. No module declares a RECURSIVE operator.

## 6. What is not modelled

* **Two receives in `OnUserData` of one server session** (server/`server.cpp` 419):
  two starts, two stops, an `init` beside a `strt`. There is no protection in the
  code, so nothing holds; `Capture` ends its behaviours there.
* **`H264::Stop` from a pool thread in `EndpointLife`.** A failing camera calls
  `Disconnect`; `Session` has it (`CameraFails`) as one step, `Capture` has it
  with the pins, `EndpointLife` does not have it as a thread of its own.
* **The viewer's x265 encoder** (`camera/read.cpp` 114 to 143). A frame is converted
  into the one `m_i420` and `m_pic` gets its time outside `m_lock`, so two
  completions can write over what is being encoded. Nothing in the code prevents
  it; the result is only printed, and no state of the model depends on it. Nor
  are the viewer's lists of cameras and formats, its tray icon, its log window
  and the saving of a picture, which are the work of one thread.
* **Start-up of the server** up to the socket: `Service` has it as a step that
  succeeds or fails, `ListenServer` begins with the receives.
* **Ports and mailslots of `asio/`**, name resolution, ping, TLS, the block heap and
  packets: library code the programs do not run, or use as memory only. A
  mailslot has no connection; a port keeps a number of endpoints listening.
* **Saving a picture, choosing colours, painting, decoding, the log window** of the
  client: one thread, or a library's.
* **Data:** formats, pixels, encryption, key files, packet layout.
* **Operating system and libraries** (Winsock, Media Foundation, kernel streaming,
  service control manager, window messages): each a nondeterministic step.
* **Code outside the three programs:** server/`https.cpp`, `reader/`, the kernel filter,
  the installers, `winZ`. More than half of the lines of the
  repository are declarations of system interfaces (`inc/`) that define nothing
  that happens.

`PROJECT.json` ("components") has every part with its status and the reason.

## 7. Plan

The order follows what the program depends on: the lock under everything first,
then the two lock-free and racy algorithms, then the objects that live and die,
then the protocol, the service around it, and last the library. All of this is
done:

1. `RundownSpec`, `Rundown`; the lock's part of `EndpointLifeProof`.
2. `EncoderQueue`, its part of `ServerProof`.
3. `Reassembly`, `MCReassembly`, `ReassemblyProof`.
4. `EndpointLife`, its part of `EndpointLifeProof`.
5. `KsRead`, `Capture`, `CaptureProof`; `Session`, `SessionProof`.
6. `AlertSpec`, `Alert`, `Service`, their part of `ServerProof`.
7. `ListenServer`, its part of `ServerProof`: the list at the level of its pointers, `Stop` against
   `RemoveConnection`, the count of receives, the server object and its timer.
8. `IoObject`: request, handle, completion and timer of `asio/`; its half of `AsioProof`.
9. `ClientVideo`, `ClientVideoProof`: picture and lists.
10. `ConnectionSpec`, `Connection`, its part of `EndpointLifeProof`; `RingBuffer`, its half of
    `AsioProof`.
11. `LocalViewer` on the `KsRead` of the server, `ViewerProof`.

Left, in the order of their use:

12. Proofs: a refinement of `EndpointLife` for each endpoint of `ListenServer`;
    `OrderedChannelStaysOpen` for any number of senders and buffers.
13. Modules: ports over `Connection`, the resolver's cache and retries, the block
    heap's interlocked list, the client's log buffer.
