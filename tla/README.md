# AllJoyn for Node: a TLA+ model of its concurrency

The repository is a Node.js binding (`src/src`, about 1,750 lines) on top of the
AllJoyn framework (`src/alljoyn`). An application written in JavaScript attaches to a
message bus, registers listeners, calls methods of remote objects and accepts
sessions; everything the framework has to say to it arrives on threads of the
framework. The correctness of the whole rests on a few small concurrent mechanisms
that every call and every callback goes through, and, between nodes, on two protocols
that have to survive an unreliable network. This project models them, from the
JavaScript loop downwards, and leaves data formats and cryptography aside.

## 1. Inventory

### The path of a callback and of a call

    JavaScript  <- uv loop <- BusListenerImpl / SignalHandlerImpl / SessionPortListenerImpl
                                   ^ dispatcher threads (qcc::Timer)
    application -> ProxyBusObject -> LocalEndpoint -> ClientRouter -> RemoteEndpoint -> routing node
                                   ^ reply timer (qcc::Timer)
    routing node -> UDPTransport -> ARDP -> network -> ARDP -> UDPTransport -> routing node
    signal without a session -> SessionlessObj -> advertisement ... request -> SessionlessObj -> application

| Component | State | Operations | What is hard | What makes it correct |
|---|---|---|---|---|
| Callback hand-off of the binding (`BusListenerImpl.cc`, `SignalHandlerImpl.cc`) | per JavaScript function a queue with a mutex and a `uv_async_t` | native: store holder, append, send; loop: move the queue, call JavaScript | two threads, coalesced wake-ups, several handles | each event once, in order, eventually; order between events of different handles |
| Session port listener (`SessionPortListenerImpl.cc`) | one accept holder (data, complete, rval) with mutex and condition variable; a queue of joined peers | AcceptSessionJoiner, accept_callback, SessionJoined, joined_callback | a dispatcher thread waits for JavaScript; JavaScript may wait for the dispatcher | each joiner gets its own verdict; everybody is answered |
| `qcc::Timer` | the ordered set of alarms, a pool of threads with a controller role, a reentrancy lock, a queue of waiting clients | Start, Stop, Join, Add/Remove/Replace/ForceRemove, RemoveAlarmsWithListener, EnableReentrancy; Run, ThreadExit | role hand-over, callbacks outside the lock, waits that release the lock, stop and restart | each alarm once, in order; removed means quiet; no due alarm is forgotten |
| Local endpoint (`LocalTransport.cc`) with `ProxyBusObject.cc` | reply map by serial number, reply timer, dispatcher, running flag; heap contexts of blocking calls | register, update serial number, push, reply, timeout, unregister, pause/resume, stop | reply, timeout, authentication, destruction and shutdown race for one entry | the handler once; an error means no handler; memory outlives its users; every call ends |
| `AllJoynPeerObj.cc` | messages pending authentication | AUTHENTICATE_PEER, AcceptSession, SessionJoined | delays a call that the reply timer watches | a delayed call is sent or answered |
| `BusAttachment.cc` | listeners, sessions, transports, connection state | Connect, Disconnect, JoinSession(Async), listener calls | listeners unregistered while they are called | no call after unregistration returns |
| Remote endpoint (`RemoteEndpoint.cc`) | transmit queue, probe state, reference counts | PushMessage, ReadCallback, WriteCallback, Exit | writers wait for room while the link goes down | nothing sent twice, waiters are released |
| ARDP (`ArdpProtocol.cc`) | per connection: rings of send and receive buffers, NXT, UNA, LCS, CUR, EACK masks, timers, state; per handle: the traffic jam flag | Connect, Accept, Send, RecvReady, Disconnect, Release; Run: a machine per state, five timers | loss, duplication, reordering, wrap-around, expiry of single fragments, buffers lent to the upper layer, half open connections | whole messages in order; every send reported once; windows agree; no assertion fails |
| UDP transport (`UDPTransport.cc`) | endpoints on top of ARDP | endpoint life cycle | callbacks against endpoint exit | every buffer returned once |
| Sessionless signals (`SessionlessObj.cc`) | cache of the latest signals with change ids, advertisements, match rules with rule ids, a record per remote cache | push, cancel, rules, found name, worker, join callback, range request, routing, session lost | two nodes; locks released around joins and sends; retries; ids that wrap | nothing that counts as received is missing; nothing twice; no work stranded |
| Routing node: sessions (`AllJoynObj.cc`), names (`NameTable.cc`), rules, router | tables shared by all connections | Join, Leave, Attach, RequestName | two nodes, messages crossing, endpoints that vanish in the middle | both sides agree on a session; owner queues |
| Name service, SLAP and packet engine, I/O dispatch, thread pool, auto pinger, key store, policy, messages, About, other bindings | see `PROJECT.json` | | | |

`PROJECT.json` lists every component with its status, and under `hazards` the lines at
which things can go wrong that a test would hardly reach.

### How the components interact

* `_LocalEndpoint::Dispatcher` *is* a `Timer` (concurrency 4, expireOnExit,
  preventReentrancy, at most 10 alarms): every message to the application is an alarm
  of time zero. `replyTimer` is a second `Timer`, with expireOnExit. So the order and
  exclusion of callbacks, and the end of every blocking call, are properties of `Timer`.
* Reply handlers, signal handlers and session listeners run on dispatcher threads under the
  reentrancy lock unless they call `EnableConcurrentCallbacks`; the binding never does.
* Timeouts are sent through the dispatcher as error replies.
* The binding's native callbacks never touch JavaScript: they hand over through libuv.

## 2. Plan

Written in this order, the most widely used mechanism first.

| Step | Modules | State |
|---|---|---|
| 1 | `EventChannel` (abstract), `AsyncQueue` (implements it) | done, proved |
| 2 | `Timer` | done, safety proved |
| 3 | `LocalEndpoint` (uses what `Timer` shows) | done, safety proved |
| 4 | `SessionPortListenerImpl` (dispatcher + binding + blocking calls) | done, safety proved |
| 5 | `MessageStream` (abstract); `ArdpSeq` (arithmetic of sequence numbers), `ArdpEack` (masks), `ArdpSnd`, `ArdpRcv` (the two halves of a connection), `Ardp` (two nodes and a network, implements it) | done; safety and the refinement proved for reliable messages |
| 6 | `SessionlessObj` (provider and consumer; shares the arithmetic of `ArdpSeq`) | done, safety proved |
| 7 | `RemoteEndpoint` (transmit queue, probes, exit) and `UDPTransport` endpoint life cycle | planned |
| 8 | `BusAttachment` (listener protection counts, asynchronous join, disconnect), signals and `HandleMethodCall` in `LocalEndpoint` | planned |
| 9 | `NameTable`; `Sessions` (two routing nodes) | planned |

Theorems still worth proving: ARDP with messages that expire (`ArdpSendProofs` assumes that there are none), `NeverInvalid` and
`AssertionsHold`, which need a network that does not reorder; then the same for the modules of steps 7 to 9.

## 3. Modules and code

Every module names, in its comments and in the `map` of `PROJECT.json`, the code behind each
definition. Conventions: everything between taking and releasing a lock is one step; a wait, a
sleep or a callback separates steps; a callback into application code may return at any
later moment; data is opaque. Definitions marked "Mutant" are deliberately wrong versions of
the one below them; each property is shown to notice one.

### `EventChannel`, `AsyncQueue`
`AsyncQueue` is one native half (`SetData`, `Emplace`, `AsyncSend`: the three
statements of `FoundAdvertisedName`, `Signal` and the rest) and one loop half
(`LoopWake`, which is libuv, then `TakeQueue`, `CallJs`, `LoopReturn`). `pending` is
libuv's coalescing flag. `EventChannel` says what the binding promises: a FIFO per holder.

### `Timer`
One record per call a client is in, one program counter per timer thread. `Loop` is the head of
`TimerThread::Run` up to the next wait; `ctlWait`, `sleep` and `idle` are its three
waits; `reent` waits for the reentrancy lock, `serve` for `Timer::lock`; `Serve` contains the
hand-over of the controller role, the second look-up of the alarm and the wake-up of a client;
`call`, `done` are the callback and its aftermath; `exit*` is `ThreadExit`. `Join` has no
step: it is the guard that all threads are dead in `Start`. Clients hand in each alarm
object once, join before they start again, do not stop the timer while one of them is in `Start` (which
releases the lock at Timer.cc:184; `Stop` has no guard of its own), remove alarms whose AddAlarm has
returned, and stop adding alarms of a listener they destroy. Clients are not threads of this timer: a
callback that adds or removes alarms of its own timer, and the exception for the caller's own thread in the removals
(Timer.cc:342), are left out. `AddAlarmForced` is the AddAlarm that gives up its wait because a `ForceRemoveAlarm` of some other
timer has alerted the thread (IODispatch does that); `ReplaceAlarm` has both values of `blockIfTriggered`. The period of a periodic alarm is one tick.
`TimerAssumption` excludes a limited timer with periodic alarms: `Run` would wait in
AddAlarm with `Timer::lock` held. No timer of the repository is of that kind.

### `LocalEndpoint`
A call stands for the thread that makes it: `none, alarm, push, failed, wait, done` are the
places in `RegisterReplyHandler` and `MethodCall`/`MethodCallAsync` where another thread can come
between. `replyMap` is the set of calls with an entry, `serial` counts replacements of the
serial number (that is all that matters of it: an old one matches nothing), `addr` is the
address of the `ReplyContext`, which is how `AlarmTriggered` recognises it. `timer` is the thread
of `replyTimer`: `lookup` (callback begun), `dispatch` (serial number read, lock released),
`handler` (the handler runs on it, when the endpoint has stopped). `phase` follows
`_LocalEndpoint::Stop`. A secure call goes through `auth`; the peer answers at most once.
`mapLock` is only held between steps by `PauseReplyHandlerTimeout`, the one operation that waits
under `replyMapLock`. A new context gets any address that no living context has, so the address of one just deleted, too;
`mistaken` remembers the calls whose context `AlarmTriggered` has taken for a deleted one. Two constants select assumptions that the code
leaves to its surroundings: `EarlyTimeout` (a timeout shorter than the hand-over to the router) and
`MaxSerials` (other messages sent meanwhile). Atomic in the model: `AlarmTriggered`'s look at `running` (908) with what it does of it,
and `UpdateSerialNumber` with `SetSerialNumber`, which lies before the lock (700) and concerns the caller's own
message alone. Left out: the decryption and unmarshalling branches of
`HandleMethodReply` (they change the content of the reply, not whether the handler is called),
`HandleSecurityViolation`, incoming method calls and signals, and the direct `DoPushMessage` for
replies of objects in the same process.

### `SessionPortListenerImpl`
The dispatcher of step 2 reduced to a queue, a reentrancy lock and threads; the accept holder;
the JavaScript thread as a stack of what it is in (`js`), so that a listener function may itself be in a
blocking call. `rval` is uninitialised at first: any value. `AcceptSession` calls `CallJoinedListeners`
itself for routing nodes older than 2.5.0; that branch is left out.

### `ArdpSeq`, `ArdpEack`, `ArdpSnd`, `ArdpRcv`, `Ardp`, `MessageStream`
Node A connects and node B accepts; both run the same code on a record `conn[n]` whose fields keep
the names of `ArdpConnRecord`. The helper modules are functions from a record to a record and what
it emits, in the order of the C functions of the same names: `ArdpSnd` the
send ring (`SendData`, `UpdateSndSegments`, `CancelEackedSegments`, `FlushMessage`, `Disconnect`),
`ArdpRcv` the receive ring (`AddRcvBuffer`, `AdvanceRcvQueue`, `ReleaseRcvBuffers`,
`FlushExpiredRcvMessages`), `ArdpEack` the mask of what was received out of order. `Ardp` has one action per
call of the upper layer, per received datagram (the machine of each state) and per timer. What
the upper layer sees (`SendCb`, `RecvCb`, `ConnectCb`, `DisconnectCb`) is collected in `app`; a failed
assertion of the code is collected in `broken` instead of ending the program. Each send of a datagram
meets one of three outcomes: sent, lost, or the socket blocks (`jam`). `net[n]` is a set, so datagrams
overtake each other; a node in `Duplicates` may receive one again. `MessageStream` is the promise,
once per direction: whole messages, in order, skipping only expired ones, each reported once and
in order, as sent only if consumed.

Abstracted: all times (a timer that is set may fire, at any moment), round trip estimates, the limit
on delayed acknowledgements, fast retransmission and the retry count of data timers (any timer may
fire again or give up), the list of data timers (a flag per buffer). Simplified: both ends have the same number of buffers; ports
are the numbers of connection records, one record per node at a time; a refused `ARDP_Send` changes
nothing; a plain SYN never meets SYN_SENT (only one side connects); `ARDP_RecvReady` comes in the order of
delivery. Configuration setters, statistics and test hooks are left out.

### `SessionlessObj`
The class on two nodes, one shown as provider, one as consumer. Provider: `localCache` with the latest
signal per key, `curChangeId` and the flag `advanceChangeId`, `lastAdvertisements`, and `kicked`,
the worker's pending alarm. Consumer: `rules` (a multimap: copies and id of each rule), `nextRulesId`,
and the `RemoteCache` record of the provider, with `armed` for the alarm at its next join time. Discovery is split where the code
releases its locks: `findingNames` is changed together with the rules, the blocking calls that follow are counted per name in `findCalls` and `cancelCalls`
and take effect on `discovering`, the names the node really looks for, in steps of their own (`FindAdvertisementByTransport`,
`CancelFindAdvertisementByTransport`), in any order. `lateCancels` is history: noted names whose discovery was last ended by a cancel.
The worker's step is split where it releases its locks around JoinSessionAsync (`AlarmTriggered`,
`AlarmResumes`); `HandleRangeRequest` is split at every send. `session` follows an
attempt from the join to the provider's LeaveSession, `air` holds advertised names on their way. `hist`
is history: which signal was given for which rule, which were given twice, which were skipped by a
retry, and whether a record was given up.

Atomic in the model: JoinSessionCB and DoSessionLost, which run in the local endpoint's dispatcher under its
reentrancy lock; the delivery of one signal to all endpoints; the unlock of `HandleRangeRequest` with the read of the signal it sends
(822-825, see Known limits); each single call about a name, with what the name service makes of it. A call to find a name succeeds (the code logs
a failure and does not retry). Expiry is a choice at each
look at a signal with a time to live, back-off times are left open, and retries are exhausted after `MaxRetries`.
An alarm stands for all alarms of one record: the code may leave further ones behind, which find nothing due.
A retry count may be raised by a worker that resumes after its attempt has ended; the model allows it, as the code does.
Left out: implicit rules (About announcements and `implements`), the legacy
rule, remote caches of version 0, peers whose protocol is older than 10, MDNS queries and responses, Init and Stop.

## 4. Runs

Bounds are named constants; each was chosen as the smallest at which every action and the races
named under the run happen, and enlarged where the five-minute budget allows.

| Run | Instance | Shows |
|---|---|---|
| `handoff` | 2 holders, 2 native threads, 2 payloads, 2 calls per holder | types, exactly once in order, no lost wake-up, holder set first, and refinement of `EventChannel!Spec` with its fairness |
| `timer_dispatcher` | 2 threads, 3 alarms, limit 2, 1 client, alarms due at once as the endpoint adds them (LocalTransport.cc:400) | removed alarms and removed listeners are quiet; the reentrancy lock is kept through the callback; at most once, in order; nothing accepted is dropped by stop and join; some thread is always awake for the first alarm |
| `timer_periodic` | 2 threads, 1 periodic alarm, 3 clock values, 2 starts | a due alarm is served |
| `reply_safety` | a blocking call of a receiver that is destroyed, a secure asynchronous call, dispatcher limit 1, two addresses, shutdown, early timeouts, 1 serial change | handler at most once; no callback after an error and context outlives handler, but for calls mistaken for a deleted one |
| `reply_live` | a blocking and an asynchronous call, no shutdown | both end; alarms have contexts |
| `reply_reuse` | two calls, two addresses, one dispatcher thread, no shutdown | a disagreement, below |
| `listener` | 3 joiners, 2 dispatcher threads, 2 blocking calls | own verdict; joined only if accepted; every joiner is answered unless JavaScript stays in a blocking call |
| `ardp_data` | a message of two fragments that may expire at either end, then one that may not, from A to B, three buffers, three mask words, sequence numbers that wrap between the two; data and acknowledgements lost, data duplicated, persist probes, a socket of A that blocks | types; the two ends agree on where the stream is; refinement of `MessageStream`; nothing after DisconnectCb, and nothing left unreported before it; no assertion of the code fails; lent buffers stay intact; the EACK mask announces exactly what is buffered (no word in the middle of the mask can be empty here) |
| `ardp_eack` | a message of six fragments, six buffers, three mask words of two bits; loss | a disagreement, below |
| `ardp_connect` | connect, accept or refuse, one message, probes, persist timer, Disconnect from both sides; loss in both directions, duplication towards B | neither takes the other for a broken peer; no half open connection stays; every accepted message is reported |
| `sessionless` | 2 keys (one signal with a time to live), 2 pushes, 2 rules of 2 endpoints for any interface, calls about names in any order, 1 change (cancel, removal, repeated rule, request of another node), 1 fault, ids modulo 16 | types (ids wrap); what counts as received was given; nothing given twice; work never stranded; a record is in progress only under an attempt; when all is quiet everybody is served |
| `sl_none` | 2 keys, 2 pushes, a rule for one interface and one for any, 1 removal, 1 fault, no retries | a disagreement, below |

Two threads are enough for every hand-over of the timer: the role goes from one to another, and a
third only adds a further thread in a callback. In `timer_dispatcher` every alarm is due at once and the
timer is started once. Alarms of a later time, passing time and
restarts happen in `timer_periodic`, and the theorems about `Timer` hold for any of them. Deadlock
checking is off everywhere, because bounded clients simply come to rest.

In the passing ARDP runs one datagram at a time is on its way in each direction, so that none overtakes another (in `ardp_eack`
three may be on their way to B). Three buffers, with masks of
one bit per word, are enough for a full window, for a fragment that arrives before one that was lost, for a mask of several words and for a shift across words. In all of them the number of buffers divides the
sequence space, which the real one does not (see below). That datagrams overtake each other does not fit into `ardp_data`, and `NeverInvalid` of `ardp_connect` fails with it.
The theorems of section 5 have loss, duplication and reordering together, for messages without a time to live; so a late datagram of a message that has expired is
covered by neither.
The socket of A in `ardp_data` may block at any send and becomes writable again at any later moment.

In `reply_safety` two calls share two addresses, so that the context of the second may get the address of the first while the alarm
of the first is with the timer: `mistaken` calls happen, and the properties except these calls alone.

In `sessionless` ids start at 0 with the received id at the largest value, as in the code, so that the wrap is
part of every run. What liveness would say is stated by the invariant `QuietMeansServed`: everything
that moves by itself (an alarm, a name in the air, an attempt) ends unless it is renewed, so every
run without further calls or faults comes to a quiet state; a temporal formula over this state space is out of reach.
The exceptions that `CaughtUp`, `AtMostOnce` and `QuietMeansServed` make are behaviours of the code that do happen in the run.

### Disagreements between the code and its comments

* `sl_none`: the consumer has received something; an endpoint adds a rule and removes it again while
  another attempt runs. Its id stays newer than `appliedRulesId`, no live rule has it, and `PendingWork` says NONE although
  the provider advertises newer signals that an older rule asks for. They are fetched only when another matching
  rule is added. SessionlessObj.h:602 says of NONE "No work, we have received all signals and applied all the rules."

* `ardp_eack`: `ShiftRcvMsk` leaves the turn of its loop for an empty word of the EACK mask, and with it the refresh of the word
  before in `htnMask` (ArdpProtocol.cc:1983, 1994). With three words, as for the configured 93 buffers, an empty word in
  the middle leaves a header that announces the word before it unshifted. The sender cancels the retransmission of a
  segment that was lost, and nothing sets its timer again: only `SendData` does (1689-1695). ArdpProtocol.cc:154 calls the
  copy in the header the "mask in network order"; 1930 speaks of cancelling the timers "on EACKed segments".
  The theorem `CopyExact` says exactly when the copy is right, and `ArdpEackExact` that with up to 64 buffers (two words) it always is.

* `reply_reuse`: the timer thread has taken the alarm of a call when the call is given up; its context is deleted, and the next call's
  context gets the same address. `AlarmTriggered` searches `replyMap` for the address (LocalTransport.cc:887), finds the new context, and
  answers the new call with `org.alljoyn.Bus.Timeout` although its own timeout has not passed. LocalTransport.cc:894 expects the search to fail here: "If an entry
  for the ReplyContext is not found, it might have been deleted due to a MethodReply."; 878 says the handler is for "method calls that have not
  received a response within the timeout period."

### Known limits

What the passing runs and the theorems assume, and what the code does without it.

Binding and local endpoint:

* Found and lost names travel through two uv handles, whose order libuv does not promise: JavaScript may hear of
  a loss before the find (BusListenerImpl.cc:14; BusListener.h:74 speaks of "an advertisement previously reported").
* `RemoveAlarmsWithListener` waits for the callback of a periodic alarm; the timer thread clears `currentAlarm` and adds
  the alarm again in one critical section (Timer.cc:802-810), and the waiter returns. `RemovedIsQuiet` is therefore checked without periodic alarms.
* A timeout is reported under a serial number read before the lock was released (LocalTransport.cc:898); the delayed push of a
  secure call may take a new one meanwhile, and a blocking call then waits forever. Needs a timeout that passes during the push:
  `EveryCallEnds` is checked with `EarlyTimeout = FALSE`.
* `PauseReplyHandlerTimeout` waits under `replyMapLock` (LocalTransport.cc:785) for a callback that needs the lock (883).
  `EveryCallEnds` is checked without secure calls that pause.
* JavaScript in a blocking call and a dispatcher thread in AcceptSessionJoiner (SessionPortListenerImpl.cc:79) wait for each other:
  the reply and the timeout of the call are queued behind the joiner. `EveryJoinerAnswered` excepts it.
* `RemovedIsQuiet` needs a timer with expireOnExit, as both timers of the endpoint are. Otherwise
  `RemoveAlarm(alarm, true)` returns after `Stop` while the callback still runs (Timer.cc:318).
* A client that waits in AddAlarm is woken by a served alarm or by Stop, not by RemoveAlarm
  making room (Timer.cc:333), so nothing is claimed of the end of that wait.
* `EveryCallEnds` needs `MayStop = FALSE`: a reply or timeout that is in the dispatcher when `running` becomes
  false is discarded (LocalTransport.cc:465).
* A reply handler may run on a receiver whose `UnregisterAllHandlers` has returned (LocalTransport.cc:1124):
  `ContextOutlivesHandler` speaks of the heap context, not of the receiver.
* A call whose context is mistaken for a deleted one (`reply_reuse`) is excepted in `NoCallbackAfterError`, `ContextOutlivesHandler` and `AlarmHasContext`:
  its handler may run on the timer's account while `RegisterReplyHandler` has not set its alarm yet; AddAlarm may then find the timer
  stopped, the caller is told of an error (741) and a blocking caller frees what the handler uses; or the alarm is set for a context already deleted.
  All other calls keep the properties.

ARDP:

* Buffers are found by sequence number modulo the number of buffers (ArdpProtocol.cc:1587, 2298). The configured 93
  does not divide 2^32, so across the wrap two segments of one window fall on the same buffer. `BuffersDistinct` says when they do not; the theorems about a
  connection assume in `Fits` that it carries no such window.
* A segment that was overtaken by others may be out of the window and no duplicate of a kept one; the receiver disconnects with
  ER_ARDP_INVALID_RESPONSE (2779-2783).
* The status of the SYN-ACK's send is not looked at (3009): if the socket blocks, the half open record has no timer.
* A late acknowledgement moves `snd.LCS` back; the next one repairs it. An acknowledgement that was overtaken by a newer one can
  reach two assertions in this way (`ArdpOnlyLateAcks`): `AssertionsHold` is checked with one datagram on its way to A.
* A probe that meets a blocked socket is not counted (1229-1232), so a jammed socket also stops the detection of a dead peer.
* An error of the socket at a later fragment of a message leaves `pending` behind the buffers in use (644).
* `ConnectCb` may be called twice when the acknowledgement of the SYN-ACK cannot be sent.

Sessionless signals:

* A signal routed by a failed try is skipped by the retry for every rule, also for one added in between: it misses the signal
  (`hist.missed`, SessionlessObj.cc:441).
* A successful attempt clears `routedMessages` (706). If it applied new rules only, a signal that a failed try had routed before is
  fetched and given again (`hist.forgotten`).
* After the last retry the record is erased (721, 1039, 1359); the consumer hears of the provider again only with its next advertisement (`hist.gaveUp`).
* `UpdateAdvertisements` takes the plain maximum of change ids (1188), which is wrong for a cache on both sides of the wrap.
* `CancelFindAdvertisedNames` clears `findingNames`, releases its locks (1322) and cancels by blocking calls. A rule added in between
  notes and finds the names again, and the late cancel ends that discovery: the live rule hears of no new advertisement until the names are noted again (`lateCancels`).
  `QuietMeansServed` excepts such names, and no others.
* `HandleRangeRequest` releases the locks (822-823) before it reads the signal through its iterator (825). A PushMessage of the same key in
  between is sent instead although its id is outside the range asked for; it does not count as received and is given again by the next
  attempt, without any failed try: `AtMostOnce` fails with this. A cancel in between leaves the iterator dangling. The model keeps both out by reading the signal before the unlock.
* `AlarmTriggered` writes through a reference to a record that may be gone (944); the model takes that as a choice.

### Fairness
Weak fairness for every thread that is inside a call and has something to do: threads are scheduled, locks are
handed on, application callbacks return. Strong fairness where a thread competes again and again for one
resource that is free infinitely often: the loop for a pending handle (libuv visits all of them in a turn), the reply timer for
a due alarm among others. In `ardp_connect`: the socket is read until it is empty (which also bounds how long the network
keeps a datagram), the connect, probe and disconnect timers are handled when due, a data timer gives up after
`totalDataRetryTimeout`, and the upper layer gives its buffers back; nothing forces a message through. Nobody is ever obliged to make a call, to answer, to ask to join, to remove, or to
stop; a Stop that has begun goes on. Time passes (`Tick`, `TimeoutForwarded`, `AlarmFires`).

## 5. Proofs

`AsyncQueueProofs` (for any holders, threads, payloads and `MaxCalls`):
`IInv` is `TypeOK`, `ExactlyOnceInOrder`, `NoLostWakeup` and two links that make it inductive: a thread past
`SetData`, or a pending or running handle, implies that the holder is stored; the local queue is empty
unless the loop has taken one. From it follow `TypeCorrect`, `InOrderDelivery`, `WakeupNeverLost`,
`HolderAlwaysSet`, and, step by step, `ImplementsChannel`: `Emplace` is `Post`, `CallJs` is
`Deliver`, everything else stutters (`TakeQueue` moves elements inside the mapped `inflight`).

`LocalEndpointProofs` (any calls, addresses, threads and limits) has four layers, each resting on the one before:

1. `ReplyInv`, without any assumption about addresses: an entry in the map has never been handled, and a handler
   that runs belongs to a call that has left the map and was counted once. Hence `HandlerCalledOnce`.
   The point is that `RemoveReplyHandler` is the only way to a handler, and that a call is registered once.
2. `FreshInv`: living contexts have different addresses (that is all the allocator gives), and nothing refers to a call whose
   `RegisterReplyHandler` has not returned (its own alarm is not set, nobody answers it), but a timeout that took its context for a deleted one.
3. `ErrorInv`: `status = "error"` is final, such a call is in nobody's hands, and the heap
   context of a blocking call is live as long as an entry or a running handler can reach it. The failing AddAlarm, which
   withdraws without looking, needs layer 2: until its own alarm is set nobody can have reported
   the call unless it is in `mistaken`. Hence `ErrorMeansNoCallback` and `ContextSafe`.
4. `AlarmInv`: an alarm in the reply timer and the context it points to come and go together. Hence `AlarmPointsToContext`.

No layer assumes that addresses are fresh; the calls in `mistaken` are excepted one by one, not the behaviours they occur in.
The types (`TypeCorrect`) come last.

`TimerProofs` (any threads, alarms, clients, limits, clock bounds and restarts): five layers.

1. `BaseInv`: types; ids are given out one after the other; a thread has a `topAlarm`, a `currentAlarm`, the lock, exactly
   where `Run` and `ThreadExit` work with them. Hence `TypeCorrect` and `LockCorrect`.
2. `PlaceInv`: an alarm is in one place at a time, the set, an AddAlarm that waits for room, or one thread's
   `currentAlarm`. Two threads may have picked the same `topAlarm`; the second look-up in `Serve` decides. `CallInv` adds that a
   one-shot alarm that may still be called was not called before. Hence `CallsCorrect`.
3. `RemoveInv`: the wait loops of `RemoveAlarm` and `RemoveAlarmsWithListener` go through the threads by index, and
   what they have left behind stays quiet: there is a clause for the threads below the index reached. Hence `RemovalCorrect`,
   for `ExpireOnExit` and `Periodic = {}`; without these it does not hold (see Known limits).
4. `RoleInv`, `SleepInv`, `DrainInv`: while the timer starts or runs, the controller role is held or there is a thread about to
   take it; a sleeping controller sleeps no longer than until the first alarm, or has been alerted; a stopped timer that
   expires its alarms has a thread left to do so. Hence `NoStranded` and `DrainedCorrect`.
5. `OrderInv`, for `Periodic = {}` (a periodic alarm is called under one id again and again): once an alarm is the first of
   the set, everything added before it that precedes it has left the set for good. Hence `DispatchCorrect`.

`SessionPortListenerImplProofs` (any joiners, workers and blocking calls): `FrameInv` (what JavaScript is in, two levels deep at
most), `HandInv` (the one holder belongs to the one worker that has the reentrancy lock), `AnswerInv` and `JoinInv` (a joiner is in
one place on its way). All of it is one inductive invariant. Hence `VerdictCorrect` and `JoinedCorrect`.

`SessionlessObjProofs` (any keys, rules, bounds and width of the ids). Every invariant of the run `sessionless` is a theorem.

1. `TypeOK` and `AttemptInv` are inductive only together: the handlers of a session read the work in the record, which is
   there because a session is an attempt of that record. Hence `AttemptCorrect`.
2. `WorkScheduled` on top of them (`ScheduleCorrect`). The critical place is the worker's unlocked JoinSessionAsync.
3. `DeliveryInv`, under `NoWrap`: what is counted has been issued (`CounterInv`); an attempt either
   applies new rules to the signals received so far or requests new signals for all rules, none newer than what
   it will count (`WorkInv`); the provider's id has moved past a request that was served (`BehindInv`), so that a later signal is not
   taken for one of it; every signal asked for and passed by the provider is under way or was given (`ServedInv`); what counts
   as received and applied was given (`CountedGiven`). Hence `CaughtUpCorrect`.
4. `SerialInv`, `OnceInv`, under `NoWrap`: a delivered signal is marked in `routedMessages`, counted, or forgotten in the
   way that Known limits describes. Hence `AtMostOnceCorrect`.
5. `DiscoveryInv`: the provider advertises what it caches unless its alarm is pending (`Advertised`); the name of a live rule is noted (`Finding`);
   a noted name is looked for, or a call to find it is under way, or a late cancel has ended its discovery (`Search`);
   and what is advertised under a name that is looked for is in the air or known to the record (`Known`). With 2 and 3, hence `QuietCorrect`.

`NoWrap` says that fewer signals are pushed and fewer rules added than half the ids, less two: 2^31 in the code. It
is needed: `IS_GREATER` orders two ids only when they are less than half way round apart, and a cached signal may stay in the cache
while any number of others are sent. The first two points need no such assumption; `SessionlessAssumption` has `MaxRules < SeqSpace`, so
that a rule id is not given out twice.

`ArdpSendProofs` and `ArdpProofs` (any width of sequence numbers, number of buffers, width of a mask word, limits on retries, and capacity of the network).

First what needs no invariant: `RangeExact` and `OrderExact` say what
`IN_RANGE` and `SEQ32_LT` decide across the wrap. `BuffersDistinct`: two segments of one window fall on different buffers, for any number of them,
if the window does not lie across the wrap; across it, if the number of buffers divides the sequence space, which 93 does not do for 2^32.
`AddAnnounces`, `ShiftAnnounces`: `AddRcvMsk` and `ShiftRcvMsk` keep the host-order mask the set of offsets it stands for.
`CopyExact`: when the copy for the header equals it; this is the exact condition of the disagreement `ardp_eack`.

Then the invariant of a whole connection, `ArdpInv`, in terms of positions in the stream: `First(n, m)` is the position of the first fragment of message
`m`. `Types`; `Nodes` (the send ring holds the fragments from the first message not yet reported to `NXT`, the receive ring what lies between the
consumed position and the peer's `NXT`, and the two counters of one end are bounded by those of the other); `Nets` (a datagram on its
way says what was true of its sender once: counters it has passed since, fragments of the right message at the right position); `Record` and
`Phase` (which record there is, which states the two ends can be in together). That a handler preserves it is shown along the code:
`Good` is what is left true between the calls a handler makes, `Moves` what a call may have changed, and the loops of
`SendData`, `UpdateSndSegments` and `AdvanceRcvQueue`, written as functions of the number of turns, have loop invariants (`Sending` and others). Hence `ArdpTypeOK`,
`ArdpAgreement`, `ArdpHeldIntact`, `ArdpEackExact`, `ArdpOnlyLateAcks`, `ArdpQuietAfterDisconnect`, and `ArdpStreamSpec`: each step of ARDP is, in each direction, a step of `MessageStream` or a stutter.

They assume `Setting`: `Fits` (the messages of a node take less than half the sequence space; if its numbers wrap, the number of buffers divides the
space), `Reliable` (no message has a time to live), `NoSocketErrors` (the socket sends, loses or blocks) and `MaxRecords = 1` (one connection per node). `Fits` and `Reliable` are about the
upper layer and the length of a connection, the third is the known limit at 644. The layout of the stream is given to `Fits` as a witness, because
a sum over a sequence would have to be computed by induction. The instances of `ardp_connect` and `ardp_eack` satisfy `Setting`; that of `ardp_data` has a message that may expire.
The network of the theorems loses, duplicates, delays and reorders without bound, both ends may disconnect at any time, and any timer may fire at any time.

`MessageStreamProofs` (any finite sequence of messages): what `MessageStream!Spec` gives its users, in order and none twice, nothing
reliable skipped, success of a reliable message only after it was consumed (`StreamCorrect`), and a fate that is told once and final
(`FateIsFinal`). They hold of ARDP through `ArdpStreamSpec`, under its assumptions.

The invariants, the strengthenings among them, were checked with TLC on the instances of the runs before they were proved.

Only model-checked:

* liveness and the fairness part of `ChannelSpec`: `DueAlarmServed`, `EveryCallEnds`, `EveryJoinerAnswered`, `HalfOpenEnds`, `SendCompletes`.
  Liveness under fairness is out of the prover's reach;
* `AssertionsHold` and `NeverInvalid`, and everything about ARDP with messages that expire, with a socket that fails, or with
  a second connection after the first;
* the disagreements, which are single behaviours.

## 6. Not modelled
See the components with status `not_modelled` in `PROJECT.json`. Next in the plan: the remote endpoint, the UDP
transport on top of `Ardp`, `BusAttachment`, and the routing node's names and sessions. Most of the framework's lines are
data formats, cryptography, configuration, platform code, services and bindings for other languages, which are not
in it.
