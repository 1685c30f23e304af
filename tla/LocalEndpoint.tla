---------------------------- MODULE LocalEndpoint ----------------------------
(***************************************************************************)
(* Method calls through _LocalEndpoint (LocalTransport.cc) and             *)
(* ProxyBusObject (ProxyBusObject.cc): the map of reply handlers, the      *)
(* reply timer, the dispatcher that runs the handlers, the authentication  *)
(* that delays a secure call, and the shutdown of the endpoint.            *)
(*                                                                         *)
(* A call stands for the application thread that makes it.  The two timers *)
(* are used through what Timer.tla shows of them: dispatched messages are  *)
(* started in order, one at a time unless a handler enables reentrancy;    *)
(* RemoveAlarm(alarm, true) waits for the alarm's callback; a stopped timer*)
(* with expireOnExit calls what is left in it with ER_TIMER_EXITING.       *)
(* Everything under replyMapLock is one step; only PauseReplyHandlerTimeout*)
(* keeps the lock while it waits.                                          *)
(***************************************************************************)
EXTENDS Naturals, Sequences

CONSTANTS
  Call,          \* method calls, each with a reply handler
  NoCall,
  Sync,          \* the calls made with MethodCall; the others use MethodCallAsync
  Secure,        \* the calls whose destination must be authenticated first
  Doomed,        \* the calls of one receiver, which will be destroyed
  Addr,          \* heap addresses of ReplyContexts
  Worker,        \* dispatcher threads
  NoWorker,
  ReplyTimer,    \* the thread of replyTimer
  MaxAlarms,     \* maxAlarms of the dispatcher
  MayStop,       \* does the application stop the bus?
  EarlyTimeout,  \* may a timeout pass before the call has been handed to the router?
  MaxSerials     \* bound: new serial numbers per call, 0 if nothing else is sent meanwhile

ASSUME EndpointAssumption ==
  /\ NoCall \notin Call
  /\ Sync \subseteq Call /\ Secure \subseteq Call /\ Doomed \subseteq Call
  /\ Addr # {}
  /\ NoWorker \notin Worker /\ ReplyTimer \notin Worker
  /\ MaxAlarms \in Nat \ {0}
  /\ MayStop \in BOOLEAN /\ EarlyTimeout \in BOOLEAN
  /\ MaxSerials \in Nat

Handler == Worker \union {ReplyTimer}   \* the threads that may run a reply handler

VARIABLES
  phase,           \* how far _LocalEndpoint::Stop has come
  replyMap,        \* the calls with an entry in replyMap
  serial,          \* per call: how often its serial number was replaced
  addr,            \* per call: the address of its ReplyContext
  armed,           \* the calls whose alarm is pending in replyTimer
  timer,           \* what the thread of replyTimer does
  mapLock,         \* the call whose Pause holds replyMapLock while it waits
  queue,           \* messages in the dispatcher: replies and errors
  reentrancyLock,  \* holder of the dispatcher's reentrancy lock
  handling,        \* per thread: the call whose reply handler it runs
  pc,              \* per call: where its thread is
  status,          \* per call: what MethodCall or MethodCallAsync returned
  auth,            \* per secure call: where its authentication is
  remote,          \* per call: has the peer got it, has it answered?
  event,           \* the sync calls whose event is set
  heapCtx,         \* per sync call: its SyncReplyContext on the heap
  gone,            \* UnregisterAllHandlers has run for the receiver of Doomed
  handled,         \* history: how often the handler was called
  mistaken         \* history: the calls whose context was taken for one deleted before

callVars  == <<pc, status, remote, event, heapCtx>>
mapVars   == <<replyMap, serial, addr, mapLock>>
timerVars == <<armed, timer, mistaken>>
dispVars  == <<queue, reentrancyLock, handling, handled>>
vars == <<callVars, mapVars, timerVars, dispVars, phase, auth, gone>>

Idle == [at |-> "idle"]

Init ==
  /\ phase = "up"
  /\ replyMap = {}
  /\ serial = [c \in Call |-> 0]
  /\ addr = [c \in Call |-> CHOOSE x \in Addr : TRUE]
  /\ armed = {}
  /\ timer = Idle
  /\ mapLock = NoCall
  /\ queue = <<>>
  /\ reentrancyLock = NoWorker
  /\ handling = [h \in Handler |-> NoCall]
  /\ pc = [c \in Call |-> "none"]
  /\ status = [c \in Call |-> "none"]
  /\ auth = [c \in Call |-> "none"]
  /\ remote = [c \in Call |-> "none"]
  /\ event = {}
  /\ heapCtx = [c \in Call |-> "none"]
  /\ gone = FALSE
  /\ handled = [c \in Call |-> 0]
  /\ mistaken = {}

running      == phase = "up"
dispatcherUp == phase \in {"up", "notRunning"}
timerUp      == phase # "stopped"

MapFree == mapLock = NoCall

Handling(c) == \E h \in Handler : handling[h] = c

\* The ReplyContext of c has not been deleted.
Living(c) == c \in replyMap \/ Handling(c)

\* The heap: a new context gets an address that no living context has; one of a
\* context that was deleted may be given out again at once.
Allocate(c) ==
  \E x \in Addr : /\ \A d \in Call : addr[d] = x => ~Living(d)
                  /\ addr' = [addr EXCEPT ![c] = x]

-----------------------------------------------------------------------------
(* Callers: RegisterReplyHandler, then the router, then perhaps the wait.  *)

\* RegisterReplyHandler up to the insertion of the new ReplyContext.
RegisterReplyHandler(c) ==
  /\ pc[c] = "none"
  /\ c \in Doomed => ~gone
  /\ MapFree
  /\ \/ /\ running
        /\ Allocate(c)
        /\ replyMap' = replyMap \union {c}
        /\ heapCtx' = [heapCtx EXCEPT ![c] = IF c \in Sync THEN "live" ELSE @]
        /\ pc' = [pc EXCEPT ![c] = "alarm"]
        /\ UNCHANGED status
     \/ /\ ~running       \* ER_BUS_STOPPING
        /\ pc' = [pc EXCEPT ![c] = "done"]
        /\ status' = [status EXCEPT ![c] = "error"]
        /\ UNCHANGED <<addr, replyMap, heapCtx>>
  /\ UNCHANGED <<remote, event, serial, mapLock, timerVars, dispVars, phase, auth, gone>>

\* Mutant: the alarm survives the context it points to.
DeleteContextOnly(S) == UNCHANGED armed

\* ~ReplyContext: the alarm is removed, without waiting for its callback.
DeleteContexts(S) == armed' = armed \ S

\* The entry and its context go, the caller is told of the error, and MethodCall
\* deletes its SyncReplyContext.
Withdraw(c) ==
  /\ replyMap' = replyMap \ {c}
  /\ DeleteContexts({c})
  /\ status' = [status EXCEPT ![c] = "error"]
  /\ heapCtx' = [heapCtx EXCEPT ![c] = IF c \in Sync THEN "freed" ELSE @]

\* Mutant: the error is returned whether the entry was found or not.
UnregisterBlindly(c) == Withdraw(c)

\* UnregisterReplyHandler, and what its callers do with its answer.  An entry
\* that is no longer there has been, or is being, handled.
UnregisterReplyHandler(c) ==
  \/ c \in replyMap /\ Withdraw(c)
  \/ /\ c \notin replyMap
     /\ status' = [status EXCEPT ![c] = IF c \in Sync THEN "error" ELSE "OK"]
     /\ UNCHANGED <<replyMap, armed, heapCtx>>

\* RegisterReplyHandler: replyTimer.AddAlarm.  If the timer is stopped the call fails,
\* and nobody asks whether the entry was still there.
AddTimeout(c) ==
  /\ pc[c] = "alarm"
  /\ \/ /\ timerUp
        /\ armed' = armed \union {c}
        /\ pc' = [pc EXCEPT ![c] = "push"]
        /\ UNCHANGED <<replyMap, status, heapCtx>>
     \/ /\ ~timerUp /\ MapFree
        /\ Withdraw(c)
        /\ pc' = [pc EXCEPT ![c] = "done"]
  /\ UNCHANGED <<remote, event, serial, addr, mapLock, timer, mistaken, dispVars, phase, auth, gone>>

\* UpdateSerialNumber: a message that is no longer the latest gets a new serial
\* number, and the reply map follows.
UpdateSerialNumber(c) ==
  /\ MapFree
  /\ \/ UNCHANGED serial
     \/ serial[c] < MaxSerials /\ serial' = [serial EXCEPT ![c] = @ + 1]

\* The router takes the message, or fails; a secure call waits for authentication.
PushMessage(c) ==
  /\ pc[c] = "push"
  /\ UpdateSerialNumber(c)
  /\ \/ /\ pc' = [pc EXCEPT ![c] = IF c \in Sync THEN "wait" ELSE "done"]
        /\ status' = [status EXCEPT ![c] = IF c \in Sync THEN @ ELSE "OK"]
        /\ \/ /\ remote' = [remote EXCEPT ![c] = "sent"]
              /\ UNCHANGED auth
           \/ /\ c \in Secure
              /\ auth' = [auth EXCEPT ![c] = "queued"]
              /\ UNCHANGED remote
     \/ /\ pc' = [pc EXCEPT ![c] = "failed"]
        /\ UNCHANGED <<status, remote, auth>>
  /\ UNCHANGED <<event, heapCtx, replyMap, addr, mapLock, timerVars, dispVars, phase, gone>>

\* PushMessage failed, or the wait was interrupted: take the handler back.
GiveUp(c) ==
  /\ pc[c] = "failed"
  /\ MapFree
  /\ UnregisterReplyHandler(c)
  /\ pc' = [pc EXCEPT ![c] = "done"]
  /\ UNCHANGED <<remote, event, serial, addr, mapLock, timer, mistaken, dispVars, phase, auth, gone>>

\* Event::Wait(ctxt->event) returns ER_OK.
WaitReturns(c) ==
  /\ pc[c] = "wait"
  /\ c \in event
  /\ pc' = [pc EXCEPT ![c] = "done"]
  /\ status' = [status EXCEPT ![c] = "OK"]
  /\ UNCHANGED <<remote, event, heapCtx, mapVars, timerVars, dispVars, phase, auth, gone>>

\* The waiting thread is stopped: Event::Wait fails.
WaitInterrupted(c) ==
  /\ pc[c] = "wait"
  /\ pc' = [pc EXCEPT ![c] = "failed"]
  /\ UNCHANGED <<status, remote, event, heapCtx, mapVars, timerVars, dispVars, phase, auth, gone>>

\* UnregisterAllHandlers(receiver), from the destructor of the receiver.  Nobody
\* is in the middle of a call for it, except threads that wait for their reply.
UnregisterAllHandlers ==
  /\ ~gone
  /\ \A c \in Doomed : pc[c] \in {"none", "wait", "done"}
  /\ MapFree
  /\ gone' = TRUE
  /\ replyMap' = replyMap \ Doomed
  /\ DeleteContexts(Doomed \intersect replyMap)
  /\ UNCHANGED <<callVars, serial, addr, mapLock, timer, mistaken, dispVars, phase, auth>>

\* DestructComponents has alerted the thread with SYNC_METHOD_ALERTCODE_ABORT.
WaitAborted(c) ==
  /\ gone /\ c \in Doomed
  /\ pc[c] = "wait"
  /\ pc' = [pc EXCEPT ![c] = "done"]
  /\ status' = [status EXCEPT ![c] = "aborted"]
  /\ UNCHANGED <<remote, event, heapCtx, mapVars, timerVars, dispVars, phase, auth, gone>>

-----------------------------------------------------------------------------
(* Replies and timeouts.                                                   *)

\* Mutant: the message does not say which call it answers.
DispatchWithoutSerial(c, s) ==
  /\ Len(queue) < MaxAlarms
  /\ queue' = Append(queue, [call |-> c])

\* Dispatcher::DispatchMessage: AddAlarm waits while the dispatcher is full.
DispatchMessage(c, s) ==
  /\ Len(queue) < MaxAlarms
  /\ queue' = Append(queue, [call |-> c, serial |-> s])

\* _LocalEndpoint::PushMessage: refused once the endpoint is not running.
PushToEndpoint(c, s) == IF running THEN DispatchMessage(c, s) ELSE UNCHANGED queue

\* The peer answers, once, with the serial number it was sent.
Reply(c) ==
  /\ remote[c] = "sent"
  /\ remote' = [remote EXCEPT ![c] = "answered"]
  /\ PushToEndpoint(c, serial[c])
  /\ UNCHANGED <<pc, status, event, heapCtx, mapVars, timerVars, reentrancyLock, handling, handled,
                 phase, auth, gone>>

\* Mutant: the entry stays in the map.
FindReplyHandler(c, s) == c \in replyMap /\ s = serial[c] /\ UNCHANGED replyMap

\* RemoveReplyHandler: by serial number.
RemoveReplyHandler(c, s) == c \in replyMap /\ s = serial[c] /\ replyMap' = replyMap \ {c}

\* HandleMethodReply by thread h, up to the call of the reply handler.
HandleMethodReply(h, c, s) ==
  /\ MapFree
  /\ \/ /\ RemoveReplyHandler(c, s)
        /\ handling' = [handling EXCEPT ![h] = c]
        /\ handled' = [handled EXCEPT ![c] = @ + 1]
     \/ /\ ~(c \in replyMap /\ s = serial[c])       \* ER_BUS_UNMATCHED_REPLY_SERIAL
        /\ UNCHANGED <<replyMap, handling, handled>>

\* The handler returns and the context is deleted.  SyncReplyHandler has set the
\* event and deleted the SyncReplyContext.
HandlerReturns(h) ==
  LET c == handling[h] IN
  /\ c # NoCall
  /\ handling' = [handling EXCEPT ![h] = NoCall]
  /\ reentrancyLock' = IF reentrancyLock = h THEN NoWorker ELSE reentrancyLock
  /\ event' = IF c \in Sync THEN event \union {c} ELSE event
  /\ heapCtx' = [heapCtx EXCEPT ![c] = IF c \in Sync THEN "freed" ELSE @]
  /\ timer' = IF h = ReplyTimer THEN Idle ELSE timer
  /\ DeleteContexts({c})
  /\ UNCHANGED <<pc, status, remote, mapVars, mistaken, queue, handled, phase, auth, gone>>

\* A dispatcher thread takes the next message: Dispatcher::AlarmTriggered and
\* DoPushMessage.  Once the endpoint is not running the message is deleted.
Dispatch(w) ==
  /\ handling[w] = NoCall
  /\ reentrancyLock = NoWorker
  /\ queue # <<>>
  /\ queue' = Tail(queue)
  /\ \/ /\ running
        /\ HandleMethodReply(w, Head(queue).call, Head(queue).serial)
        /\ reentrancyLock' = IF handling'[w] # NoCall THEN w ELSE reentrancyLock
     \/ /\ ~running
        /\ UNCHANGED <<replyMap, handling, handled, reentrancyLock>>
  /\ UNCHANGED <<callVars, serial, addr, mapLock, timerVars, phase, auth, gone>>

\* The handler calls EnableConcurrentCallbacks.
EnableReentrancy(w) ==
  /\ reentrancyLock = w
  /\ reentrancyLock' = NoWorker
  /\ UNCHANGED <<callVars, mapVars, timerVars, queue, handling, handled, phase, auth, gone>>

\* May the alarm of c be triggered?  Any time, unless timeouts are assumed to be
\* longer than it takes to hand the call to the router.
TimeoutPossible(c) ==
  EarlyTimeout \/ (pc[c] # "push" /\ auth[c] \notin {"resume", "repush"})

\* replyTimer calls AlarmTriggered: due, or left over when the timer stops.
AlarmFires(c) ==
  /\ timer = Idle
  /\ c \in armed
  /\ timerUp => TimeoutPossible(c)
  /\ armed' = armed \ {c}
  /\ timer' = [at |-> "lookup", alarm |-> c, addr |-> addr[c]]
  /\ UNCHANGED <<callVars, mapVars, mistaken, dispVars, phase, auth, gone>>

\* AlarmTriggered looks in replyMap for a context at the address it was given.
LookupTimedOut ==
  /\ timer.at = "lookup"
  /\ MapFree
  /\ \/ \E d \in replyMap : /\ addr[d] = timer.addr
                            /\ timer' = [at |-> "dispatch", alarm |-> timer.alarm,
                                         call |-> d, serial |-> serial[d]]
                            /\ mistaken' = mistaken \union ({d} \ {timer.alarm})
     \/ /\ \A d \in replyMap : addr[d] # timer.addr
        /\ timer' = Idle
        /\ UNCHANGED mistaken
  /\ UNCHANGED <<callVars, mapVars, armed, dispVars, phase, auth, gone>>

\* Mutant: nothing is sent to the caller.
TimeoutNotReported ==
  /\ timer.at = "dispatch"
  /\ timer' = Idle
  /\ UNCHANGED <<callVars, mapVars, armed, mistaken, dispVars, phase, auth, gone>>

\* AlarmTriggered: the timeout is forwarded via the dispatcher; if that fails or
\* the endpoint is not running, the reply handler runs on this thread.
ReportTimeout ==
  /\ timer.at = "dispatch"
  /\ \/ /\ running
        /\ DispatchMessage(timer.call, timer.serial)
        /\ timer' = Idle
        /\ UNCHANGED <<replyMap, handling, handled>>
     \/ /\ ~running
        /\ HandleMethodReply(ReplyTimer, timer.call, timer.serial)
        /\ timer' = IF handling'[ReplyTimer] # NoCall
                     THEN [at |-> "handler", alarm |-> timer.alarm, call |-> timer.call,
                           serial |-> timer.serial]
                     ELSE Idle
        /\ UNCHANGED queue
  /\ UNCHANGED <<callVars, serial, addr, mapLock, armed, mistaken, reentrancyLock, phase, auth, gone>>

-----------------------------------------------------------------------------
(* A secure call waits for authentication: AllJoynPeerObj::AlarmTriggered. *)

\* The alarm is in progress: its callback is on the stack of the timer thread.
InProgress(c) == timer # Idle /\ timer.alarm = c

\* PauseReplyHandlerTimeout: RemoveAlarm, which waits for the callback of an
\* alarm in progress, under replyMapLock.
PauseReplyHandlerTimeout(c) ==
  /\ auth[c] = "queued"
  /\ MapFree
  /\ \/ /\ c \in replyMap /\ c \notin armed /\ InProgress(c)
        /\ mapLock' = c
        /\ auth' = [auth EXCEPT ![c] = "pausing"]
        /\ UNCHANGED armed
     \/ /\ ~(c \in replyMap /\ c \notin armed /\ InProgress(c))
        /\ armed' = IF c \in replyMap THEN armed \ {c} ELSE armed
        /\ auth' = [auth EXCEPT ![c] = "paused"]
        /\ UNCHANGED mapLock
  /\ UNCHANGED <<callVars, replyMap, serial, addr, timer, mistaken, dispVars, phase, gone>>

PauseEnds(c) ==
  /\ auth[c] = "pausing"
  /\ ~InProgress(c)
  /\ mapLock' = NoCall
  /\ auth' = [auth EXCEPT ![c] = "paused"]
  /\ UNCHANGED <<callVars, replyMap, serial, addr, timerVars, dispVars, phase, gone>>

\* AuthenticatePeer returns; a failure is an error reply to the caller.
AuthenticatePeer(c, ok) ==
  /\ auth[c] = "paused"
  /\ auth' = [auth EXCEPT ![c] = IF ok THEN "resume" ELSE "done"]
  /\ IF ok THEN UNCHANGED queue ELSE PushToEndpoint(c, serial[c])
  /\ UNCHANGED <<callVars, mapVars, timerVars, reentrancyLock, handling, handled, phase, gone>>

\* ResumeReplyHandlerTimeout: the alarm is added again, with its old time.
ResumeReplyHandlerTimeout(c) ==
  /\ auth[c] = "resume"
  /\ MapFree
  /\ auth' = [auth EXCEPT ![c] = "repush"]
  /\ armed' = IF c \in replyMap /\ timerUp THEN armed \union {c} ELSE armed
  /\ UNCHANGED <<callVars, mapVars, timer, mistaken, dispVars, phase, gone>>

\* The delayed message goes to the router; the status is not looked at.
PushDelayed(c) ==
  /\ auth[c] = "repush"
  /\ UpdateSerialNumber(c)
  /\ auth' = [auth EXCEPT ![c] = "done"]
  /\ remote' \in {remote, [remote EXCEPT ![c] = "sent"]}
  /\ UNCHANGED <<pc, status, event, heapCtx, replyMap, addr, mapLock, timerVars, dispVars, phase, gone>>

-----------------------------------------------------------------------------
\* _LocalEndpoint::Stop: not running, then the dispatcher, then the reply timer.
StopStep ==
  /\ MayStop
  /\ \/ phase = "up" /\ phase' = "notRunning"
     \/ phase = "notRunning" /\ phase' = "dispatcherStopped"
     \/ phase = "dispatcherStopped" /\ phase' = "stopped"
  /\ UNCHANGED <<callVars, mapVars, timerVars, dispVars, auth, gone>>

CallerStep(c) == \/ AddTimeout(c) \/ PushMessage(c) \/ GiveUp(c) \/ WaitReturns(c) \/ WaitAborted(c)
AuthStep(c) == \/ PauseReplyHandlerTimeout(c) \/ PauseEnds(c)
               \/ \E ok \in BOOLEAN : AuthenticatePeer(c, ok)
               \/ ResumeReplyHandlerTimeout(c) \/ PushDelayed(c)
TimerStep == (\E c \in Call : AlarmFires(c)) \/ LookupTimedOut \/ ReportTimeout

Next ==
  \/ \E c \in Call : \/ RegisterReplyHandler(c) \/ WaitInterrupted(c) \/ CallerStep(c)
                     \/ Reply(c) \/ AuthStep(c)
  \/ UnregisterAllHandlers
  \/ \E h \in Handler : HandlerReturns(h)
  \/ \E w \in Worker : Dispatch(w) \/ EnableReentrancy(w)
  \/ TimerStep
  \/ StopStep

SafeSpec == Init /\ [][Next]_vars

\* Threads inside a call are scheduled, time passes, handlers return, and an
\* authentication ends.  Nobody has to call, to answer, to destroy or to stop;
\* a Stop that has begun goes on.
Fairness ==
  /\ \A c \in Call : WF_vars(CallerStep(c)) /\ WF_vars(AuthStep(c)) /\ SF_vars(AlarmFires(c))
  /\ WF_vars(LookupTimedOut) /\ WF_vars(ReportTimeout)
  /\ \A h \in Handler : WF_vars(HandlerReturns(h))
  /\ WF_vars(\E w \in Worker : Dispatch(w))
  /\ WF_vars(phase # "up" /\ StopStep)

Spec == SafeSpec /\ Fairness

-----------------------------------------------------------------------------
Message == [call : Call, serial : Nat]
TimerState == [at : {"idle"}]
              \union [at : {"lookup"}, alarm : Call, addr : Addr]
              \union [at : {"dispatch", "handler"}, alarm : Call, call : Call, serial : Nat]

Phase  == {"up", "notRunning", "dispatcherStopped", "stopped"}
Pc     == {"none", "alarm", "push", "failed", "wait", "done"}
Status == {"none", "OK", "error", "aborted"}
Auth   == {"none", "queued", "pausing", "paused", "resume", "repush", "done"}
Remote == {"none", "sent", "answered"}
Heap   == {"none", "live", "freed"}

TypeOK ==
  /\ phase \in Phase
  /\ replyMap \subseteq Call /\ armed \subseteq Call /\ mistaken \subseteq Call
  /\ serial \in [Call -> Nat] /\ addr \in [Call -> Addr]
  /\ timer \in TimerState
  /\ mapLock \in Call \union {NoCall}
  /\ queue \in Seq(Message)
  /\ reentrancyLock \in Worker \union {NoWorker}
  /\ handling \in [Handler -> Call \union {NoCall}]
  /\ pc \in [Call -> Pc]
  /\ status \in [Call -> Status]
  /\ auth \in [Call -> Auth]
  /\ remote \in [Call -> Remote]
  /\ event \subseteq Sync
  /\ heapCtx \in [Call -> Heap]
  /\ gone \in BOOLEAN
  /\ handled \in [Call -> Nat]

\* A reply, a timeout, a failed authentication and the shutdown race for one call: its
\* handler is called at most once.
HandlerAtMostOnce == \A c \in Call : handled[c] <= 1

\* MethodCallAsync returned an error: the reply handler has not been called and never will
\* be, unless AlarmTriggered took the context of the call for one deleted before.
NoCallbackAfterError ==
  \A c \in Call \ Sync : status[c] = "error" /\ c \notin mistaken =>
                            handled[c] = 0 /\ c \notin replyMap

\* The SyncReplyContext is there whenever a handler that uses it runs, or still may run:
\* MethodCall and SyncReplyHandler never both delete it, whoever comes first.
ContextOutlivesHandler ==
  \A c \in Sync \ mistaken : Living(c) => heapCtx[c] = "live"

\* A pending alarm of replyTimer points to a ReplyContext that exists.
AlarmHasContext == \A c \in armed \ mistaken : Living(c)

\* Whether the peer answers or not, a thread in MethodCall comes back, and after
\* MethodCallAsync returned ER_OK the reply handler is called, unless it was unregistered.
EveryCallEnds ==
  /\ \A c \in Sync : (pc[c] = "wait") ~> (pc[c] = "done")
  /\ \A c \in Call \ Sync : (status[c] = "OK") ~> (handled[c] > 0 \/ (gone /\ c \in Doomed))

\* A call is reported as timed out only by its own timeout.
TimeoutIsOwn == timer.at = "dispatch" => timer.call = timer.alarm
=============================================================================
