----------------------- MODULE SessionPortListenerImpl -----------------------
(***************************************************************************)
(* SessionPortListenerImpl.cc with what it is used between: the dispatcher *)
(* of the local endpoint on one side, the JavaScript thread on the other.  *)
(* AcceptSessionJoiner is the one callback that needs an answer: the       *)
(* dispatcher thread leaves the joiner in acceptCallback, wakes the loop   *)
(* and waits on a condition variable for the verdict of the JavaScript     *)
(* function.  SessionJoined only hands its event over.                     *)
(*                                                                         *)
(* The dispatcher is used through what Timer.tla shows of it: messages are *)
(* started in order under the reentrancy lock, which the thread keeps      *)
(* until the callback returns (the binding never enables concurrent        *)
(* callbacks).  The JavaScript thread may make blocking bus calls, such as *)
(* JoinSession; LocalEndpoint.tla says how their replies come.             *)
(***************************************************************************)
EXTENDS Naturals, Sequences

CONSTANTS
  Joiner,        \* remote peers that ask to join, once each
  NoJoiner,
  Worker,        \* dispatcher threads
  NoWorker,
  MaxSyncCalls   \* bound: blocking bus calls of the JavaScript thread

ASSUME ListenerAssumption ==
  /\ NoJoiner \notin Joiner
  /\ NoWorker \notin Worker
  /\ MaxSyncCalls \in Nat

VARIABLES
  router,         \* per joiner: what the routing node knows of its request
  queue,          \* messages in the dispatcher
  reentrancyLock, \* holder of the dispatcher's reentrancy lock
  worker,         \* per dispatcher thread: the joiner it waits for in AcceptSessionJoiner
  holder,         \* acceptCallback: data, complete, rval
  datalock,       \* does the loop thread hold acceptCallback.datalock?
  acceptAsync,    \* accept_async is pending
  joinedAsync,    \* joined_async is pending
  joinedQueue,    \* joinedCallback.dataqueue
  js,             \* what the JavaScript thread does, innermost first
  local,          \* the queue moved by joined_callback
  calls,          \* blocking calls made so far
  replied,        \* did the router answer the latest one?
  timedOut,       \* did its timeout pass?
  verdict,        \* history: what the JavaScript function said of a joiner
  returned,       \* history: what AcceptSessionJoiner returned for it
  told            \* history: the joiners given to the joined function, in order

dispVars == <<queue, reentrancyLock, worker>>
holdVars == <<holder, datalock>>
loopVars == <<js, local, acceptAsync, joinedAsync, joinedQueue>>
callVars == <<calls, replied, timedOut>>
histVars == <<verdict, returned, told>>
vars == <<router, dispVars, holdVars, loopVars, callVars, histVars>>

Verdict == {"accept", "reject"}
Frame(what, j) == [at |-> what, joiner |-> j]

Init ==
  /\ router = [j \in Joiner |-> "none"]
  /\ queue = <<>>
  /\ reentrancyLock = NoWorker
  /\ worker = [w \in Worker |-> NoJoiner]
  /\ \E garbage \in Verdict : holder = [data |-> NoJoiner, complete |-> FALSE, rval |-> garbage]
  /\ datalock = FALSE
  /\ acceptAsync = FALSE
  /\ joinedAsync = FALSE
  /\ joinedQueue = <<>>
  /\ js = <<>>
  /\ local = <<>>
  /\ calls = 0
  /\ replied = FALSE
  /\ timedOut = FALSE
  /\ verdict = [j \in Joiner |-> "none"]
  /\ returned = [j \in Joiner |-> "none"]
  /\ told = <<>>

-----------------------------------------------------------------------------
(* The routing node and the dispatcher.                                    *)

\* A joiner's request reaches this node as an AcceptSession method call.
AskAccept(j) ==
  /\ router[j] = "none"
  /\ router' = [router EXCEPT ![j] = "asked"]
  /\ queue' = Append(queue, [kind |-> "AcceptSession", joiner |-> j])
  /\ UNCHANGED <<reentrancyLock, worker, holdVars, loopVars, callVars, histVars>>

\* The verdict was positive: the routing node sends SessionJoined.
SendJoined(j) ==
  /\ router[j] = "accept"
  /\ router' = [router EXCEPT ![j] = "joined"]
  /\ queue' = Append(queue, [kind |-> "SessionJoined", joiner |-> j])
  /\ UNCHANGED <<reentrancyLock, worker, holdVars, loopVars, callVars, histVars>>

\* Mutant: callbacks run concurrently.
NextMessageNow(w, kind) ==
  /\ worker[w] = NoJoiner
  /\ queue # <<>> /\ Head(queue).kind = kind
  /\ queue' = Tail(queue)

\* A free dispatcher thread takes the next message, under the reentrancy lock.
NextMessage(w, kind) ==
  /\ worker[w] = NoJoiner
  /\ reentrancyLock = NoWorker
  /\ queue # <<>> /\ Head(queue).kind = kind
  /\ queue' = Tail(queue)

\* Mutant: complete is not reset.
LeaveJoinerStale(j) == holder' = [holder EXCEPT !.data = j]

\* AcceptSessionJoiner leaves the joiner for the loop thread.
LeaveJoiner(j) == holder' = [holder EXCEPT !.data = j, !.complete = FALSE]

\* AcceptSession calls AcceptSessionJoiner: lock, fill the holder, wake the loop,
\* wait on the condition variable, which unlocks.
AcceptSessionJoiner(w) ==
  /\ NextMessage(w, "AcceptSession")
  /\ ~datalock
  /\ reentrancyLock' = w
  /\ worker' = [worker EXCEPT ![w] = Head(queue).joiner]
  /\ LeaveJoiner(Head(queue).joiner)
  /\ acceptAsync' = TRUE
  /\ UNCHANGED <<router, datalock, js, local, joinedAsync, joinedQueue, callVars, histVars>>

\* uv_cond_wait is back with the lock and complete is set (a wake-up without it
\* waits again): the verdict goes into the reply to AcceptSession.
AcceptReturns(w) ==
  LET j == worker[w] IN
  /\ j # NoJoiner
  /\ ~datalock
  /\ holder.complete
  /\ returned' = [returned EXCEPT ![j] = holder.rval]
  /\ router' = [router EXCEPT ![j] = holder.rval]
  /\ worker' = [worker EXCEPT ![w] = NoJoiner]
  /\ reentrancyLock' = IF reentrancyLock = w THEN NoWorker ELSE reentrancyLock
  /\ UNCHANGED <<queue, holdVars, loopVars, callVars, verdict, told>>

\* CallJoinedListeners calls SessionJoined: append, then wake the loop.
SessionJoined(w) ==
  /\ NextMessage(w, "SessionJoined")
  /\ joinedQueue' = Append(joinedQueue, Head(queue).joiner)
  /\ joinedAsync' = TRUE
  /\ UNCHANGED <<router, reentrancyLock, worker, holdVars, js, local, acceptAsync, callVars, histVars>>

InCall == js # <<>> /\ Head(js).at = "MethodCall"

\* HandleMethodReply for the answer to, or the timeout of, the nth blocking call:
\* the JavaScript thread goes on.  An answer that comes too late matches nothing.
HandleMethodReply(w) ==
  /\ NextMessage(w, "Reply")
  /\ js' = IF InCall /\ Head(queue).call = calls THEN Tail(js) ELSE js
  /\ UNCHANGED <<router, reentrancyLock, worker, holdVars, local, acceptAsync, joinedAsync, joinedQueue,
                 callVars, histVars>>

-----------------------------------------------------------------------------
(* The JavaScript thread.                                                  *)

\* libuv calls accept_callback.
WakeAccept ==
  /\ js = <<>>
  /\ acceptAsync
  /\ acceptAsync' = FALSE
  /\ js' = <<Frame("accept_callback", NoJoiner)>>
  /\ UNCHANGED <<router, dispVars, holdVars, local, joinedAsync, joinedQueue, callVars, histVars>>

\* accept_callback takes the lock and calls the JavaScript function with the lock held.
CallAccept ==
  /\ js = <<Frame("accept_callback", NoJoiner)>>
  /\ ~datalock
  /\ datalock' = TRUE
  /\ js' = <<Frame("accept", holder.data)>>
  /\ UNCHANGED <<router, dispVars, holder, local, acceptAsync, joinedAsync, joinedQueue, callVars, histVars>>

\* Mutant: the verdict is stored, complete is not.
AnswerIncomplete(v) == holder' = [holder EXCEPT !.rval = v]

\* Mutant: a JavaScript value that is no Boolean is stored as it is.
AnswerUnconverted(v) == holder' = [holder EXCEPT !.rval = "undefined", !.complete = TRUE]

\* rval = accept; complete = true; uv_cond_signal
Answer(v) == holder' = [holder EXCEPT !.rval = v, !.complete = TRUE]

\* The JavaScript function returns its verdict; the lock is released.
AcceptCallbackReturns(v) ==
  /\ js # <<>> /\ Head(js).at = "accept"
  /\ verdict' = [verdict EXCEPT ![Head(js).joiner] = v]
  /\ Answer(v)
  /\ datalock' = FALSE
  /\ js' = <<>>
  /\ UNCHANGED <<router, dispVars, local, acceptAsync, joinedAsync, joinedQueue, callVars, returned, told>>

\* libuv calls joined_callback, which moves the queue.
WakeJoined ==
  /\ js = <<>>
  /\ joinedAsync
  /\ joinedAsync' = FALSE
  /\ local' = joinedQueue
  /\ joinedQueue' = <<>>
  /\ js' = <<Frame("joined_callback", NoJoiner)>>
  /\ UNCHANGED <<router, dispVars, holdVars, acceptAsync, callVars, histVars>>

\* One call of the JavaScript function per element; then back to the loop.
CallJoined ==
  /\ js # <<>> /\ Head(js).at = "joined_callback"
  /\ IF local # <<>>
     THEN /\ told' = Append(told, Head(local))
          /\ local' = Tail(local)
          /\ UNCHANGED js
     ELSE /\ js' = <<>>
          /\ UNCHANGED <<told, local>>
  /\ UNCHANGED <<router, dispVars, holdVars, acceptAsync, joinedAsync, joinedQueue, callVars, verdict, returned>>

\* JavaScript, in a listener function or on its own, calls JoinSession, AdvertiseName
\* or another blocking method of the bus: MethodCall waits for its reply.
SyncCall ==
  /\ calls < MaxSyncCalls
  /\ js # <<>> => Head(js).at \in {"accept", "joined_callback"}
  /\ calls' = calls + 1
  /\ replied' = FALSE
  /\ timedOut' = FALSE
  /\ js' = <<Frame("MethodCall", NoJoiner)>> \o js
  /\ UNCHANGED <<router, dispVars, holdVars, local, acceptAsync, joinedAsync, joinedQueue, histVars>>

\* The answer of the routing node enters the dispatcher, as every message does.
ReplyArrives ==
  /\ calls > 0 /\ ~replied
  /\ replied' = TRUE
  /\ queue' = Append(queue, [kind |-> "Reply", call |-> calls])
  /\ UNCHANGED <<router, reentrancyLock, worker, holdVars, loopVars, calls, timedOut, histVars>>

\* The reply timer forwards the timeout via the dispatcher, too.
TimeoutForwarded ==
  /\ InCall /\ ~timedOut
  /\ timedOut' = TRUE
  /\ queue' = Append(queue, [kind |-> "Reply", call |-> calls])
  /\ UNCHANGED <<router, reentrancyLock, worker, holdVars, loopVars, calls, replied, histVars>>

-----------------------------------------------------------------------------
WorkerStep(w) == AcceptSessionJoiner(w) \/ AcceptReturns(w) \/ SessionJoined(w) \/ HandleMethodReply(w)
LoopStep == \/ WakeAccept \/ CallAccept \/ WakeJoined \/ CallJoined
            \/ \E v \in Verdict : AcceptCallbackReturns(v)

Next == \/ \E j \in Joiner : AskAccept(j) \/ SendJoined(j)
        \/ \E w \in Worker : WorkerStep(w)
        \/ LoopStep
        \/ SyncCall \/ ReplyArrives \/ TimeoutForwarded

SafeSpec == Init /\ [][Next]_vars

\* Dispatcher threads and the loop are scheduled, JavaScript functions return, time
\* passes and the routing node follows a verdict with its signal.  Nobody has to ask
\* to join, to make a call or to answer one.
Fairness ==
  /\ \A j \in Joiner : WF_vars(SendJoined(j))
  /\ WF_vars(\E w \in Worker : WorkerStep(w))
  /\ WF_vars(LoopStep) /\ SF_vars(WakeAccept) /\ SF_vars(WakeJoined)
  /\ WF_vars(TimeoutForwarded)

Spec == SafeSpec /\ Fairness

-----------------------------------------------------------------------------
Message == [kind : {"AcceptSession", "SessionJoined"}, joiner : Joiner] \union [kind : {"Reply"}, call : Nat]
Frames == [at : {"accept_callback", "accept", "joined_callback", "MethodCall"}, joiner : Joiner \union {NoJoiner}]

TypeOK ==
  /\ router \in [Joiner -> {"none", "asked", "joined"} \union Verdict]
  /\ queue \in Seq(Message)
  /\ reentrancyLock \in Worker \union {NoWorker}
  /\ worker \in [Worker -> Joiner \union {NoJoiner}]
  /\ holder \in [data : Joiner \union {NoJoiner}, complete : BOOLEAN, rval : Verdict]
  /\ datalock \in BOOLEAN /\ acceptAsync \in BOOLEAN /\ joinedAsync \in BOOLEAN
  /\ joinedQueue \in Seq(Joiner) /\ local \in Seq(Joiner) /\ told \in Seq(Joiner)
  /\ js \in Seq(Frames)
  /\ calls \in Nat /\ replied \in BOOLEAN /\ timedOut \in BOOLEAN
  /\ verdict \in [Joiner -> {"none"} \union Verdict]
  /\ returned \in [Joiner -> {"none"} \union Verdict]

\* One holder serves every joiner: what AcceptSessionJoiner returns for a joiner is what
\* the JavaScript function said of this joiner, never an earlier or another's verdict.
VerdictIsOwn == \A j \in Joiner : returned[j] # "none" => returned[j] = verdict[j]

\* The two handles are independent, yet JavaScript is told that a peer has joined only
\* after it has accepted that very peer, and once.
JoinedOnlyIfAccepted ==
  \A n \in DOMAIN told : /\ verdict[told[n]] = "accept"
                         /\ \A m \in DOMAIN told : told[m] = told[n] => m = n

\* Every request to join is answered, unless JavaScript stays in a blocking call forever.
EveryJoinerAnswered == \A j \in Joiner : []<>(router[j] # "asked") \/ <>[]InCall
=============================================================================
