------------------------ MODULE LocalEndpointProofs -------------------------
(***************************************************************************)
(* Proofs about the reply handlers of the local endpoint, for any set of   *)
(* calls, any number of dispatcher threads and any shutdown.  Four layers, *)
(* each an invariant proved with the help of the one before:               *)
(*                                                                         *)
(*   ReplyInv   the map alone decides who calls a handler;                 *)
(*   FreshInv   nothing refers to a call whose RegisterReplyHandler has    *)
(*              not returned, but a timeout that took its context for one  *)
(*              that was deleted before;                                   *)
(*   ErrorInv   what the caller knows agrees with what has happened;       *)
(*   AlarmInv   an alarm and the context it points to live together.       *)
(*                                                                         *)
(* The allocator gives an address out again as soon as it is free.  A call *)
(* whose context is mistaken for a deleted one is the only exception, and  *)
(* it is an exception for this call alone.  The types come last.           *)
(***************************************************************************)
EXTENDS LocalEndpoint, SequenceTheorems, TLAPS

USE EndpointAssumption

-----------------------------------------------------------------------------
(* Layer 1: the map, the handlers that run and how often each was called.  *)

replyVars == <<replyMap, handling, handled, pc>>

ReplyTypes ==
  /\ replyMap \subseteq Call
  /\ handling \in [Handler -> Call \union {NoCall}]
  /\ handled \in [Call -> Nat]
  /\ pc \in [Call -> Pc]

\* A handler that runs has left the map and has been counted, and runs on one thread.
HandlingInv ==
  /\ \A h \in Handler : handling[h] # NoCall => handling[h] \notin replyMap /\ handled[handling[h]] = 1
  /\ \A g, h \in Handler : handling[g] = handling[h] /\ handling[g] # NoCall => g = h

\* An entry of the map has not been handled, and a call that has not begun has no entry.
MapInv ==
  \A c \in Call : /\ c \in replyMap => handled[c] = 0
                  /\ pc[c] = "none" => c \notin replyMap /\ handled[c] = 0

ReplyInv == ReplyTypes /\ HandlingInv /\ MapInv /\ HandlerAtMostOnce

\* The endpoint starts with an empty reply map.
LEMMA InitReplyInv == Init => ReplyInv
<1> SUFFICES ASSUME Init PROVE ReplyInv
  OBVIOUS
<1>1. ReplyTypes
  BY DEF Init, ReplyTypes, Pc
<1>2. HandlingInv /\ MapInv /\ HandlerAtMostOnce
  BY DEF Init, HandlingInv, MapInv, HandlerAtMostOnce
<1> QED
  BY <1>1, <1>2 DEF ReplyInv

\* A step that touches none of the four variables.
LEMMA QuietStep ==
  ASSUME ReplyInv, UNCHANGED replyVars
  PROVE  ReplyInv'
BY DEF ReplyInv, replyVars, ReplyTypes, HandlingInv, MapInv, HandlerAtMostOnce

\* The thread of a call goes on.  Entries may leave the map, none comes.
LEMMA CallerGoesOn ==
  ASSUME ReplyInv, NEW c \in Call,
         pc[c] # "none",
         NEW p \in Pc \ {"none"}, pc' = [pc EXCEPT ![c] = p],
         replyMap' \subseteq replyMap,
         UNCHANGED <<handling, handled>>
  PROVE  ReplyInv'
<1>1. /\ \A d \in Call \ {c} : pc'[d] = pc[d]
      /\ pc'[c] # "none"
  BY DEF ReplyInv, ReplyTypes
<1>2. ReplyTypes'
  BY DEF ReplyInv, ReplyTypes
<1>3. HandlingInv' /\ HandlerAtMostOnce'
  BY DEF ReplyInv, HandlingInv, HandlerAtMostOnce
<1>4. MapInv'
  BY <1>1 DEF ReplyInv, MapInv
<1> QED
  BY <1>2, <1>3, <1>4 DEF ReplyInv

\* The caller takes its handler back, or learns that it is too late for that.
LEMMA UnregisterShrinks ==
  ASSUME NEW c \in Call, UnregisterReplyHandler(c) \/ Withdraw(c)
  PROVE  replyMap' \subseteq replyMap
BY DEF UnregisterReplyHandler, Withdraw

\* A thread, of the dispatcher or of the reply timer, looks for the handler and calls it.
LEMMA HandlerCalled ==
  ASSUME ReplyInv, NEW h \in Handler, NEW c, NEW s, HandleMethodReply(h, c, s), UNCHANGED pc
  PROVE  ReplyInv'
<1>1. CASE RemoveReplyHandler(c, s) /\ handling' = [handling EXCEPT ![h] = c]
           /\ handled' = [handled EXCEPT ![c] = handled[c] + 1]
  <2>1. /\ c \in Call /\ c \in replyMap
        /\ replyMap' = replyMap \ {c}
    BY <1>1 DEF RemoveReplyHandler, ReplyInv, ReplyTypes
  <2>2. handled[c] = 0 /\ \A g \in Handler : handling[g] # c
    BY <2>1 DEF ReplyInv, MapInv, HandlingInv, ReplyTypes
  <2>3. /\ handled' \in [Call -> Nat] /\ handling' \in [Handler -> Call \union {NoCall}]
        /\ handled'[c] = 1 /\ handling'[h] = c
        /\ \A d \in Call \ {c} : handled'[d] = handled[d]
        /\ \A g \in Handler \ {h} : handling'[g] = handling[g]
    BY <1>1, <2>1, <2>2 DEF ReplyInv, ReplyTypes
  <2>4. ReplyTypes'
    BY <2>1, <2>3 DEF ReplyInv, ReplyTypes
  <2>5. HandlingInv'
    BY <2>1, <2>2, <2>3 DEF ReplyInv, HandlingInv, ReplyTypes
  <2>6. MapInv'
    BY <2>1, <2>2, <2>3 DEF ReplyInv, MapInv
  <2>7. HandlerAtMostOnce'
    BY <2>3 DEF ReplyInv, HandlerAtMostOnce
  <2> QED
    BY <2>4, <2>5, <2>6, <2>7 DEF ReplyInv
<1>2. CASE UNCHANGED <<replyMap, handling, handled>>
  BY <1>2, QuietStep DEF replyVars
<1> QED
  BY <1>1, <1>2 DEF HandleMethodReply

\* A call enters the map before anything else can know of it.
LEMMA HandlerRegistered ==
  ASSUME ReplyInv, NEW c \in Call, RegisterReplyHandler(c)
  PROVE  ReplyInv'
<1>1. /\ pc[c] = "none" /\ handled[c] = 0
      /\ \A h \in Handler : handling[h] # c
  BY DEF RegisterReplyHandler, ReplyInv, MapInv, HandlingInv, ReplyTypes
<1>2. UNCHANGED <<handling, handled>>
  BY DEF RegisterReplyHandler, dispVars
<1>3. replyMap' \in {replyMap, replyMap \union {c}}
  BY DEF RegisterReplyHandler
<1>4. \E p \in {"alarm", "done"} : pc' = [pc EXCEPT ![c] = p]
  BY DEF RegisterReplyHandler
<1>5. /\ pc' \in [Call -> Pc] /\ pc'[c] # "none"
      /\ \A d \in Call \ {c} : pc'[d] = pc[d]
  BY <1>4 DEF ReplyInv, ReplyTypes, Pc
<1>6. ReplyTypes'
  BY <1>2, <1>3, <1>5 DEF ReplyInv, ReplyTypes
<1>7. HandlingInv' /\ HandlerAtMostOnce'
  BY <1>1, <1>2, <1>3 DEF ReplyInv, HandlingInv, HandlerAtMostOnce
<1>8. MapInv'
  BY <1>1, <1>2, <1>3, <1>5 DEF ReplyInv, MapInv
<1> QED
  BY <1>6, <1>7, <1>8 DEF ReplyInv

\* A reply handler returns.
LEMMA HandlerDone ==
  ASSUME ReplyInv, NEW h \in Handler, HandlerReturns(h)
  PROVE  ReplyInv'
<1>1. handling' = [handling EXCEPT ![h] = NoCall] /\ UNCHANGED <<replyMap, handled, pc>>
  BY DEF HandlerReturns, mapVars
<1>2. /\ handling' \in [Handler -> Call \union {NoCall}] /\ handling'[h] = NoCall
      /\ \A g \in Handler \ {h} : handling'[g] = handling[g]
  BY <1>1 DEF ReplyInv, ReplyTypes
<1>3. ReplyTypes'
  BY <1>1, <1>2 DEF ReplyInv, ReplyTypes
<1>4. HandlingInv'
  BY <1>1, <1>2 DEF ReplyInv, HandlingInv
<1>5. MapInv' /\ HandlerAtMostOnce'
  BY <1>1 DEF ReplyInv, MapInv, HandlerAtMostOnce
<1> QED
  BY <1>3, <1>4, <1>5 DEF ReplyInv

\* One step preserves the first layer.
LEMMA NextReplyInv == ReplyInv /\ [Next]_vars => ReplyInv'
<1> SUFFICES ASSUME ReplyInv, [Next]_vars PROVE ReplyInv'
  OBVIOUS
<1> USE DEF callVars, mapVars, timerVars, dispVars
<1>0. {"push", "wait", "done", "failed"} \subseteq Pc \ {"none"}
  BY DEF Pc
<1>1. ASSUME NEW c \in Call, CallerStep(c) \/ WaitInterrupted(c) PROVE ReplyInv'
  <2>1. pc[c] # "none" /\ UNCHANGED <<handling, handled>>
    BY <1>1 DEF CallerStep, AddTimeout, PushMessage, GiveUp, WaitReturns, WaitAborted, WaitInterrupted
  <2>2. \E p \in {"push", "wait", "done", "failed"} : pc' = [pc EXCEPT ![c] = p]
    BY <1>1 DEF CallerStep, AddTimeout, PushMessage, GiveUp, WaitReturns, WaitAborted, WaitInterrupted
  <2>3. replyMap' \subseteq replyMap
    BY <1>1, UnregisterShrinks
    DEF CallerStep, AddTimeout, PushMessage, GiveUp, WaitReturns, WaitAborted, WaitInterrupted
  <2>4. PICK p \in Pc \ {"none"} : pc' = [pc EXCEPT ![c] = p]
    BY <1>0, <2>2
  <2> QED
    BY <2>1, <2>3, <2>4, CallerGoesOn
<1>2. ASSUME NEW c \in Call, Reply(c) \/ AuthStep(c) PROVE ReplyInv'
  <2>1. CASE Reply(c)
    BY <2>1, QuietStep DEF Reply, replyVars
  <2>2. CASE PauseReplyHandlerTimeout(c) \/ PauseEnds(c)
    BY <2>2, QuietStep DEF PauseReplyHandlerTimeout, PauseEnds, replyVars
  <2>3. CASE \E ok \in BOOLEAN : AuthenticatePeer(c, ok)
    BY <2>3, QuietStep DEF AuthenticatePeer, replyVars
  <2>4. CASE ResumeReplyHandlerTimeout(c) \/ PushDelayed(c)
    BY <2>4, QuietStep DEF ResumeReplyHandlerTimeout, PushDelayed, replyVars
  <2> QED
    BY <1>2, <2>1, <2>2, <2>3, <2>4 DEF AuthStep
<1>3. ASSUME NEW w \in Worker, Dispatch(w) PROVE ReplyInv'
  <2>1. w \in Handler
    BY DEF Handler
  <2>2. CASE running
    BY <1>3, <2>1, <2>2, HandlerCalled DEF Dispatch
  <2>3. CASE ~running
    BY <1>3, <2>3, QuietStep DEF Dispatch, replyVars
  <2> QED
    BY <2>2, <2>3
<1>4. ASSUME NEW w \in Worker, EnableReentrancy(w) PROVE ReplyInv'
  BY <1>4, QuietStep DEF EnableReentrancy, replyVars
<1>5. ASSUME TimerStep PROVE ReplyInv'
  <2>1. CASE \E c \in Call : AlarmFires(c)
    BY <2>1, QuietStep DEF AlarmFires, replyVars
  <2>2. CASE LookupTimedOut
    BY <2>2, QuietStep DEF LookupTimedOut, replyVars
  <2>3. CASE ReportTimeout
    <3>1. ReplyTimer \in Handler /\ UNCHANGED pc
      BY <2>3 DEF Handler, ReportTimeout
    <3>2. CASE running
      BY <2>3, <3>1, <3>2, QuietStep DEF ReportTimeout, replyVars
    <3>3. CASE ~running
      BY <2>3, <3>1, <3>3, HandlerCalled DEF ReportTimeout
    <3> QED
      BY <3>2, <3>3
  <2> QED
    BY <1>5, <2>1, <2>2, <2>3 DEF TimerStep
<1>6. CASE UnregisterAllHandlers
  <2>1. replyMap' = replyMap \ Doomed /\ UNCHANGED <<handling, handled, pc>>
    BY <1>6 DEF UnregisterAllHandlers
  <2>2. ReplyTypes' /\ HandlingInv' /\ MapInv' /\ HandlerAtMostOnce'
    BY <2>1 DEF ReplyInv, ReplyTypes, HandlingInv, MapInv, HandlerAtMostOnce
  <2> QED
    BY <2>2 DEF ReplyInv
<1>7. CASE StopStep
  BY <1>7, QuietStep DEF StopStep, replyVars
<1>8. CASE UNCHANGED vars
  BY <1>8, QuietStep DEF vars, replyVars
<1> QED
  BY <1>1, <1>2, <1>3, <1>4, <1>5, <1>6, <1>7, <1>8, HandlerRegistered, HandlerDone DEF Next

\* The first layer holds throughout.
LEMMA ReplyInvariant == SafeSpec => []ReplyInv
  BY InitReplyInv, NextReplyInv, PTL DEF SafeSpec

\* For any calls, dispatcher threads and timers, whether the bus is stopped or not and
\* whatever addresses the allocator gives out: a reply, an error, a timeout and the shutdown
\* together call the handler of a call at most once.
THEOREM HandlerCalledOnce == SafeSpec => []HandlerAtMostOnce
<1>1. ReplyInv => HandlerAtMostOnce
  BY DEF ReplyInv
<1> QED
  BY <1>1, ReplyInvariant, PTL

-----------------------------------------------------------------------------
(* Layer 2: a call is known to nobody before RegisterReplyHandler returns. *)

freshVars == <<armed, mistaken, serial, addr, queue, remote, auth, timer, pc, replyMap>>

Queued(c) == \E n \in DOMAIN queue : queue[n].call = c

FreshTypes ==
  /\ armed \subseteq Call /\ mistaken \subseteq Call
  /\ serial \in [Call -> Nat]
  /\ addr \in [Call -> Addr]
  /\ queue \in Seq(Message)
  /\ remote \in [Call -> Remote]
  /\ auth \in [Call -> Auth]

\* RegisterReplyHandler has returned ER_OK, or the whole call has ended.
Returned(c) == pc[c] \notin {"none", "alarm"}

\* The timer's thread serves the alarms of calls that are registered, and reports the
\* timeout of such a call or of one that it mistook for another.
TimerInv ==
  \/ timer = Idle
  \/ timer.at = "lookup" /\ timer.alarm \in Call /\ Returned(timer.alarm)
  \/ /\ timer.at \in {"dispatch", "handler"} /\ timer.call \in Call /\ timer.serial \in Nat
     /\ Returned(timer.call) \/ timer.call \in mistaken

\* No message, alarm or authentication is about a call that is not registered yet.
Unreferenced ==
  \A c \in Call : ~Returned(c) =>
     /\ remote[c] = "none" /\ auth[c] = "none" /\ c \notin armed
     /\ Queued(c) => c \in mistaken
     /\ pc[c] = "none" => c \notin mistaken

\* The entry is there until the alarm has been added.
EntryStays == \A c \in Call \ mistaken : pc[c] = "alarm" => c \in replyMap

FreshInv == FreshTypes /\ TimerInv /\ Unreferenced /\ EntryStays

\* Nothing is known of any call at first.
LEMMA InitFreshInv == Init => FreshInv
<1> SUFFICES ASSUME Init PROVE FreshInv
  OBVIOUS
<1>1. (CHOOSE x \in Addr : TRUE) \in Addr
  OBVIOUS
<1>2. FreshTypes
  <2>1. <<>> \in Seq(Message)
    BY EmptySeq
  <2> QED
    BY <1>1, <2>1 DEF Init, FreshTypes, Remote, Auth
<1>3. Unreferenced /\ EntryStays
  BY DEF Init, Unreferenced, EntryStays, Queued
<1>4. TimerInv
  BY DEF Init, TimerInv
<1> QED
  BY <1>2, <1>3, <1>4 DEF FreshInv

\* A message is added to the dispatcher.
LEMMA MessageAdded ==
  ASSUME FreshTypes, NEW c \in Call, NEW s \in Nat, DispatchMessage(c, s)
  PROVE  /\ queue' \in Seq(Message)
         /\ \A d : Queued(d)' => Queued(d) \/ d = c
<1> DEFINE m == [call |-> c, serial |-> s]
<1>1. m \in Message /\ queue \in Seq(Message) /\ queue' = Append(queue, m)
  BY DEF Message, FreshTypes, DispatchMessage
<1>2. m.call = c
  OBVIOUS
<1> HIDE DEF m
<1>3. /\ queue' \in Seq(Message) /\ Len(queue') = Len(queue) + 1
      /\ \A i \in 1 .. Len(queue) : queue'[i] = queue[i]
      /\ queue'[Len(queue) + 1] = m
  BY <1>1, AppendProperties
<1>4. Len(queue) \in Nat /\ DOMAIN queue = 1 .. Len(queue) /\ DOMAIN queue' = 1 .. Len(queue')
  BY <1>1, <1>3, LenProperties
<1> QED
  BY <1>2, <1>3, <1>4 DEF Queued

\* The first message is taken out of the dispatcher.
LEMMA MessageTaken ==
  ASSUME FreshTypes, queue # <<>>, queue' = Tail(queue)
  PROVE  /\ queue' \in Seq(Message)
         /\ \A d : Queued(d)' => Queued(d)
         /\ Queued(Head(queue).call)
<1>1. queue \in Seq(Message)
  BY DEF FreshTypes
<1>2. /\ queue' \in Seq(Message) /\ Len(queue') = Len(queue) - 1
      /\ \A i \in 1 .. Len(queue') : queue'[i] = queue[i + 1]
  BY <1>1, HeadTailProperties
<1>3. Len(queue) \in Nat /\ Len(queue) # 0 /\ DOMAIN queue = 1 .. Len(queue)
      /\ DOMAIN queue' = 1 .. Len(queue') /\ Head(queue) = queue[1]
  BY <1>1, <1>2, LenProperties, EmptySeq
<1> QED
  BY <1>2, <1>3 DEF Queued

\* A step after which the calls that are not registered are as unknown as before.
LEMMA GoodStep ==
  ASSUME ReplyInv, FreshInv, mistaken \subseteq mistaken',
         \A d \in Call : ~Returned(d)' =>
            /\ pc'[d] = pc[d] /\ remote'[d] = remote[d] /\ auth'[d] = auth[d]
            /\ d \in armed' => d \in armed
            /\ d \in mistaken' => d \in mistaken \/ d \in replyMap
            /\ Queued(d)' => Queued(d) \/ d \in mistaken
            /\ d \in replyMap => d \in replyMap' \/ d \in mistaken
  PROVE  Unreferenced' /\ EntryStays'
<1>1. ASSUME NEW d \in Call, ~Returned(d)'
      PROVE  /\ remote'[d] = "none" /\ auth'[d] = "none" /\ d \notin armed'
             /\ Queued(d)' => d \in mistaken'
             /\ pc'[d] = "none" => d \notin mistaken'
  <2>1. ~Returned(d)
    BY <1>1 DEF Returned
  <2>2. pc[d] = "none" => d \notin replyMap
    BY DEF ReplyInv, MapInv
  <2> QED
    BY <1>1, <2>1, <2>2 DEF FreshInv, Unreferenced
<1>2. Unreferenced'
  BY <1>1 DEF Unreferenced
<1>3. EntryStays'
  BY DEF FreshInv, EntryStays, Returned
<1> QED
  BY <1>2, <1>3

\* The timer's thread is not affected by what others do.
LEMMA TimerStays ==
  ASSUME FreshInv, UNCHANGED timer, mistaken \subseteq mistaken',
         \A d \in Call : Returned(d) => Returned(d)'
  PROVE  TimerInv'
<1>1. CASE timer = Idle
  BY <1>1 DEF TimerInv
<1>2. CASE timer.at = "lookup" /\ timer.alarm \in Call /\ Returned(timer.alarm)
  <2>1. Returned(timer.alarm)'
    BY <1>2 DEF Returned
  <2> QED
    BY <1>2, <2>1 DEF TimerInv
<1>3. CASE /\ timer.at \in {"dispatch", "handler"} /\ timer.call \in Call /\ timer.serial \in Nat
           /\ Returned(timer.call) \/ timer.call \in mistaken
  <2>1. Returned(timer.call)' \/ timer.call \in mistaken'
    BY <1>3 DEF Returned
  <2> QED
    BY <1>3, <2>1 DEF TimerInv
<1> QED
  BY <1>1, <1>2, <1>3 DEF FreshInv, TimerInv

\* A step that touches none of the variables of the second layer.
LEMMA FreshQuiet ==
  ASSUME FreshInv, UNCHANGED freshVars
  PROVE  FreshInv'
BY DEF FreshInv, freshVars, FreshTypes, TimerInv, Unreferenced, EntryStays, Returned, Queued

\* A new context may have the address of a deleted one: nobody knows of it yet.
LEMMA FreshRegistered ==
  ASSUME ReplyInv, FreshInv, NEW c \in Call, RegisterReplyHandler(c)
  PROVE  FreshInv'
<1>1. pc[c] = "none"
  BY DEF RegisterReplyHandler
<1>2. UNCHANGED <<armed, mistaken, serial, queue, remote, auth, timer>>
  BY DEF RegisterReplyHandler, timerVars, dispVars
<1>3. addr' \in [Call -> Addr]
  BY DEF RegisterReplyHandler, Allocate, FreshInv, FreshTypes
<1>4. /\ replyMap' = replyMap \/ replyMap' = replyMap \union {c}
      /\ \/ pc' = [pc EXCEPT ![c] = "alarm"] /\ c \in replyMap'
         \/ pc' = [pc EXCEPT ![c] = "done"]
  BY DEF RegisterReplyHandler
<1>5. /\ (pc'[c] = "alarm" /\ c \in replyMap') \/ pc'[c] = "done"
      /\ \A d \in Call \ {c} : pc'[d] = pc[d]
  BY <1>4 DEF ReplyInv, ReplyTypes
<1>6. FreshTypes'
  BY <1>2, <1>3 DEF FreshInv, FreshTypes
<1>7. \A d \in Call : Returned(d) => Returned(d)'
  BY <1>1, <1>5 DEF Returned
<1>8. TimerInv'
  BY <1>2, <1>7, TimerStays
<1>9. /\ remote[c] = "none" /\ auth[c] = "none" /\ c \notin armed
      /\ Queued(c) => c \in mistaken
  BY <1>1 DEF FreshInv, Unreferenced, Returned
<1>10. \A d \in Call \ {c} : ~Returned(d)' =>
     /\ remote[d] = "none" /\ auth[d] = "none" /\ d \notin armed
     /\ Queued(d) => d \in mistaken
     /\ pc[d] = "none" => d \notin mistaken
  BY <1>5 DEF FreshInv, Unreferenced, Returned
<1>11. Unreferenced'
  BY <1>2, <1>5, <1>9, <1>10 DEF Unreferenced, Queued
<1>12. EntryStays'
  BY <1>2, <1>4, <1>5 DEF FreshInv, EntryStays
<1> QED
  BY <1>6, <1>8, <1>11, <1>12 DEF FreshInv

\* The thread of a call: when it has passed the registration, the call may be known.
LEMMA FreshCaller ==
  ASSUME ReplyInv, FreshInv, NEW c \in Call, CallerStep(c) \/ WaitInterrupted(c)
  PROVE  FreshInv'
<1> USE DEF mapVars, timerVars, dispVars
<1>1. UNCHANGED <<mistaken, addr, queue, timer>>
  BY DEF CallerStep, AddTimeout, PushMessage, GiveUp, WaitReturns, WaitAborted, WaitInterrupted
<1>2. PICK p \in {"push", "wait", "done", "failed"} : pc' = [pc EXCEPT ![c] = p]
  BY DEF CallerStep, AddTimeout, PushMessage, GiveUp, WaitReturns, WaitAborted, WaitInterrupted
<1>3. Returned(c)' /\ \A d \in Call \ {c} : pc'[d] = pc[d]
  BY <1>2 DEF ReplyInv, ReplyTypes, Returned
<1>4. replyMap \subseteq replyMap' \union {c} /\ armed' \subseteq armed \union {c}
  <2>1. CASE AddTimeout(c)
    BY <2>1 DEF AddTimeout, Withdraw, DeleteContexts
  <2>2. CASE GiveUp(c)
    BY <2>2 DEF GiveUp, UnregisterReplyHandler, Withdraw, DeleteContexts
  <2>3. CASE PushMessage(c) \/ WaitReturns(c) \/ WaitAborted(c) \/ WaitInterrupted(c)
    BY <2>3 DEF PushMessage, WaitReturns, WaitAborted, WaitInterrupted
  <2> QED
    BY <2>1, <2>2, <2>3 DEF CallerStep
<1>5. /\ serial' \in [Call -> Nat] /\ remote' \in [Call -> Remote] /\ auth' \in [Call -> Auth]
      /\ \A d \in Call \ {c} : remote'[d] = remote[d] /\ auth'[d] = auth[d]
  <2>1. CASE PushMessage(c)
    <3>1. serial' = serial \/ serial' = [serial EXCEPT ![c] = serial[c] + 1]
      BY <2>1 DEF PushMessage, UpdateSerialNumber
    <3>2. remote' = remote \/ remote' = [remote EXCEPT ![c] = "sent"]
      BY <2>1 DEF PushMessage
    <3>3. auth' = auth \/ auth' = [auth EXCEPT ![c] = "queued"]
      BY <2>1 DEF PushMessage
    <3>4. serial' \in [Call -> Nat]
      BY <3>1 DEF FreshInv, FreshTypes
    <3>5. remote' \in [Call -> Remote] /\ \A d \in Call \ {c} : remote'[d] = remote[d]
      BY <3>2 DEF FreshInv, FreshTypes, Remote
    <3>6. auth' \in [Call -> Auth] /\ \A d \in Call \ {c} : auth'[d] = auth[d]
      BY <3>3 DEF FreshInv, FreshTypes, Auth
    <3> QED
      BY <3>4, <3>5, <3>6
  <2>2. CASE AddTimeout(c) \/ GiveUp(c) \/ WaitReturns(c) \/ WaitAborted(c) \/ WaitInterrupted(c)
    <3>1. UNCHANGED <<serial, remote, auth>>
      BY <2>2 DEF AddTimeout, GiveUp, WaitReturns, WaitAborted, WaitInterrupted
    <3> QED
      BY <3>1 DEF FreshInv, FreshTypes
  <2> QED
    BY <2>1, <2>2 DEF CallerStep
<1>6. FreshTypes'
  BY <1>1, <1>4, <1>5 DEF FreshInv, FreshTypes
<1>7. \A d \in Call : Returned(d) => Returned(d)'
  BY <1>3 DEF Returned
<1>8. TimerInv'
  BY <1>1, <1>7, TimerStays
<1>9. Unreferenced' /\ EntryStays'
  BY <1>1, <1>3, <1>4, <1>5, GoodStep DEF Queued
<1> QED
  BY <1>6, <1>8, <1>9 DEF FreshInv

\* What the peer and the authentication do about a call they know.
LEMMA FreshPeer ==
  ASSUME ReplyInv, FreshInv, NEW c \in Call, Reply(c) \/ AuthStep(c)
  PROVE  FreshInv'
<1> USE DEF mapVars, timerVars, dispVars, callVars
<1>1. UNCHANGED <<pc, replyMap, addr, timer, mistaken>>
  BY DEF Reply, AuthStep, PauseReplyHandlerTimeout, PauseEnds, AuthenticatePeer,
         ResumeReplyHandlerTimeout, PushDelayed
<1>2. Returned(c)
  BY DEF Reply, AuthStep, PauseReplyHandlerTimeout, PauseEnds, AuthenticatePeer,
         ResumeReplyHandlerTimeout, PushDelayed, FreshInv, Unreferenced
<1>3. armed' \subseteq armed \union {c}
  BY DEF Reply, AuthStep, PauseReplyHandlerTimeout, PauseEnds, AuthenticatePeer,
         ResumeReplyHandlerTimeout, PushDelayed
<1>4. \E p \in Auth : auth' = auth \/ auth' = [auth EXCEPT ![c] = p]
  <2>1. {"pausing", "paused", "resume", "repush", "done"} \subseteq Auth
    BY DEF Auth
  <2>2. CASE Reply(c)
    BY <2>1, <2>2 DEF Reply
  <2>3. CASE PauseReplyHandlerTimeout(c)
    BY <2>1, <2>3 DEF PauseReplyHandlerTimeout
  <2>4. CASE PauseEnds(c) \/ ResumeReplyHandlerTimeout(c) \/ PushDelayed(c)
    BY <2>1, <2>4 DEF PauseEnds, ResumeReplyHandlerTimeout, PushDelayed
  <2>5. CASE \E ok \in BOOLEAN : AuthenticatePeer(c, ok)
    BY <2>1, <2>5 DEF AuthenticatePeer
  <2> QED
    BY <2>2, <2>3, <2>4, <2>5 DEF AuthStep
<1>5. auth' \in [Call -> Auth] /\ \A d \in Call \ {c} : auth'[d] = auth[d]
  BY <1>4 DEF FreshInv, FreshTypes
<1>6. remote' = remote \/ \E p \in {"sent", "answered"} : remote' = [remote EXCEPT ![c] = p]
  BY DEF Reply, AuthStep, PauseReplyHandlerTimeout, PauseEnds, AuthenticatePeer,
         ResumeReplyHandlerTimeout, PushDelayed
<1>7. remote' \in [Call -> Remote] /\ \A d \in Call \ {c} : remote'[d] = remote[d]
  BY <1>6 DEF FreshInv, FreshTypes, Remote
<1>8. serial' = serial \/ serial' = [serial EXCEPT ![c] = serial[c] + 1]
  BY DEF Reply, AuthStep, PauseReplyHandlerTimeout, PauseEnds, AuthenticatePeer,
         ResumeReplyHandlerTimeout, PushDelayed, UpdateSerialNumber
<1>9. serial' \in [Call -> Nat]
  BY <1>8 DEF FreshInv, FreshTypes
<1>10. queue' \in Seq(Message) /\ \A d : Queued(d)' => Queued(d) \/ d = c
  <2>1. serial[c] \in Nat /\ queue \in Seq(Message) /\ FreshTypes
    BY DEF FreshInv, FreshTypes
  <2>2. queue' = queue \/ DispatchMessage(c, serial[c])
    BY DEF Reply, AuthStep, PauseReplyHandlerTimeout, PauseEnds, AuthenticatePeer,
           ResumeReplyHandlerTimeout, PushDelayed, PushToEndpoint
  <2>3. CASE queue' = queue
    BY <2>1, <2>3 DEF Queued
  <2> QED
    BY <2>1, <2>2, <2>3, MessageAdded
<1>11. FreshTypes'
  BY <1>1, <1>3, <1>5, <1>7, <1>9, <1>10 DEF FreshInv, FreshTypes
<1>12. TimerInv'
  BY <1>1, TimerStays DEF Returned
<1>13. Unreferenced' /\ EntryStays'
  BY <1>1, <1>2, <1>3, <1>5, <1>7, <1>10, GoodStep DEF Returned
<1> QED
  BY <1>11, <1>12, <1>13 DEF FreshInv

\* HandleMethodReply takes out of the map what it was told of, if anything.
LEMMA HandleShrinks ==
  ASSUME NEW h, NEW c, NEW s, HandleMethodReply(h, c, s)
  PROVE  replyMap' \subseteq replyMap /\ replyMap \subseteq replyMap' \union {c}
BY DEF HandleMethodReply, RemoveReplyHandler

\* A dispatcher thread handles a message: about a call that is known.
LEMMA FreshDispatch ==
  ASSUME ReplyInv, FreshInv, NEW w \in Worker, Dispatch(w)
  PROVE  FreshInv'
<1> USE DEF callVars, timerVars
<1>1. UNCHANGED <<pc, armed, mistaken, serial, addr, remote, auth, timer>>
  BY DEF Dispatch
<1>2. /\ queue' \in Seq(Message)
      /\ \A d : Queued(d)' => Queued(d)
      /\ Queued(Head(queue).call)
  BY MessageTaken DEF Dispatch, FreshInv
<1>3. replyMap' \subseteq replyMap /\ replyMap \subseteq replyMap' \union {Head(queue).call}
  BY HandleShrinks DEF Dispatch
<1>4. FreshTypes'
  BY <1>1, <1>2 DEF FreshInv, FreshTypes
<1>5. TimerInv'
  BY <1>1, TimerStays DEF Returned
<1>6. \A d \in Call : ~Returned(d)' => d # Head(queue).call \/ d \in mistaken
  BY <1>1, <1>2 DEF FreshInv, Unreferenced, Returned
<1>7. Unreferenced' /\ EntryStays'
  BY <1>1, <1>2, <1>3, <1>6, GoodStep
<1> QED
  BY <1>4, <1>5, <1>7 DEF FreshInv

\* An alarm is triggered: of a call that is known from now on.
LEMMA FreshAlarm ==
  ASSUME ReplyInv, FreshInv, NEW c \in Call, AlarmFires(c)
  PROVE  FreshInv'
<1>1. /\ UNCHANGED <<pc, replyMap, serial, addr, queue, remote, auth, mistaken>>
      /\ c \in armed /\ armed' = armed \ {c}
      /\ timer' = [at |-> "lookup", alarm |-> c, addr |-> addr[c]]
  BY DEF AlarmFires, callVars, mapVars, dispVars
<1>2. FreshTypes'
  BY <1>1 DEF FreshInv, FreshTypes
<1>3. Returned(c)
  BY <1>1 DEF FreshInv, Unreferenced
<1>4. TimerInv'
  BY <1>1, <1>3 DEF TimerInv, Returned
<1>5. Unreferenced' /\ EntryStays'
  BY <1>1, GoodStep DEF Queued, Returned
<1> QED
  BY <1>2, <1>4, <1>5 DEF FreshInv

\* AlarmTriggered finds a context at the address it was given, or none.
LEMMA FreshLookup ==
  ASSUME ReplyInv, FreshInv, LookupTimedOut
  PROVE  FreshInv'
<1>1. UNCHANGED <<pc, replyMap, armed, serial, addr, queue, remote, auth>>
  BY DEF LookupTimedOut, callVars, mapVars, dispVars
<1>2. CASE timer' = Idle /\ UNCHANGED mistaken
  <2>1. TimerInv'
    BY <1>2 DEF TimerInv
  <2> QED
    BY <1>1, <1>2, <2>1 DEF FreshInv, FreshTypes, Unreferenced, EntryStays, Returned, Queued
<1>3. CASE \E d \in replyMap : /\ timer' = [at |-> "dispatch", alarm |-> timer.alarm,
                                              call |-> d, serial |-> serial[d]]
                               /\ mistaken' = mistaken \union ({d} \ {timer.alarm})
  <2>1. PICK d \in replyMap : /\ timer' = [at |-> "dispatch", alarm |-> timer.alarm,
                                            call |-> d, serial |-> serial[d]]
                              /\ mistaken' = mistaken \union ({d} \ {timer.alarm})
    BY <1>3
  <2>2. d \in Call /\ serial[d] \in Nat
    BY DEF FreshInv, FreshTypes, ReplyInv, ReplyTypes
  <2>3. Returned(timer.alarm)
    BY DEF LookupTimedOut, FreshInv, TimerInv, Idle
  <2>4. Returned(d)' \/ d \in mistaken'
    BY <1>1, <2>1, <2>3 DEF Returned
  <2>5. timer'.at = "dispatch" /\ timer'.call = d /\ timer'.serial = serial[d]
    BY <2>1
  <2>6. TimerInv'
    BY <2>2, <2>4, <2>5 DEF TimerInv, Returned
  <2>7. FreshTypes'
    BY <1>1, <2>1, <2>2 DEF FreshInv, FreshTypes
  <2>8. Unreferenced' /\ EntryStays'
    BY <1>1, <2>1, GoodStep DEF Queued, Returned
  <2> QED
    BY <2>6, <2>7, <2>8 DEF FreshInv
<1> QED
  BY <1>2, <1>3 DEF LookupTimedOut

\* The timeout is forwarded to the dispatcher, or handled by the timer's own thread.
LEMMA FreshReport ==
  ASSUME ReplyInv, FreshInv, ReportTimeout
  PROVE  FreshInv'
<1> DEFINE c == timer.call
<1>1. UNCHANGED <<pc, armed, mistaken, serial, addr, remote, auth>>
  BY DEF ReportTimeout, callVars
<1>2. c \in Call /\ timer.serial \in Nat
  BY DEF ReportTimeout, FreshInv, TimerInv, Idle
<1>3. Returned(c) \/ c \in mistaken
  BY DEF ReportTimeout, FreshInv, TimerInv, Idle
<1>4. /\ queue' \in Seq(Message) /\ \A d : Queued(d)' => Queued(d) \/ d = c
      /\ replyMap' \subseteq replyMap /\ replyMap \subseteq replyMap' \union {c}
  <2>1. CASE running
    <3>1. DispatchMessage(c, timer.serial) /\ UNCHANGED replyMap
      BY <2>1 DEF ReportTimeout
    <3> QED
      BY <1>2, <3>1, MessageAdded DEF FreshInv
  <2>2. CASE ~running
    <3>1. HandleMethodReply(ReplyTimer, c, timer.serial) /\ UNCHANGED queue
      BY <2>2 DEF ReportTimeout
    <3> QED
      BY <3>1, HandleShrinks DEF FreshInv, FreshTypes, Queued
  <2> QED
    BY <2>1, <2>2
<1>5. TimerInv'
  <2>1. \/ timer' = Idle
        \/ timer' = [at |-> "handler", alarm |-> timer.alarm, call |-> c, serial |-> timer.serial]
    BY DEF ReportTimeout
  <2>2. pc'[c] \notin {"none", "alarm"} \/ c \in mistaken'
    BY <1>1, <1>3 DEF Returned
  <2>3. CASE timer'.at = "handler" /\ timer'.call = c /\ timer'.serial = timer.serial
    BY <1>2, <2>2, <2>3 DEF TimerInv, Returned
  <2> QED
    BY <2>1, <2>3 DEF TimerInv
<1>6. FreshTypes'
  BY <1>1, <1>4 DEF FreshInv, FreshTypes
<1>7. Unreferenced' /\ EntryStays'
  BY <1>1, <1>3, <1>4, GoodStep DEF Returned
<1> QED
  BY <1>5, <1>6, <1>7 DEF FreshInv

\* A handler returns, or a receiver is destroyed: alarms and entries only go.
LEMMA FreshCleanup ==
  ASSUME ReplyInv, FreshInv, UnregisterAllHandlers \/ \E h \in Handler : HandlerReturns(h)
  PROVE  FreshInv'
<1>1. UNCHANGED <<pc, mistaken, serial, addr, queue, remote, auth>>
  BY DEF UnregisterAllHandlers, HandlerReturns, callVars, mapVars, dispVars
<1>2. armed' \subseteq armed /\ timer' \in {timer, Idle}
  BY DEF UnregisterAllHandlers, HandlerReturns, DeleteContexts
<1>3. /\ replyMap' \subseteq replyMap
      /\ \A d \in Call : ~Returned(d) /\ d \in replyMap => d \in replyMap'
  <2>1. CASE UnregisterAllHandlers
    <3>1. \A d \in Call : ~Returned(d) /\ d \in replyMap => d \notin Doomed
      BY <2>1 DEF UnregisterAllHandlers, ReplyInv, MapInv, Returned
    <3> QED
      BY <2>1, <3>1 DEF UnregisterAllHandlers
  <2>2. CASE \E h \in Handler : HandlerReturns(h)
    BY <2>2 DEF HandlerReturns, mapVars
  <2> QED
    BY <2>1, <2>2
<1>4. FreshTypes'
  BY <1>1, <1>2 DEF FreshInv, FreshTypes
<1>5. TimerInv'
  BY <1>1, <1>2 DEF FreshInv, TimerInv, Returned
<1>6. Unreferenced' /\ EntryStays'
  BY <1>1, <1>2, <1>3, GoodStep DEF Queued, Returned
<1> QED
  BY <1>4, <1>5, <1>6 DEF FreshInv

\* One step preserves the second layer.
LEMMA NextFreshInv == ReplyInv /\ FreshInv /\ [Next]_vars => FreshInv'
<1> SUFFICES ASSUME ReplyInv, FreshInv, [Next]_vars PROVE FreshInv'
  OBVIOUS
<1>1. ASSUME NEW w \in Worker, EnableReentrancy(w) PROVE FreshInv'
  BY <1>1, FreshQuiet DEF EnableReentrancy, freshVars, callVars, mapVars, timerVars
<1>2. CASE StopStep
  BY <1>2, FreshQuiet DEF StopStep, freshVars, callVars, mapVars, timerVars, dispVars
<1>3. CASE UNCHANGED vars
  BY <1>3, FreshQuiet DEF vars, freshVars, callVars, mapVars, timerVars, dispVars
<1>4. CASE TimerStep
  BY <1>4, FreshAlarm, FreshLookup, FreshReport DEF TimerStep
<1> QED
  BY <1>1, <1>2, <1>3, <1>4, FreshRegistered, FreshCaller, FreshPeer, FreshDispatch, FreshCleanup DEF Next

\* The second layer holds throughout.
LEMMA FreshInvariant == SafeSpec => []FreshInv
  BY InitFreshInv, NextFreshInv, ReplyInvariant, PTL DEF SafeSpec

-----------------------------------------------------------------------------
(* Layer 3: what the caller was told, and the context of a synchronous call.*)

ErrorTypes == status \in [Call -> Status] /\ heapCtx \in [Call -> Heap]

\* An error is the last thing a call sees.
ErrorIsFinal == \A c \in Call : status[c] = "error" => pc[c] = "done"

ErrorInv == ErrorTypes /\ ErrorIsFinal /\ NoCallbackAfterError /\ ContextOutlivesHandler

errorVars == <<status, heapCtx, pc, replyMap, handling, handled, mistaken>>

\* No call has returned at first.
LEMMA InitErrorInv == Init => ErrorInv
<1> SUFFICES ASSUME Init PROVE ErrorInv
  OBVIOUS
<1>1. ErrorTypes
  BY DEF Init, ErrorTypes, Status, Heap
<1>2. ErrorIsFinal /\ NoCallbackAfterError
  BY DEF Init, ErrorIsFinal, NoCallbackAfterError
<1>3. ContextOutlivesHandler
  BY DEF Init, ContextOutlivesHandler, Living, Handling
<1> QED
  BY <1>1, <1>2, <1>3 DEF ErrorInv

\* A step that touches none of the variables of the third layer.
LEMMA ErrorQuiet ==
  ASSUME ErrorInv, UNCHANGED errorVars
  PROVE  ErrorInv'
BY DEF ErrorInv, errorVars, ErrorTypes, ErrorIsFinal, NoCallbackAfterError, ContextOutlivesHandler, Living, Handling

\* The thread of a call goes on; it has returned nothing, or something that is no error.
LEMMA ErrorGoesOn ==
  ASSUME ReplyInv, ErrorInv, NEW c \in Call, pc[c] # "done",
         NEW p \in Pc, pc' = [pc EXCEPT ![c] = p],
         NEW v \in Status \ {"error"},
         status' = status \/ status' = [status EXCEPT ![c] = v],
         UNCHANGED <<replyMap, handling, handled, heapCtx, mistaken>>
  PROVE  ErrorInv'
<1>1. /\ \A d \in Call \ {c} : pc'[d] = pc[d] /\ status'[d] = status[d]
      /\ status'[c] # "error"
  BY DEF ReplyInv, ReplyTypes, ErrorInv, ErrorTypes, ErrorIsFinal
<1>2. ErrorTypes'
  BY DEF ErrorInv, ErrorTypes
<1>3. ErrorIsFinal' /\ NoCallbackAfterError'
  BY <1>1 DEF ErrorInv, ErrorIsFinal, NoCallbackAfterError
<1>4. ContextOutlivesHandler'
  BY DEF ErrorInv, ContextOutlivesHandler, Living, Handling
<1> QED
  BY <1>2, <1>3, <1>4 DEF ErrorInv

\* The caller takes its entry back: nobody has called the handler, nobody will, unless its
\* context was mistaken for another.
LEMMA ErrorWithdraw ==
  ASSUME ReplyInv, ErrorInv, NEW c \in Call, c \in replyMap \/ c \in mistaken,
         pc' = [pc EXCEPT ![c] = "done"],
         Withdraw(c), UNCHANGED <<handling, handled, mistaken>>
  PROVE  ErrorInv'
<1>1. /\ replyMap' = replyMap \ {c}
      /\ status' = [status EXCEPT ![c] = "error"]
      /\ heapCtx' = [heapCtx EXCEPT ![c] = IF c \in Sync THEN "freed" ELSE heapCtx[c]]
  BY DEF Withdraw
<1>2. /\ status' \in [Call -> Status] /\ heapCtx' \in [Call -> Heap]
      /\ pc'[c] = "done"
      /\ \A d \in Call \ {c} : status'[d] = status[d] /\ heapCtx'[d] = heapCtx[d] /\ pc'[d] = pc[d]
  BY <1>1 DEF ErrorInv, ErrorTypes, ReplyInv, ReplyTypes, Status, Heap
<1>3. c \notin mistaken => handled[c] = 0 /\ \A h \in Handler : handling[h] # c
  BY DEF ReplyInv, MapInv, HandlingInv, ReplyTypes
<1>4. ErrorTypes' /\ ErrorIsFinal'
  BY <1>2 DEF ErrorInv, ErrorTypes, ErrorIsFinal
<1>5. NoCallbackAfterError'
  BY <1>1, <1>2, <1>3 DEF ErrorInv, NoCallbackAfterError
<1>6. ContextOutlivesHandler'
  BY <1>1, <1>2, <1>3 DEF ErrorInv, ContextOutlivesHandler, Living, Handling
<1> QED
  BY <1>4, <1>5, <1>6 DEF ErrorInv

\* PushMessage failed or the wait was interrupted.
LEMMA ErrorGiveUp ==
  ASSUME ReplyInv, ErrorInv, NEW c \in Call, GiveUp(c)
  PROVE  ErrorInv'
<1>1. /\ pc[c] = "failed" /\ pc' = [pc EXCEPT ![c] = "done"]
      /\ UNCHANGED <<handling, handled, mistaken>>
      /\ UnregisterReplyHandler(c)
  BY DEF GiveUp, dispVars
<1>2. CASE c \in replyMap
  BY <1>1, <1>2, ErrorWithdraw DEF UnregisterReplyHandler
<1>3. CASE c \notin replyMap
  <2>1. /\ UNCHANGED <<replyMap, heapCtx>>
        /\ status' = [status EXCEPT ![c] = IF c \in Sync THEN "error" ELSE "OK"]
    BY <1>1, <1>3 DEF UnregisterReplyHandler
  <2>2. /\ status' \in [Call -> Status] /\ pc'[c] = "done"
        /\ \A d \in Call \ {c} : status'[d] = status[d] /\ pc'[d] = pc[d]
        /\ c \notin Sync => status'[c] # "error"
    BY <1>1, <2>1 DEF ErrorInv, ErrorTypes, ReplyInv, ReplyTypes, Status
  <2>3. ErrorTypes' /\ ErrorIsFinal'
    BY <2>1, <2>2 DEF ErrorInv, ErrorTypes, ErrorIsFinal
  <2>4. NoCallbackAfterError'
    BY <1>1, <2>1, <2>2 DEF ErrorInv, NoCallbackAfterError
  <2>5. ContextOutlivesHandler'
    BY <1>1, <2>1 DEF ErrorInv, ContextOutlivesHandler, Living, Handling
  <2> QED
    BY <2>3, <2>4, <2>5 DEF ErrorInv
<1> QED
  BY <1>2, <1>3

\* A call is registered, or refused because the bus is stopping.
LEMMA ErrorRegistered ==
  ASSUME ReplyInv, ErrorInv, NEW c \in Call, RegisterReplyHandler(c)
  PROVE  ErrorInv'
<1>1. /\ pc[c] = "none" /\ handled[c] = 0 /\ c \notin replyMap
      /\ status[c] # "error"
      /\ \A h \in Handler : handling[h] # c
  BY DEF RegisterReplyHandler, ReplyInv, MapInv, HandlingInv, ReplyTypes, ErrorInv, ErrorIsFinal
<1>2. UNCHANGED <<handling, handled, mistaken>>
  BY DEF RegisterReplyHandler, dispVars, timerVars
<1>3. CASE running
  <2>1. /\ replyMap' = replyMap \union {c}
        /\ heapCtx' = [heapCtx EXCEPT ![c] = IF c \in Sync THEN "live" ELSE heapCtx[c]]
        /\ pc' = [pc EXCEPT ![c] = "alarm"]
        /\ UNCHANGED status
    BY <1>3 DEF RegisterReplyHandler
  <2>2. /\ heapCtx' \in [Call -> Heap]
        /\ c \in Sync => heapCtx'[c] = "live"
        /\ \A d \in Call \ {c} : pc'[d] = pc[d] /\ heapCtx'[d] = heapCtx[d]
    BY <2>1 DEF ErrorInv, ErrorTypes, ReplyInv, ReplyTypes, Heap
  <2>3. ErrorTypes' /\ ErrorIsFinal'
    BY <1>1, <2>1, <2>2 DEF ErrorInv, ErrorTypes, ErrorIsFinal
  <2>4. NoCallbackAfterError'
    BY <1>1, <1>2, <2>1 DEF ErrorInv, NoCallbackAfterError
  <2>5. ContextOutlivesHandler'
    BY <1>2, <2>1, <2>2 DEF ErrorInv, ContextOutlivesHandler, Living, Handling
  <2> QED
    BY <2>3, <2>4, <2>5 DEF ErrorInv
<1>4. CASE ~running
  <2>1. /\ UNCHANGED <<replyMap, heapCtx>>
        /\ pc' = [pc EXCEPT ![c] = "done"]
        /\ status' = [status EXCEPT ![c] = "error"]
    BY <1>4 DEF RegisterReplyHandler
  <2>2. /\ status' \in [Call -> Status] /\ pc'[c] = "done"
        /\ \A d \in Call \ {c} : pc'[d] = pc[d] /\ status'[d] = status[d]
    BY <2>1 DEF ErrorInv, ErrorTypes, ReplyInv, ReplyTypes, Status
  <2>3. ErrorTypes' /\ ErrorIsFinal'
    BY <2>1, <2>2 DEF ErrorInv, ErrorTypes, ErrorIsFinal
  <2>4. NoCallbackAfterError'
    BY <1>1, <1>2, <2>1, <2>2 DEF ErrorInv, NoCallbackAfterError
  <2>5. ContextOutlivesHandler'
    BY <1>2, <2>1 DEF ErrorInv, ContextOutlivesHandler, Living, Handling
  <2> QED
    BY <2>3, <2>4, <2>5 DEF ErrorInv
<1> QED
  BY <1>3, <1>4

\* The handler is called: the entry was there, so no error has been returned.
LEMMA ErrorHandled ==
  ASSUME ReplyInv, ErrorInv, NEW h \in Handler, NEW c, NEW s, HandleMethodReply(h, c, s),
         UNCHANGED <<pc, status, heapCtx, mistaken>>
  PROVE  ErrorInv'
<1>1. CASE RemoveReplyHandler(c, s) /\ handling' = [handling EXCEPT ![h] = c]
           /\ handled' = [handled EXCEPT ![c] = handled[c] + 1]
  <2>1. c \in Call /\ c \in replyMap /\ replyMap' = replyMap \ {c}
    BY <1>1 DEF RemoveReplyHandler, ReplyInv, ReplyTypes
  <2>2. /\ handling'[h] = c
        /\ \A d \in Call \ {c} : handled'[d] = handled[d]
        /\ \A g \in Handler \ {h} : handling'[g] = handling[g]
    BY <1>1, <2>1 DEF ReplyInv, ReplyTypes
  <2>3. ErrorTypes' /\ ErrorIsFinal'
    BY DEF ErrorInv, ErrorTypes, ErrorIsFinal
  <2>4. NoCallbackAfterError'
    BY <2>1, <2>2 DEF ErrorInv, NoCallbackAfterError
  <2>5. ContextOutlivesHandler'
    BY <2>1, <2>2 DEF ErrorInv, ContextOutlivesHandler, Living, Handling
  <2> QED
    BY <2>3, <2>4, <2>5 DEF ErrorInv
<1>2. CASE UNCHANGED <<replyMap, handling, handled>>
  BY <1>2, ErrorQuiet DEF errorVars
<1> QED
  BY <1>1, <1>2 DEF HandleMethodReply

\* A reply handler returns.  The context it deletes was in use by nobody else: the call
\* is not in the map, and no other thread runs its handler.
LEMMA ErrorHandlerDone ==
  ASSUME ReplyInv, ErrorInv, NEW h \in Handler, HandlerReturns(h)
  PROVE  ErrorInv'
<1> DEFINE c == handling[h]
<1>1. c \in Call /\ c \notin replyMap /\ \A g \in Handler \ {h} : handling[g] # c
  BY DEF HandlerReturns, ReplyInv, ReplyTypes, HandlingInv
<1>2. /\ handling' = [handling EXCEPT ![h] = NoCall]
      /\ heapCtx' = [heapCtx EXCEPT ![c] = IF c \in Sync THEN "freed" ELSE heapCtx[c]]
      /\ UNCHANGED <<replyMap, handled, pc, status, mistaken>>
  BY DEF HandlerReturns, mapVars
<1>3. /\ heapCtx' \in [Call -> Heap]
      /\ handling'[h] = NoCall
      /\ \A g \in Handler \ {h} : handling'[g] = handling[g]
      /\ \A d \in Call \ {c} : heapCtx'[d] = heapCtx[d]
  BY <1>1, <1>2 DEF ErrorInv, ErrorTypes, ReplyInv, ReplyTypes, Heap
<1>4. ErrorTypes' /\ ErrorIsFinal' /\ NoCallbackAfterError'
  BY <1>2, <1>3 DEF ErrorInv, ErrorTypes, ErrorIsFinal, NoCallbackAfterError
<1>5. ContextOutlivesHandler'
  <2> SUFFICES ASSUME NEW d \in Sync \ mistaken, d \in replyMap' \/ Handling(d)'
               PROVE  heapCtx'[d] = "live"
    BY <1>2 DEF ContextOutlivesHandler, Living
  <2>1. d \in Call /\ d # NoCall
    OBVIOUS
  <2>2. d # c /\ (d \in replyMap \/ Handling(d))
    BY <1>1, <1>2, <1>3, <2>1 DEF Handling
  <2> QED
    BY <1>3, <2>1, <2>2 DEF ErrorInv, ContextOutlivesHandler, Living
<1> QED
  BY <1>4, <1>5 DEF ErrorInv

\* One step preserves the third layer.  AddTimeout is the step that needs the second: it
\* returns an error without asking whether the entry is still there.
LEMMA NextErrorInv == ReplyInv /\ FreshInv /\ ErrorInv /\ [Next]_vars => ErrorInv'
<1> SUFFICES ASSUME ReplyInv, FreshInv, ErrorInv, [Next]_vars PROVE ErrorInv'
  OBVIOUS
<1> USE DEF callVars, mapVars, timerVars, dispVars
<1>0. /\ {"push", "wait", "done", "failed"} \subseteq Pc
      /\ {"OK", "aborted"} \subseteq Status \ {"error"}
  BY DEF Pc, Status
<1>1. ASSUME NEW c \in Call, AddTimeout(c) PROVE ErrorInv'
  <2>1. CASE timerUp
    <3>1. /\ pc[c] = "alarm" /\ pc' = [pc EXCEPT ![c] = "push"]
          /\ UNCHANGED <<replyMap, handling, handled, heapCtx, status, mistaken>>
      BY <1>1, <2>1 DEF AddTimeout
    <3> QED
      BY <1>0, <3>1, ErrorGoesOn
  <2>2. CASE ~timerUp
    <3>1. c \in replyMap \/ c \in mistaken
      BY <1>1 DEF AddTimeout, FreshInv, EntryStays
    <3> QED
      BY <1>1, <2>2, <3>1, ErrorWithdraw DEF AddTimeout
  <2> QED
    BY <2>1, <2>2
<1>2. ASSUME NEW c \in Call, PushMessage(c) PROVE ErrorInv'
  <2>1. pc[c] = "push" /\ UNCHANGED <<replyMap, handling, handled, heapCtx, mistaken>>
    BY <1>2 DEF PushMessage
  <2>2. \E p \in {"wait", "done", "failed"} : pc' = [pc EXCEPT ![c] = p]
    BY <1>2 DEF PushMessage
  <2>3. status' = status \/ status' = [status EXCEPT ![c] = "OK"]
    <3>1. [status EXCEPT ![c] = status[c]] = status
      BY DEF ErrorInv, ErrorTypes
    <3> QED
      BY <1>2, <3>1 DEF PushMessage
  <2>4. PICK p \in Pc : pc' = [pc EXCEPT ![c] = p]
    BY <1>0, <2>2
  <2> QED
    BY <1>0, <2>1, <2>3, <2>4, ErrorGoesOn
<1>3. ASSUME NEW c \in Call, WaitReturns(c) \/ WaitAborted(c) \/ WaitInterrupted(c) PROVE ErrorInv'
  <2>1. pc[c] = "wait" /\ UNCHANGED <<replyMap, handling, handled, heapCtx, mistaken>>
    BY <1>3 DEF WaitReturns, WaitAborted, WaitInterrupted
  <2>2. PICK p \in {"done", "failed"} : pc' = [pc EXCEPT ![c] = p]
    BY <1>3 DEF WaitReturns, WaitAborted, WaitInterrupted
  <2>3. PICK v \in {"OK", "aborted"} : status' = status \/ status' = [status EXCEPT ![c] = v]
    BY <1>3 DEF WaitReturns, WaitAborted, WaitInterrupted
  <2>4. p \in Pc /\ v \in Status \ {"error"}
    BY <1>0
  <2> QED
    BY <2>1, <2>2, <2>3, <2>4, ErrorGoesOn
<1>4. ASSUME NEW c \in Call, Reply(c) \/ AuthStep(c) PROVE ErrorInv'
  <2>1. UNCHANGED errorVars
    BY <1>4 DEF Reply, AuthStep, PauseReplyHandlerTimeout, PauseEnds, AuthenticatePeer,
                ResumeReplyHandlerTimeout, PushDelayed, errorVars
  <2> QED
    BY <2>1, ErrorQuiet
<1>5. ASSUME NEW w \in Worker, Dispatch(w) PROVE ErrorInv'
  <2>1. w \in Handler
    BY DEF Handler
  <2>2. CASE running
    BY <1>5, <2>1, <2>2, ErrorHandled DEF Dispatch
  <2>3. CASE ~running
    BY <1>5, <2>3, ErrorQuiet DEF Dispatch, errorVars
  <2> QED
    BY <2>2, <2>3
<1>6. ASSUME NEW w \in Worker, EnableReentrancy(w) PROVE ErrorInv'
  BY <1>6, ErrorQuiet DEF EnableReentrancy, errorVars
<1>7. ASSUME TimerStep PROVE ErrorInv'
  <2>1. CASE \E c \in Call : AlarmFires(c)
    BY <2>1, ErrorQuiet DEF AlarmFires, errorVars
  <2>3. CASE LookupTimedOut
    <3>1. /\ UNCHANGED <<status, heapCtx, pc, replyMap, handling, handled>>
          /\ mistaken \subseteq mistaken'
      BY <2>3 DEF LookupTimedOut
    <3> QED
      BY <3>1 DEF ErrorInv, ErrorTypes, ErrorIsFinal, NoCallbackAfterError,
                  ContextOutlivesHandler, Living, Handling
  <2>2. CASE ReportTimeout
    <3>1. ReplyTimer \in Handler /\ UNCHANGED <<pc, status, heapCtx, mistaken>>
      BY <2>2 DEF Handler, ReportTimeout
    <3>2. CASE running
      BY <2>2, <3>1, <3>2, ErrorQuiet DEF ReportTimeout, errorVars
    <3>3. CASE ~running
      BY <2>2, <3>1, <3>3, ErrorHandled DEF ReportTimeout
    <3> QED
      BY <3>2, <3>3
  <2> QED
    BY <1>7, <2>1, <2>2, <2>3 DEF TimerStep
<1>8. CASE UnregisterAllHandlers
  <2>1. replyMap' \subseteq replyMap /\ UNCHANGED <<handling, handled, pc, status, heapCtx, mistaken>>
    BY <1>8 DEF UnregisterAllHandlers
  <2> QED
    BY <2>1 DEF ErrorInv, ErrorTypes, ErrorIsFinal, NoCallbackAfterError, ContextOutlivesHandler, Living, Handling
<1>9. CASE StopStep
  BY <1>9, ErrorQuiet DEF StopStep, errorVars
<1>10. CASE UNCHANGED vars
  BY <1>10, ErrorQuiet DEF vars, errorVars
<1> QED
  BY <1>1, <1>2, <1>3, <1>4, <1>5, <1>6, <1>7, <1>8, <1>9, <1>10,
     ErrorRegistered, ErrorGiveUp, ErrorHandlerDone DEF Next, CallerStep

\* The third layer holds throughout.
LEMMA ErrorInvariant == SafeSpec => []ErrorInv
  BY InitErrorInv, NextErrorInv, ReplyInvariant, FreshInvariant, PTL DEF SafeSpec

\* Whatever addresses the allocator gives out again: a MethodCallAsync that returned an error
\* has not called its handler and never will, so that the caller may free what it points to,
\* unless AlarmTriggered took the context of this very call for a deleted one.
THEOREM ErrorMeansNoCallback == SafeSpec => []NoCallbackAfterError
<1>1. ErrorInv => NoCallbackAfterError
  BY DEF ErrorInv
<1> QED
  BY <1>1, ErrorInvariant, PTL

\* Whatever addresses the allocator gives out again: the SyncReplyContext that MethodCall
\* allocates is deleted by MethodCall or by SyncReplyHandler, never while the other may still
\* use it, unless AlarmTriggered took the context of this very call for a deleted one.
THEOREM ContextSafe == SafeSpec => []ContextOutlivesHandler
<1>1. ErrorInv => ContextOutlivesHandler
  BY DEF ErrorInv
<1> QED
  BY <1>1, ErrorInvariant, PTL

-----------------------------------------------------------------------------
(* Layer 4: a pending alarm points to a context that is there.             *)

\* The reply timer's thread is busy with a callback while it runs a handler, so that it does
\* not begin a second one and forget the first.
AlarmInv ==
  /\ AlarmHasContext
  /\ handling[ReplyTimer] # NoCall => timer.at = "handler"

\* The alarm goes with the context, whoever deletes it.
LEMMA NextAlarmInv ==
  ASSUME ReplyInv, FreshInv, AlarmInv, [Next]_vars
  PROVE  AlarmInv'
<1> USE DEF callVars, mapVars, timerVars, dispVars
<1>1. ASSUME armed' \subseteq armed, UNCHANGED <<replyMap, handling, timer, mistaken>> PROVE AlarmInv'
  BY <1>1 DEF AlarmInv, AlarmHasContext, Living, Handling
<1>2. ASSUME NEW c \in Call, Withdraw(c), UNCHANGED <<handling, timer, mistaken>> PROVE AlarmInv'
  BY <1>2 DEF Withdraw, DeleteContexts, AlarmInv, AlarmHasContext, Living, Handling
<1>3. ASSUME NEW h \in Handler, handling[h] = NoCall, NEW c, NEW s, HandleMethodReply(h, c, s),
             UNCHANGED <<armed, mistaken>>
      PROVE  AlarmHasContext'
  <2>1. CASE RemoveReplyHandler(c, s) /\ handling' = [handling EXCEPT ![h] = c]
    <3>1. c \in replyMap /\ replyMap' = replyMap \ {c}
      BY <2>1 DEF RemoveReplyHandler
    <3>2. handling'[h] = c /\ \A g \in Handler \ {h} : handling'[g] = handling[g]
      BY <2>1 DEF ReplyInv, ReplyTypes
    <3>3. \A d \in armed : d # NoCall
      BY DEF FreshInv, FreshTypes
    <3> QED
      BY <1>3, <3>1, <3>2, <3>3 DEF AlarmInv, AlarmHasContext, Living, Handling
  <2>2. CASE UNCHANGED <<replyMap, handling>>
    BY <1>3, <2>2 DEF AlarmInv, AlarmHasContext, Living, Handling
  <2> QED
    BY <1>3, <2>1, <2>2 DEF HandleMethodReply
<1>4. ASSUME NEW c \in Call, AddTimeout(c) PROVE AlarmInv'
  <2>1. CASE timerUp
    <3>1. c \in replyMap \/ c \in mistaken
      BY <1>4 DEF AddTimeout, FreshInv, EntryStays
    <3> QED
      BY <1>4, <2>1, <3>1 DEF AddTimeout, AlarmInv, AlarmHasContext, Living, Handling
  <2>2. CASE ~timerUp
    BY <1>2, <1>4, <2>2 DEF AddTimeout
  <2> QED
    BY <2>1, <2>2
<1>5. ASSUME NEW c \in Call, PushMessage(c) \/ WaitReturns(c) \/ WaitAborted(c) \/ WaitInterrupted(c)
      PROVE  AlarmInv'
  BY <1>1, <1>5 DEF PushMessage, WaitReturns, WaitAborted, WaitInterrupted
<1>6. ASSUME NEW c \in Call, GiveUp(c) PROVE AlarmInv'
  BY <1>1, <1>2, <1>6 DEF GiveUp, UnregisterReplyHandler
<1>7. ASSUME NEW c \in Call, RegisterReplyHandler(c) PROVE AlarmInv'
  <2>1. replyMap \subseteq replyMap' /\ UNCHANGED <<armed, handling, timer, mistaken>>
    BY <1>7 DEF RegisterReplyHandler
  <2> QED
    BY <2>1 DEF AlarmInv, AlarmHasContext, Living, Handling
<1>8. ASSUME NEW c \in Call, Reply(c) PROVE AlarmInv'
  BY <1>1, <1>8 DEF Reply
<1>9. ASSUME NEW c \in Call, AuthStep(c) PROVE AlarmInv'
  <2>1. UNCHANGED <<replyMap, handling, timer, mistaken>> /\ armed' \subseteq armed \union replyMap
    BY <1>9 DEF AuthStep, PauseReplyHandlerTimeout, PauseEnds, AuthenticatePeer,
                ResumeReplyHandlerTimeout, PushDelayed
  <2> QED
    BY <2>1 DEF AlarmInv, AlarmHasContext, Living, Handling
<1>10. ASSUME UnregisterAllHandlers PROVE AlarmInv'
  BY <1>10 DEF UnregisterAllHandlers, DeleteContexts, AlarmInv, AlarmHasContext, Living, Handling
<1>11. ASSUME NEW h \in Handler, HandlerReturns(h) PROVE AlarmInv'
  <2>1. /\ handling' = [handling EXCEPT ![h] = NoCall] /\ armed' = armed \ {handling[h]}
        /\ timer' = (IF h = ReplyTimer THEN Idle ELSE timer) /\ UNCHANGED <<replyMap, mistaken>>
    BY <1>11 DEF HandlerReturns, DeleteContexts
  <2>2. handling'[h] = NoCall /\ \A g \in Handler \ {h} : handling'[g] = handling[g]
    BY <2>1 DEF ReplyInv, ReplyTypes
  <2> QED
    BY <2>1, <2>2 DEF AlarmInv, AlarmHasContext, Living, Handling
<1>12. ASSUME NEW w \in Worker, Dispatch(w) PROVE AlarmInv'
  <2>1. w \in Handler /\ w # ReplyTimer /\ ReplyTimer \in Handler /\ handling[w] = NoCall
        /\ UNCHANGED <<armed, timer, mistaken>>
    BY <1>12 DEF Handler, Dispatch
  <2>2. CASE running
    <3>1. PICK c, s : HandleMethodReply(w, c, s)
      BY <1>12, <2>2 DEF Dispatch
    <3>2. handling'[ReplyTimer] = handling[ReplyTimer]
      BY <2>1, <3>1 DEF HandleMethodReply, ReplyInv, ReplyTypes
    <3> QED
      BY <1>3, <2>1, <3>1, <3>2 DEF AlarmInv
  <2>3. CASE ~running
    BY <1>1, <1>12, <2>3 DEF Dispatch
  <2> QED
    BY <2>2, <2>3
<1>13. ASSUME NEW w \in Worker, EnableReentrancy(w) PROVE AlarmInv'
  BY <1>1, <1>13 DEF EnableReentrancy
<1>14. ASSUME NEW c \in Call, AlarmFires(c) PROVE AlarmInv'
  <2>1. handling[ReplyTimer] = NoCall
    BY <1>14 DEF AlarmFires, AlarmInv, Idle
  <2> QED
    BY <1>14, <2>1 DEF AlarmFires, AlarmInv, AlarmHasContext, Living, Handling
<1>15. ASSUME LookupTimedOut PROVE AlarmInv'
  <2>1. handling[ReplyTimer] = NoCall
    BY <1>15 DEF LookupTimedOut, AlarmInv
  <2> QED
    BY <1>15, <2>1 DEF LookupTimedOut, AlarmInv, AlarmHasContext, Living, Handling
<1>16. ASSUME ReportTimeout PROVE AlarmInv'
  <2>1. handling[ReplyTimer] = NoCall /\ ReplyTimer \in Handler /\ UNCHANGED <<armed, mistaken>>
    BY <1>16 DEF ReportTimeout, AlarmInv, Handler
  <2>2. CASE running
    BY <1>16, <2>1, <2>2 DEF ReportTimeout, AlarmInv, AlarmHasContext, Living, Handling
  <2>3. CASE ~running
    <3>1. HandleMethodReply(ReplyTimer, timer.call, timer.serial)
          /\ (handling'[ReplyTimer] # NoCall => timer'.at = "handler")
      BY <1>16, <2>3 DEF ReportTimeout
    <3> QED
      BY <1>3, <2>1, <3>1 DEF AlarmInv
  <2> QED
    BY <2>2, <2>3
<1>17. ASSUME StopStep \/ UNCHANGED vars PROVE AlarmInv'
  BY <1>1, <1>17 DEF StopStep, vars
<1> QED
  BY <1>4, <1>5, <1>6, <1>7, <1>8, <1>9, <1>10, <1>11, <1>12, <1>13, <1>14, <1>15, <1>16, <1>17
  DEF Next, CallerStep, TimerStep

\* Whatever addresses the allocator gives out again: an alarm of replyTimer never outlives the
\* ReplyContext it points to, whether the context is taken by a reply, a timeout, the caller or
\* the destructor of the receiver, unless AlarmTriggered took the context for a deleted one.
THEOREM AlarmPointsToContext == SafeSpec => []AlarmHasContext
<1>1. Init => AlarmInv
  BY DEF Init, AlarmInv, AlarmHasContext, Handler
<1>2. ReplyInv /\ FreshInv /\ AlarmInv /\ [Next]_vars => AlarmInv'
  BY NextAlarmInv
<1>3. AlarmInv => AlarmHasContext
  BY DEF AlarmInv
<1> QED
  BY <1>1, <1>2, <1>3, ReplyInvariant, FreshInvariant, PTL DEF SafeSpec

-----------------------------------------------------------------------------
(* The types of all the variables, whatever addresses are given out.       *)

MapTypes ==
  /\ replyMap \subseteq Call /\ armed \subseteq Call /\ mistaken \subseteq Call
  /\ serial \in [Call -> Nat] /\ addr \in [Call -> Addr]
  /\ mapLock \in Call \union {NoCall}

TimerType == timer \in TimerState

DispatchTypes ==
  /\ queue \in Seq(Message)
  /\ reentrancyLock \in Worker \union {NoWorker}
  /\ handling \in [Handler -> Call \union {NoCall}]
  /\ handled \in [Call -> Nat]

CallTypes ==
  /\ pc \in [Call -> Pc] /\ status \in [Call -> Status]
  /\ auth \in [Call -> Auth] /\ remote \in [Call -> Remote]
  /\ event \subseteq Sync /\ heapCtx \in [Call -> Heap]

StateTypes == phase \in Phase /\ gone \in BOOLEAN

\* The type invariant by its parts.
LEMMA TypeParts == TypeOK <=> MapTypes /\ TimerType /\ DispatchTypes /\ CallTypes /\ StateTypes
  BY DEF TypeOK, MapTypes, TimerType, DispatchTypes, CallTypes, StateTypes

LEMMA TypePartsPrime ==
  TypeOK' <=> MapTypes' /\ TimerType' /\ DispatchTypes' /\ CallTypes' /\ StateTypes'
  BY DEF TypeOK, MapTypes, TimerType, DispatchTypes, CallTypes, StateTypes

\* What the thread of replyTimer may be doing.
LEMMA TimerStates ==
  /\ Idle \in TimerState
  /\ \A c \in Call, a \in Addr : [at |-> "lookup", alarm |-> c, addr |-> a] \in TimerState
  /\ \A what \in {"dispatch", "handler"}, c, d \in Call, s \in Nat :
        [at |-> what, alarm |-> c, call |-> d, serial |-> s] \in TimerState
  /\ \A t \in TimerState :
        /\ t.at = "lookup" => t.alarm \in Call
        /\ t.at = "dispatch" => t.alarm \in Call /\ t.call \in Call /\ t.serial \in Nat
  BY DEF TimerState, Idle

\* A message to a call of the program.
LEMMA MessageType ==
  ASSUME DispatchTypes, NEW c \in Call, NEW s \in Nat, PushToEndpoint(c, s) \/ DispatchMessage(c, s)
  PROVE  queue' \in Seq(Message)
<1>1. [call |-> c, serial |-> s] \in Message
  BY DEF Message
<1>2. queue \in Seq(Message)
  BY DEF DispatchTypes
<1>3. Append(queue, [call |-> c, serial |-> s]) \in Seq(Message)
  BY <1>1, <1>2
<1> QED
  BY <1>2, <1>3 DEF PushToEndpoint, DispatchMessage

\* The handler a reply finds is the handler of a call.
LEMMA HandleTypes ==
  ASSUME MapTypes, DispatchTypes, NEW h \in Handler, NEW c, NEW s, HandleMethodReply(h, c, s)
  PROVE  /\ replyMap' \subseteq Call
         /\ handling' \in [Handler -> Call \union {NoCall}] /\ handled' \in [Call -> Nat]
<1>1. CASE RemoveReplyHandler(c, s) /\ handling' = [handling EXCEPT ![h] = c]
           /\ handled' = [handled EXCEPT ![c] = handled[c] + 1]
  <2>1. c \in Call /\ replyMap' = replyMap \ {c}
    BY <1>1 DEF RemoveReplyHandler, MapTypes
  <2> QED
    BY <1>1, <2>1 DEF MapTypes, DispatchTypes
<1>2. CASE UNCHANGED <<replyMap, handling, handled>>
  BY <1>2 DEF MapTypes, DispatchTypes
<1> QED
  BY <1>1, <1>2 DEF HandleMethodReply

\* The steps of a call's own thread.
LEMMA CallerTypes ==
  ASSUME TypeOK, NEW c \in Call, CallerStep(c) \/ WaitInterrupted(c) \/ RegisterReplyHandler(c)
  PROVE  TypeOK'
<1> USE DEF callVars, mapVars, timerVars, dispVars
<1>1. MapTypes /\ TimerType /\ DispatchTypes /\ CallTypes /\ StateTypes
  BY TypeParts
<1>2. UNCHANGED <<mapLock, timer, mistaken, queue, reentrancyLock, handling, handled, phase, gone>>
  BY DEF CallerStep, AddTimeout, PushMessage, GiveUp, WaitReturns, WaitAborted, WaitInterrupted, RegisterReplyHandler
<1>3. TimerType' /\ DispatchTypes' /\ StateTypes'
  BY <1>1, <1>2 DEF TimerType, DispatchTypes, StateTypes
<1>4. ASSUME Withdraw(c) PROVE /\ replyMap' \subseteq Call /\ armed' \subseteq Call
                               /\ status' \in [Call -> Status] /\ heapCtx' \in [Call -> Heap]
  BY <1>1, <1>4 DEF Withdraw, DeleteContexts, MapTypes, CallTypes, Status, Heap
<1>5. CASE AddTimeout(c)
  <2>1. UNCHANGED <<serial, addr, auth, remote, event>>
    BY <1>5 DEF AddTimeout
  <2>2. pc' \in [Call -> Pc]
    BY <1>1, <1>5 DEF AddTimeout, CallTypes, Pc
  <2>3. /\ replyMap' \subseteq Call /\ armed' \subseteq Call
        /\ status' \in [Call -> Status] /\ heapCtx' \in [Call -> Heap]
    BY <1>1, <1>4, <1>5 DEF AddTimeout, MapTypes, CallTypes
  <2>4. MapTypes'
    BY <1>1, <1>2, <2>1, <2>3 DEF MapTypes
  <2>5. CallTypes'
    BY <1>1, <2>1, <2>2, <2>3 DEF CallTypes
  <2> QED
    BY <1>3, <2>4, <2>5, TypePartsPrime
<1>6. CASE GiveUp(c)
  <2>1. UNCHANGED <<serial, addr, auth, remote, event>>
    BY <1>6 DEF GiveUp
  <2>2. pc' \in [Call -> Pc]
    BY <1>1, <1>6 DEF GiveUp, CallTypes, Pc
  <2>3. /\ replyMap' \subseteq Call /\ armed' \subseteq Call
        /\ status' \in [Call -> Status] /\ heapCtx' \in [Call -> Heap]
    BY <1>1, <1>4, <1>6 DEF GiveUp, UnregisterReplyHandler, MapTypes, CallTypes, Status
  <2>4. MapTypes'
    BY <1>1, <1>2, <2>1, <2>3 DEF MapTypes
  <2>5. CallTypes'
    BY <1>1, <2>1, <2>2, <2>3 DEF CallTypes
  <2> QED
    BY <1>3, <2>4, <2>5, TypePartsPrime
<1>7. CASE PushMessage(c)
  <2>1. UNCHANGED <<replyMap, armed, addr, event, heapCtx>>
    BY <1>7 DEF PushMessage
  <2>2. serial' \in [Call -> Nat]
    BY <1>1, <1>7 DEF PushMessage, UpdateSerialNumber, MapTypes
  <2>3. pc' \in [Call -> Pc] /\ status' \in [Call -> Status]
    BY <1>1, <1>7 DEF PushMessage, CallTypes, Pc, Status
  <2>4. auth' \in [Call -> Auth] /\ remote' \in [Call -> Remote]
    BY <1>1, <1>7 DEF PushMessage, CallTypes, Auth, Remote
  <2>5. MapTypes'
    BY <1>1, <1>2, <2>1, <2>2 DEF MapTypes
  <2>6. CallTypes'
    BY <1>1, <2>1, <2>3, <2>4 DEF CallTypes
  <2> QED
    BY <1>3, <2>5, <2>6, TypePartsPrime
<1>8. CASE WaitReturns(c) \/ WaitAborted(c) \/ WaitInterrupted(c)
  <2>1. UNCHANGED <<replyMap, armed, serial, addr, auth, remote, event, heapCtx>>
    BY <1>8 DEF WaitReturns, WaitAborted, WaitInterrupted
  <2>2. pc' \in [Call -> Pc] /\ status' \in [Call -> Status]
    BY <1>1, <1>8 DEF WaitReturns, WaitAborted, WaitInterrupted, CallTypes, Pc, Status
  <2>3. MapTypes' /\ CallTypes'
    BY <1>1, <1>2, <2>1, <2>2 DEF MapTypes, CallTypes
  <2> QED
    BY <1>3, <2>3, TypePartsPrime
<1>9. CASE RegisterReplyHandler(c)
  <2>1. UNCHANGED <<armed, serial, auth, remote, event>>
    BY <1>9 DEF RegisterReplyHandler
  <2>2. addr' \in [Call -> Addr]
    BY <1>1, <1>9 DEF RegisterReplyHandler, Allocate, MapTypes
  <2>3. replyMap' \subseteq Call
    BY <1>1, <1>9 DEF RegisterReplyHandler, MapTypes
  <2>4. pc' \in [Call -> Pc] /\ status' \in [Call -> Status]
    BY <1>1, <1>9 DEF RegisterReplyHandler, CallTypes, Pc, Status
  <2>5. heapCtx' \in [Call -> Heap]
    BY <1>1, <1>9 DEF RegisterReplyHandler, CallTypes, Heap
  <2>6. MapTypes' /\ CallTypes'
    BY <1>1, <1>2, <2>1, <2>2, <2>3, <2>4, <2>5 DEF MapTypes, CallTypes
  <2> QED
    BY <1>3, <2>6, TypePartsPrime
<1> QED
  BY <1>5, <1>6, <1>7, <1>8, <1>9 DEF CallerStep

\* The steps of the peer, of the authentication and of the destructor of a receiver.
LEMMA PeerTypes ==
  ASSUME TypeOK, (\E c \in Call : Reply(c) \/ AuthStep(c)) \/ UnregisterAllHandlers \/ StopStep
  PROVE  TypeOK'
<1> USE DEF callVars, mapVars, timerVars, dispVars
<1>1. MapTypes /\ TimerType /\ DispatchTypes /\ CallTypes /\ StateTypes
  BY TypeParts
<1>2. ASSUME NEW c \in Call, Reply(c) PROVE TypeOK'
  <2>1. queue' \in Seq(Message) /\ remote' \in [Call -> Remote]
    BY <1>1, <1>2, MessageType DEF Reply, MapTypes, CallTypes, Remote
  <2> QED
    BY <1>1, <1>2, <2>1, TypePartsPrime DEF Reply, MapTypes, TimerType, DispatchTypes, CallTypes, StateTypes
<1>3. ASSUME NEW c \in Call, AuthStep(c) PROVE TypeOK'
  <2>1. UNCHANGED <<pc, status, event, heapCtx, replyMap, addr, timer, mistaken, reentrancyLock, handling, handled, phase, gone>>
    BY <1>3 DEF AuthStep, PauseReplyHandlerTimeout, PauseEnds, AuthenticatePeer, ResumeReplyHandlerTimeout, PushDelayed
  <2>2. PICK a \in Auth : auth' = [auth EXCEPT ![c] = a]
    BY <1>3 DEF AuthStep, PauseReplyHandlerTimeout, PauseEnds, AuthenticatePeer, ResumeReplyHandlerTimeout, PushDelayed, Auth
  <2>3. mapLock' \in Call \union {NoCall} /\ armed' \subseteq Call
    BY <1>1, <1>3 DEF AuthStep, PauseReplyHandlerTimeout, PauseEnds, AuthenticatePeer, ResumeReplyHandlerTimeout, PushDelayed, MapTypes
  <2>4. serial' \in [Call -> Nat]
    BY <1>1, <1>3 DEF AuthStep, PauseReplyHandlerTimeout, PauseEnds, AuthenticatePeer, ResumeReplyHandlerTimeout, PushDelayed, UpdateSerialNumber, MapTypes
  <2>5. remote' \in [Call -> Remote]
    BY <1>1, <1>3 DEF AuthStep, PauseReplyHandlerTimeout, PauseEnds, AuthenticatePeer, ResumeReplyHandlerTimeout, PushDelayed, CallTypes, Remote
  <2>6. queue' \in Seq(Message)
    <3>1. CASE PushToEndpoint(c, serial[c])
      BY <1>1, <3>1, MessageType DEF MapTypes
    <3>2. CASE UNCHANGED queue
      BY <1>1, <3>2 DEF DispatchTypes
    <3> QED
      BY <1>3, <3>1, <3>2 DEF AuthStep, PauseReplyHandlerTimeout, PauseEnds, AuthenticatePeer, ResumeReplyHandlerTimeout, PushDelayed
  <2>7. MapTypes' /\ CallTypes'
    BY <1>1, <2>1, <2>2, <2>3, <2>4, <2>5 DEF MapTypes, CallTypes
  <2>8. TimerType' /\ DispatchTypes' /\ StateTypes'
    BY <1>1, <2>1, <2>6 DEF TimerType, DispatchTypes, StateTypes
  <2> QED
    BY <2>7, <2>8, TypePartsPrime
<1>4. ASSUME UnregisterAllHandlers PROVE TypeOK'
  BY <1>1, <1>4, TypePartsPrime
  DEF UnregisterAllHandlers, DeleteContexts, MapTypes, TimerType, DispatchTypes, CallTypes, StateTypes
<1>5. ASSUME StopStep PROVE TypeOK'
  BY <1>1, <1>5, TypePartsPrime DEF StopStep, MapTypes, TimerType, DispatchTypes, CallTypes, StateTypes, Phase
<1> QED
  BY <1>2, <1>3, <1>4, <1>5

\* The steps of the dispatcher and of the reply timer.
LEMMA ThreadTypes ==
  ASSUME TypeOK, \/ \E h \in Handler : HandlerReturns(h)
                 \/ \E w \in Worker : Dispatch(w) \/ EnableReentrancy(w)
                 \/ TimerStep
  PROVE  TypeOK'
<1> USE DEF callVars, mapVars, timerVars, dispVars
<1>1. MapTypes /\ TimerType /\ DispatchTypes /\ CallTypes /\ StateTypes
  BY TypeParts
<1>2. ASSUME NEW h \in Handler, HandlerReturns(h) PROVE TypeOK'
  <2>1. handling[h] \in Call /\ UNCHANGED <<pc, status, remote, replyMap, serial, addr, mapLock, mistaken, queue, handled, phase, auth, gone>>
    BY <1>1, <1>2 DEF HandlerReturns, DispatchTypes
  <2>2. event' \subseteq Sync /\ heapCtx' \in [Call -> Heap]
    BY <1>1, <1>2 DEF HandlerReturns, CallTypes, Heap
  <2>3. armed' \subseteq Call /\ timer' \in TimerState
    BY <1>1, <1>2, TimerStates DEF HandlerReturns, DeleteContexts, MapTypes, TimerType
  <2>4. handling' \in [Handler -> Call \union {NoCall}] /\ reentrancyLock' \in Worker \union {NoWorker}
    BY <1>1, <1>2 DEF HandlerReturns, DispatchTypes
  <2> QED
    BY <1>1, <2>1, <2>2, <2>3, <2>4, TypePartsPrime DEF MapTypes, TimerType, DispatchTypes, CallTypes, StateTypes
<1>3. ASSUME NEW w \in Worker, Dispatch(w) PROVE TypeOK'
  <2>1. w \in Handler /\ UNCHANGED <<pc, status, remote, event, heapCtx, serial, addr, mapLock, armed, timer, mistaken, phase, auth, gone>>
    BY <1>3 DEF Dispatch, Handler
  <2>2. queue' \in Seq(Message)
    BY <1>1, <1>3 DEF Dispatch, DispatchTypes
  <2>3. /\ replyMap' \subseteq Call
        /\ handling' \in [Handler -> Call \union {NoCall}] /\ handled' \in [Call -> Nat]
    BY <1>1, <1>3, <2>1, HandleTypes DEF Dispatch, MapTypes, DispatchTypes
  <2>4. reentrancyLock' \in Worker \union {NoWorker}
    BY <1>1, <1>3 DEF Dispatch, DispatchTypes
  <2> QED
    BY <1>1, <2>1, <2>2, <2>3, <2>4, TypePartsPrime DEF MapTypes, TimerType, DispatchTypes, CallTypes, StateTypes
<1>4. ASSUME NEW w \in Worker, EnableReentrancy(w) PROVE TypeOK'
  BY <1>1, <1>4, TypePartsPrime DEF EnableReentrancy, MapTypes, TimerType, DispatchTypes, CallTypes, StateTypes
<1>5. ASSUME NEW c \in Call, AlarmFires(c) PROVE TypeOK'
  <2>1. timer' \in TimerState
    BY <1>1, <1>5, TimerStates DEF AlarmFires, MapTypes
  <2> QED
    BY <1>1, <1>5, <2>1, TypePartsPrime DEF AlarmFires, MapTypes, TimerType, DispatchTypes, CallTypes, StateTypes
<1>6. ASSUME LookupTimedOut PROVE TypeOK'
  <2>1. timer' \in TimerState
    <3>1. timer.alarm \in Call
      BY <1>1, <1>6, TimerStates DEF LookupTimedOut, TimerType
    <3> QED
      BY <1>1, <1>6, <3>1, TimerStates DEF LookupTimedOut, MapTypes
  <2> QED
    BY <1>1, <1>6, <2>1, TypePartsPrime DEF LookupTimedOut, MapTypes, TimerType, DispatchTypes, CallTypes, StateTypes
<1>7. ASSUME ReportTimeout PROVE TypeOK'
  <2>1. timer.alarm \in Call /\ timer.call \in Call /\ timer.serial \in Nat
    BY <1>1, <1>7, TimerStates DEF ReportTimeout, TimerType
  <2>2. timer' \in TimerState
    BY <1>7, <2>1, TimerStates DEF ReportTimeout
  <2>3. queue' \in Seq(Message)
    BY <1>1, <1>7, <2>1, MessageType DEF ReportTimeout, DispatchTypes
  <2>4. ReplyTimer \in Handler
    BY DEF Handler
  <2>5. /\ replyMap' \subseteq Call
        /\ handling' \in [Handler -> Call \union {NoCall}] /\ handled' \in [Call -> Nat]
    BY <1>1, <1>7, <2>4, HandleTypes DEF ReportTimeout, MapTypes, DispatchTypes
  <2>6. UNCHANGED <<pc, status, remote, event, heapCtx, serial, addr, mapLock, armed, mistaken, reentrancyLock, phase, auth, gone>>
    BY <1>7 DEF ReportTimeout
  <2> QED
    BY <1>1, <2>2, <2>3, <2>5, <2>6, TypePartsPrime DEF MapTypes, TimerType, DispatchTypes, CallTypes, StateTypes
<1> QED
  BY <1>2, <1>3, <1>4, <1>5, <1>6, <1>7 DEF TimerStep

\* The variables have their types, whether addresses are given out again or not: in particular
\* every message in the dispatcher, and the timeout being reported, is about a call.
THEOREM TypeCorrect == SafeSpec => []TypeOK
<1>1. Init => TypeOK
  <2> SUFFICES ASSUME Init PROVE TypeOK
    OBVIOUS
  <2>1. (CHOOSE x \in Addr : TRUE) \in Addr
    OBVIOUS
  <2>2. MapTypes
    BY <2>1 DEF Init, MapTypes
  <2>3. TimerType
    BY TimerStates DEF Init, TimerType
  <2>4. DispatchTypes
    BY EmptySeq DEF Init, DispatchTypes
  <2>5. CallTypes
    BY DEF Init, CallTypes, Pc, Status, Auth, Remote, Heap
  <2>6. StateTypes
    BY DEF Init, StateTypes, Phase
  <2> QED
    BY <2>2, <2>3, <2>4, <2>5, <2>6, TypeParts
<1>2. TypeOK /\ [Next]_vars => TypeOK'
  <2> SUFFICES ASSUME TypeOK, [Next]_vars PROVE TypeOK'
    OBVIOUS
  <2>1. CASE UNCHANGED vars
    BY <2>1, TypeParts, TypePartsPrime
    DEF vars, callVars, mapVars, timerVars, dispVars, MapTypes, TimerType, DispatchTypes, CallTypes, StateTypes
  <2>2. CASE Next
    BY <2>2, CallerTypes, PeerTypes, ThreadTypes DEF Next
  <2> QED
    BY <2>1, <2>2
<1> QED
  BY <1>1, <1>2, PTL DEF SafeSpec
=============================================================================
