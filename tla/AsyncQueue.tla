----------------------------- MODULE AsyncQueue -----------------------------
(***************************************************************************)
(* How the Node binding carries a native AllJoyn callback to the           *)
(* JavaScript thread.  Every listener of src/src keeps, per JavaScript     *)
(* function, a holder (a queue and its mutex) and a uv_async_t.  The       *)
(* native thread stores the holder in async.data, appends to the queue     *)
(* under the mutex and calls uv_async_send; the loop thread, woken for the *)
(* handle, moves the whole queue to a local one under the mutex and calls  *)
(* JavaScript once per element.  uv_async_send coalesces: several sends    *)
(* before the loop looks at the handle are one wake-up.                    *)
(***************************************************************************)
EXTENDS Naturals, Sequences

CONSTANTS Holder,    \* the callback holders, each with its uv_async_t
          Thread,    \* native threads that run listener callbacks
          Event,     \* payloads (a bus name, a message)
          NoHolder,  \* "the loop runs no callback"
          MaxCalls   \* bound: native callbacks per holder

ASSUME ConstantsAssumption == /\ NoHolder \notin Holder
                              /\ MaxCalls \in Nat

VARIABLES
  asyncData,  \* per handle: has async.data been set to its holder?
  dataqueue,  \* per holder: the shared queue
  pending,    \* per handle: a send the loop has not looked at yet
  caller,     \* per native thread: its place in a callback, holder and payload
  running,    \* the holder whose callback the loop thread is in
  taken,      \* has that callback moved the shared queue already?
  local,      \* its local queue
  delivered,  \* per holder: the calls made to JavaScript
  emplaced    \* per holder: the payloads appended, in order (history)

vars == <<asyncData, dataqueue, pending, caller, running, taken, local,
          delivered, emplaced>>

Empty == [h \in Holder |-> <<>>]
Idle  == [at |-> "idle"]
Busy  == [at : {"emplace", "send"}, holder : Holder, event : Event]

Init == /\ asyncData = [h \in Holder |-> FALSE]
        /\ dataqueue = Empty
        /\ pending = [h \in Holder |-> FALSE]
        /\ caller = [t \in Thread |-> Idle]
        /\ running = NoHolder
        /\ taken = FALSE
        /\ local = <<>>
        /\ delivered = Empty
        /\ emplaced = Empty

-----------------------------------------------------------------------------
(* The native side: FoundAdvertisedName, LostAdvertisedName,               *)
(* NameOwnerChanged, Signal and SessionJoined are the same three steps.    *)

\* Mutant: the holder is never stored in the handle.
SetDataForgotten(t, h, e) ==
  /\ caller[t] = Idle
  /\ Len(emplaced[h]) < MaxCalls
  /\ caller' = [caller EXCEPT ![t] = [at |-> "emplace", holder |-> h, event |-> e]]
  /\ UNCHANGED <<asyncData, dataqueue, pending, running, taken, local, delivered, emplaced>>

\* async.data = &holder
SetData(t, h, e) ==
  /\ caller[t] = Idle
  /\ Len(emplaced[h]) < MaxCalls
  /\ asyncData' = [asyncData EXCEPT ![h] = TRUE]
  /\ caller' = [caller EXCEPT ![t] = [at |-> "emplace", holder |-> h, event |-> e]]
  /\ UNCHANGED <<dataqueue, pending, running, taken, local, delivered, emplaced>>

\* Mutant: the wrong variable is appended to the queue.
EmplaceWrongArgument(t) ==
  /\ caller[t].at = "emplace"
  /\ LET h == caller[t].holder
     IN  /\ dataqueue' = [dataqueue EXCEPT ![h] = Append(@, h)]
         /\ emplaced' = [emplaced EXCEPT ![h] = Append(@, h)]
  /\ caller' = [caller EXCEPT ![t].at = "send"]
  /\ UNCHANGED <<asyncData, pending, running, taken, local, delivered>>

\* lock(datalock); dataqueue.emplace(e); unlock(datalock)
Emplace(t) ==
  /\ caller[t].at = "emplace"
  /\ LET h == caller[t].holder
         e == caller[t].event
     IN  /\ dataqueue' = [dataqueue EXCEPT ![h] = Append(@, e)]
         /\ emplaced' = [emplaced EXCEPT ![h] = Append(@, e)]
  /\ caller' = [caller EXCEPT ![t].at = "send"]
  /\ UNCHANGED <<asyncData, pending, running, taken, local, delivered>>

\* Mutant: no send while the loop already runs this holder's callback.
AsyncSendUnlessRunning(t) ==
  /\ caller[t].at = "send"
  /\ pending' = [pending EXCEPT ![caller[t].holder] = @ \/ running # caller[t].holder]
  /\ caller' = [caller EXCEPT ![t] = Idle]
  /\ UNCHANGED <<asyncData, dataqueue, running, taken, local, delivered, emplaced>>

\* uv_async_send(&async): the handle becomes pending, however often it is called
AsyncSend(t) ==
  /\ caller[t].at = "send"
  /\ pending' = [pending EXCEPT ![caller[t].holder] = TRUE]
  /\ caller' = [caller EXCEPT ![t] = Idle]
  /\ UNCHANGED <<asyncData, dataqueue, running, taken, local, delivered, emplaced>>

-----------------------------------------------------------------------------
(* The loop thread.                                                        *)

\* libuv: clear the handle's pending mark, then call its callback.  libuv says
\* nothing of the order in which it looks at two pending handles.
LoopWake(h) ==
  /\ running = NoHolder
  /\ pending[h]
  /\ pending' = [pending EXCEPT ![h] = FALSE]
  /\ running' = h
  /\ taken' = FALSE
  /\ UNCHANGED <<asyncData, dataqueue, caller, local, delivered, emplaced>>

\* Mutant: the shared queue is copied, not moved.
TakeQueueCopy ==
  /\ running # NoHolder
  /\ ~taken
  /\ local' = dataqueue[running]
  /\ taken' = TRUE
  /\ UNCHANGED <<asyncData, dataqueue, pending, caller, running, delivered, emplaced>>

\* lock(datalock); local = std::move(holder->dataqueue); unlock(datalock)
TakeQueue ==
  /\ running # NoHolder
  /\ ~taken
  /\ local' = dataqueue[running]
  /\ dataqueue' = [dataqueue EXCEPT ![running] = <<>>]
  /\ taken' = TRUE
  /\ UNCHANGED <<asyncData, pending, caller, running, delivered, emplaced>>

\* Mutant: one JavaScript call per wake-up, as if every send woke the loop.
CallJsOncePerWake ==
  /\ taken
  /\ local # <<>>
  /\ delivered' = [delivered EXCEPT ![running] = Append(@, Head(local))]
  /\ local' = <<>>
  /\ UNCHANGED <<asyncData, dataqueue, pending, caller, running, taken, emplaced>>

\* holder->callback->Call(...) for the front element, then pop
CallJs ==
  /\ taken
  /\ local # <<>>
  /\ delivered' = [delivered EXCEPT ![running] = Append(@, Head(local))]
  /\ local' = Tail(local)
  /\ UNCHANGED <<asyncData, dataqueue, pending, caller, running, taken, emplaced>>

\* the local queue is empty: back to the loop
LoopReturn ==
  /\ taken
  /\ local = <<>>
  /\ running' = NoHolder
  /\ taken' = FALSE
  /\ UNCHANGED <<asyncData, dataqueue, pending, caller, local, delivered, emplaced>>

LoopStep == (\E h \in Holder : LoopWake(h)) \/ TakeQueue \/ CallJs \/ LoopReturn

Next == \/ \E t \in Thread : \/ \E h \in Holder, e \in Event : SetData(t, h, e)
                             \/ Emplace(t)
                             \/ AsyncSend(t)
        \/ LoopStep

SafeSpec == Init /\ [][Next]_vars

\* A native thread inside a callback is scheduled; the loop looks at every
\* pending handle again and again and JavaScript functions return.
Fairness ==
  /\ \A t \in Thread : WF_vars(Emplace(t)) /\ WF_vars(AsyncSend(t))
  /\ \A h \in Holder : SF_vars(LoopWake(h))
  /\ WF_vars(TakeQueue) /\ WF_vars(CallJs) /\ WF_vars(LoopReturn)

Spec == SafeSpec /\ Fairness

-----------------------------------------------------------------------------
TypeOK ==
  /\ asyncData \in [Holder -> BOOLEAN]
  /\ dataqueue \in [Holder -> Seq(Event)]
  /\ pending \in [Holder -> BOOLEAN]
  /\ caller \in [Thread -> {Idle} \union Busy]
  /\ running \in Holder \union {NoHolder}
  /\ taken \in BOOLEAN
  /\ local \in Seq(Event)
  /\ delivered \in [Holder -> Seq(Event)]
  /\ emplaced \in [Holder -> Seq(Event)]

\* What JavaScript has still to see of a holder.
Inflight(h) == (IF running = h THEN local ELSE <<>>) \o dataqueue[h]

\* Nothing is lost, duplicated or reordered between emplace and the JavaScript
\* call of the same holder, whatever the native threads and the loop do.
ExactlyOnceInOrder == \A h \in Holder : emplaced[h] = delivered[h] \o Inflight(h)

\* The coalescing uv_async_send never leaves an element behind: as long as the
\* shared queue of a holder is not empty, a wake-up for it is on its way.
NoLostWakeup ==
  \A h \in Holder : dataqueue[h] # <<>> =>
    \/ pending[h]
    \/ running = h /\ ~taken
    \/ \E t \in Thread : caller[t].at = "send" /\ caller[t].holder = h

\* callback() dereferences handle->data without a test: whenever the loop runs
\* the callback of a handle, some native thread has stored the holder before.
HolderSetBeforeCallback == running # NoHolder => asyncData[running]

\* The hand-off implements the per-holder FIFO channel.
Channel == INSTANCE EventChannel WITH inflight <- [h \in Holder |-> Inflight(h)]
ChannelSafeSpec == Channel!SafeSpec
ChannelSpec == Channel!Spec
=============================================================================
