-------------------------- MODULE AsyncQueueProofs --------------------------
(***************************************************************************)
(* Proofs about the uv_async hand-off, for any number of holders, native   *)
(* threads, payloads and calls.                                            *)
(***************************************************************************)
EXTENDS AsyncQueue, SequenceTheorems, TLAPS

\* The local queue of the loop callback is empty outside the delivery phase.
LocalOnlyWhenTaken == /\ ~taken => local = <<>>
                      /\ taken => running # NoHolder

\* A handle with work under way for it has its holder stored.
DataSetFirst ==
  /\ \A h \in Holder : pending[h] => asyncData[h]
  /\ \A t \in Thread : caller[t] # Idle => asyncData[caller[t].holder]
  /\ HolderSetBeforeCallback

\* The inductive invariant.
IInv == /\ TypeOK
        /\ LocalOnlyWhenTaken
        /\ ExactlyOnceInOrder
        /\ NoLostWakeup
        /\ DataSetFirst

-----------------------------------------------------------------------------
(* Facts about sequences.                                                  *)

\* Appending at the end of a concatenation (std::queue::emplace on the shared queue).
LEMMA ConcatAppend ==
  ASSUME NEW S, NEW s \in Seq(S), NEW t \in Seq(S), NEW x \in S
  PROVE  s \o Append(t, x) = Append(s \o t, x)
<1>1. /\ Append(t, x) \in Seq(S)
      /\ s \o t \in Seq(S)
  OBVIOUS
<1>2. /\ s \o Append(t, x) \in Seq(S)
      /\ Append(s \o t, x) \in Seq(S)
  BY <1>1
<1>3. Len(s \o Append(t, x)) = Len(Append(s \o t, x))
  BY <1>1, <1>2
<1>4. \A i \in 1..Len(s \o Append(t, x)) : (s \o Append(t, x))[i] = Append(s \o t, x)[i]
  BY <1>1, <1>2
<1> QED
  BY <1>2, <1>3, <1>4, SeqEqual

\* Moving the front of the second sequence to the back of the first (front, Call, pop).
LEMMA ConcatShift ==
  ASSUME NEW S, NEW s \in Seq(S), NEW t \in Seq(S), t # <<>>
  PROVE  /\ Append(s, Head(t)) \o Tail(t) = s \o t
         /\ Append(s, Head(t)) \in Seq(S)
         /\ Tail(t) \in Seq(S)
         /\ Head(t) \in S
<1>1. /\ Head(t) \in S
      /\ Tail(t) \in Seq(S)
      /\ Len(Tail(t)) = Len(t) - 1
      /\ \A i \in 1..Len(Tail(t)) : Tail(t)[i] = t[i+1]
      /\ Head(t) = t[1]
      /\ Len(t) \in Nat /\ Len(t) > 0
  BY HeadTailProperties
<1>2. Append(s, Head(t)) \in Seq(S)
  BY <1>1
<1>3. /\ Append(s, Head(t)) \o Tail(t) \in Seq(S)
      /\ s \o t \in Seq(S)
  BY <1>1, <1>2
<1>4. Len(Append(s, Head(t)) \o Tail(t)) = Len(s \o t)
  BY <1>1, <1>2
<1>5. \A i \in 1..Len(s \o t) : (Append(s, Head(t)) \o Tail(t))[i] = (s \o t)[i]
  BY <1>1, <1>2, <1>3
<1> QED
  BY <1>1, <1>2, <1>3, <1>4, <1>5, SeqEqual

\* The front of a concatenation is the front of its first part.
LEMMA HeadTailConcat ==
  ASSUME NEW S, NEW s \in Seq(S), NEW t \in Seq(S), s # <<>>
  PROVE  /\ s \o t # <<>>
         /\ Head(s \o t) = Head(s)
         /\ Tail(s \o t) = Tail(s) \o t
<1>1. /\ Len(s) \in Nat \ {0}
      /\ Tail(s) \in Seq(S)
      /\ Len(Tail(s)) = Len(s) - 1
      /\ \A i \in 1..Len(Tail(s)) : Tail(s)[i] = s[i+1]
  BY EmptySeq, HeadTailProperties
<1>2. /\ s \o t \in Seq(S)
      /\ Len(s \o t) = Len(s) + Len(t)
      /\ Len(t) \in Nat
      /\ \A i \in 1..Len(s) + Len(t) : (s \o t)[i] = IF i <= Len(s) THEN s[i] ELSE t[i - Len(s)]
  BY ConcatProperties
<1>3. s \o t # <<>>
  BY <1>1, <1>2, EmptySeq
<1>4. /\ Tail(s \o t) \in Seq(S)
      /\ Len(Tail(s \o t)) = Len(s) + Len(t) - 1
      /\ \A i \in 1..Len(Tail(s \o t)) : Tail(s \o t)[i] = (s \o t)[i+1]
  BY <1>2, <1>3, HeadTailProperties
<1>5. /\ Tail(s) \o t \in Seq(S)
      /\ Len(Tail(s) \o t) = Len(s) - 1 + Len(t)
      /\ \A i \in 1..(Len(s) - 1 + Len(t)) :
            (Tail(s) \o t)[i] = IF i <= Len(s) - 1 THEN Tail(s)[i] ELSE t[i - (Len(s) - 1)]
  BY <1>1, <1>2, ConcatProperties
<1>6. \A i \in 1..Len(Tail(s \o t)) : Tail(s \o t)[i] = (Tail(s) \o t)[i]
  BY <1>1, <1>2, <1>4, <1>5
<1>7. Head(s \o t) = Head(s)
  BY <1>1, <1>2, <1>3
<1> QED
  BY <1>3, <1>4, <1>5, <1>6, <1>7, SeqEqual

-----------------------------------------------------------------------------
\* The constructors leave every queue and handle empty.
LEMMA InitIInv == Init => IInv
<1> SUFFICES ASSUME Init PROVE IInv
  OBVIOUS
<1>0. <<>> \in Seq(Event) /\ <<>> \o <<>> = <<>>
  BY EmptySeq, ConcatEmptySeq
<1>1. TypeOK
  <2>1. Empty \in [Holder -> Seq(Event)]
    BY <1>0 DEF Empty
  <2>2. [h \in Holder |-> FALSE] \in [Holder -> BOOLEAN]
    OBVIOUS
  <2>3. [t \in Thread |-> Idle] \in [Thread -> {Idle} \union Busy]
    OBVIOUS
  <2> QED
    BY <1>0, <2>1, <2>2, <2>3 DEF Init, TypeOK
<1>2. LocalOnlyWhenTaken
  BY DEF Init, LocalOnlyWhenTaken
<1>3. ExactlyOnceInOrder
  <2> SUFFICES ASSUME NEW h \in Holder PROVE emplaced[h] = delivered[h] \o Inflight(h)
    BY DEF ExactlyOnceInOrder
  <2>1. emplaced[h] = <<>> /\ delivered[h] = <<>> /\ dataqueue[h] = <<>> /\ local = <<>>
    BY DEF Init, Empty
  <2> QED
    BY <1>0, <2>1 DEF Inflight
<1>4. NoLostWakeup
  BY DEF Init, NoLostWakeup, Empty
<1>5. DataSetFirst
  BY DEF Init, DataSetFirst, HolderSetBeforeCallback
<1> QED
  BY <1>1, <1>2, <1>3, <1>4, <1>5 DEF IInv

\* One step preserves the types.
LEMMA NextTypeOK == TypeOK /\ LocalOnlyWhenTaken /\ [Next]_vars => TypeOK'
<1> SUFFICES ASSUME TypeOK, LocalOnlyWhenTaken, [Next]_vars PROVE TypeOK'
  OBVIOUS
<1>1. ASSUME NEW t \in Thread, NEW h \in Holder, NEW e \in Event, SetData(t, h, e) PROVE TypeOK'
  BY <1>1 DEF TypeOK, SetData, Busy, Idle
<1>2. ASSUME NEW t \in Thread, Emplace(t) PROVE TypeOK'
  <2>1. caller[t] \in Busy
    BY <1>2 DEF TypeOK, Emplace, Idle
  <2>2. [caller[t] EXCEPT !.at = "send"] \in Busy
    BY <2>1 DEF Busy
  <2> QED
    BY <1>2, <2>1, <2>2 DEF TypeOK, Emplace, Busy
<1>3. ASSUME NEW t \in Thread, AsyncSend(t) PROVE TypeOK'
  BY <1>3 DEF TypeOK, AsyncSend
<1>4. ASSUME NEW h \in Holder, LoopWake(h) PROVE TypeOK'
  BY <1>4 DEF TypeOK, LoopWake
<1>5. CASE TakeQueue
  BY <1>5 DEF TypeOK, TakeQueue
<1>6. CASE CallJs
  <2>1. running \in Holder
    BY <1>6 DEF TypeOK, CallJs, LocalOnlyWhenTaken
  <2>2. Head(local) \in Event /\ Tail(local) \in Seq(Event)
    BY <1>6, ConcatShift DEF TypeOK, CallJs
  <2> QED
    BY <1>6, <2>1, <2>2 DEF TypeOK, CallJs
<1>7. CASE LoopReturn
  BY <1>7 DEF TypeOK, LoopReturn
<1>8. CASE UNCHANGED vars
  BY <1>8 DEF TypeOK, vars
<1> QED
  BY <1>1, <1>2, <1>3, <1>4, <1>5, <1>6, <1>7, <1>8 DEF Next, LoopStep
\* One step preserves the shape of the loop callback's local state.
LEMMA NextLocal == IInv /\ [Next]_vars => LocalOnlyWhenTaken'
<1> SUFFICES ASSUME IInv, [Next]_vars PROVE LocalOnlyWhenTaken'
  OBVIOUS
<1> QED
  BY ConstantsAssumption DEF IInv, TypeOK, LocalOnlyWhenTaken, Next, LoopStep, vars, SetData, Emplace,
     AsyncSend, LoopWake, TakeQueue, CallJs, LoopReturn

\* One step neither loses, duplicates nor reorders.
LEMMA NextExactlyOnce == IInv /\ [Next]_vars => ExactlyOnceInOrder'
<1> SUFFICES ASSUME IInv, [Next]_vars, NEW g \in Holder
             PROVE  emplaced'[g] = delivered'[g] \o Inflight(g)'
  BY DEF ExactlyOnceInOrder
<1> USE DEF Inflight
<1>0. /\ emplaced[g] = delivered[g] \o Inflight(g)
      /\ delivered[g] \in Seq(Event)
      /\ dataqueue[g] \in Seq(Event)
      /\ local \in Seq(Event)
      /\ Inflight(g) \in Seq(Event)
      /\ TypeOK
      /\ LocalOnlyWhenTaken
  <2>1. /\ TypeOK
        /\ LocalOnlyWhenTaken
        /\ emplaced[g] = delivered[g] \o Inflight(g)
    BY DEF IInv, ExactlyOnceInOrder
  <2>2. delivered[g] \in Seq(Event) /\ dataqueue[g] \in Seq(Event) /\ local \in Seq(Event)
    BY <2>1 DEF TypeOK
  <2>3. (IF running = g THEN local ELSE <<>>) \in Seq(Event)
    BY <2>2, EmptySeq
  <2> QED
    BY <2>1, <2>2, <2>3, ConcatProperties
<1>1. ASSUME NEW t \in Thread, NEW h \in Holder, NEW e \in Event, SetData(t, h, e)
      PROVE  emplaced'[g] = delivered'[g] \o Inflight(g)'
  BY <1>0, <1>1 DEF SetData
<1>2. ASSUME NEW t \in Thread, Emplace(t)
      PROVE  emplaced'[g] = delivered'[g] \o Inflight(g)'
  <2> DEFINE h == caller[t].holder
             e == caller[t].event
             l == IF running = g THEN local ELSE <<>>
  <2>1. h \in Holder /\ e \in Event
    BY <1>0, <1>2 DEF TypeOK, Emplace, Idle, Busy
  <2>2. CASE h # g
    BY <1>0, <1>2, <2>1, <2>2 DEF Emplace, TypeOK
  <2>3. CASE h = g
    <3>1. /\ emplaced'[g] = Append(emplaced[g], e)
          /\ dataqueue'[g] = Append(dataqueue[g], e)
          /\ UNCHANGED <<delivered, running, local>>
      BY <1>0, <1>2, <2>1, <2>3 DEF Emplace, TypeOK
    <3>0. \A s1, s2 \in Seq(Event) : s1 \o Append(s2, e) = Append(s1 \o s2, e)
      BY <2>1, ConcatAppend
    <3>a. l \in Seq(Event)
      BY <1>0, EmptySeq
    <3>2. l \o Append(dataqueue[g], e) = Append(l \o dataqueue[g], e)
      <4> HIDE DEF l, e
      <4> QED BY <1>0, <3>0, <3>a
    <3>3. delivered[g] \o Append(l \o dataqueue[g], e) = Append(delivered[g] \o (l \o dataqueue[g]), e)
      <4>1. l \o dataqueue[g] \in Seq(Event)
        BY <1>0
      <4> HIDE DEF l, e
      <4> QED BY <1>0, <3>0, <4>1
    <3> QED
      BY <1>0, <3>1, <3>2, <3>3
  <2> QED
    BY <2>2, <2>3
<1>3. ASSUME NEW t \in Thread, AsyncSend(t)
      PROVE  emplaced'[g] = delivered'[g] \o Inflight(g)'
  BY <1>0, <1>3 DEF AsyncSend
<1>4. ASSUME NEW h \in Holder, LoopWake(h)
      PROVE  emplaced'[g] = delivered'[g] \o Inflight(g)'
  <2>1. local = <<>>
    BY <1>0, <1>4 DEF LoopWake, LocalOnlyWhenTaken
  <2> QED
    BY <1>0, <1>4, <2>1 DEF LoopWake
<1>5. CASE TakeQueue
  <2>1. local = <<>> /\ running \in Holder
    BY <1>0, <1>5 DEF TakeQueue, LocalOnlyWhenTaken, TypeOK
  <2>2. CASE running = g
    <3>1. Inflight(g) = dataqueue[g]
      BY <1>0, <2>1, <2>2
    <3>2. Inflight(g)' = dataqueue[g]
      BY <1>0, <1>5, <2>2 DEF TakeQueue, TypeOK
    <3> QED
      BY <1>0, <1>5, <3>1, <3>2 DEF TakeQueue
  <2>3. CASE running # g
    BY <1>0, <1>5, <2>1, <2>3 DEF TakeQueue, TypeOK
  <2> QED
    BY <2>2, <2>3
<1>6. CASE CallJs
  <2>1. running \in Holder
    BY <1>0, <1>6 DEF CallJs, LocalOnlyWhenTaken, TypeOK
  <2>2. CASE running = g
    <3>0. \A s1, s2, s3 \in Seq(Event) : (s1 \o s2) \o s3 = s1 \o (s2 \o s3)
      <4> SUFFICES ASSUME NEW s1 \in Seq(Event), NEW s2 \in Seq(Event), NEW s3 \in Seq(Event)
                   PROVE  (s1 \o s2) \o s3 = s1 \o (s2 \o s3)
        OBVIOUS
      <4> QED
        BY ConcatAssociative
    <3>1. /\ Append(delivered[g], Head(local)) \o Tail(local) = delivered[g] \o local
          /\ Append(delivered[g], Head(local)) \in Seq(Event)
          /\ Tail(local) \in Seq(Event)
      <4>1. delivered[g] \in Seq(Event) /\ local \in Seq(Event) /\ local # <<>>
        BY <1>0, <1>6 DEF CallJs
      <4> QED
        BY <4>1, ConcatShift, Zenon
    <3>2. /\ delivered'[g] = Append(delivered[g], Head(local))
          /\ Inflight(g)' = Tail(local) \o dataqueue[g]
          /\ emplaced' = emplaced
      BY <1>0, <1>6, <2>2 DEF CallJs, TypeOK
    <3>3. Append(delivered[g], Head(local)) \o (Tail(local) \o dataqueue[g])
            = (delivered[g] \o local) \o dataqueue[g]
      <4> DEFINE a == Append(delivered[g], Head(local))
                 b == Tail(local)
      <4>1. a \in Seq(Event) /\ b \in Seq(Event) /\ a \o b = delivered[g] \o local
        BY <3>1
      <4> HIDE DEF a, b
      <4>2. a \o (b \o dataqueue[g]) = (a \o b) \o dataqueue[g]
        <5>1. dataqueue[g] \in Seq(Event)
          BY <1>0
        <5> QED
          BY <3>0, <4>1, <5>1, Zenon
      <4> QED
        BY <4>1, <4>2 DEF a, b
    <3>4. (delivered[g] \o local) \o dataqueue[g] = delivered[g] \o (local \o dataqueue[g])
      BY <1>0, <3>0
    <3>5. Inflight(g) = local \o dataqueue[g]
      BY <2>2
    <3> QED
      BY <1>0, <3>2, <3>3, <3>4, <3>5
  <2>3. CASE running # g
    BY <1>0, <1>6, <2>1, <2>3 DEF CallJs, TypeOK
  <2> QED
    BY <2>2, <2>3
<1>7. CASE LoopReturn
  BY <1>0, <1>7, ConstantsAssumption DEF LoopReturn
<1>8. CASE UNCHANGED vars
  BY <1>0, <1>8 DEF vars
<1> QED
  BY <1>1, <1>2, <1>3, <1>4, <1>5, <1>6, <1>7, <1>8 DEF Next, LoopStep

\* One step never strands an element of a shared queue without a wake-up.
LEMMA NextNoLostWakeup == IInv /\ [Next]_vars => NoLostWakeup'
<1> SUFFICES ASSUME IInv, [Next]_vars, NEW g \in Holder, dataqueue'[g] # <<>>
             PROVE  \/ pending'[g]
                    \/ running' = g /\ ~taken'
                    \/ \E t \in Thread : caller'[t].at = "send" /\ caller'[t].holder = g
  BY DEF NoLostWakeup
<1> DEFINE Goal == \/ pending'[g]
                   \/ running' = g /\ ~taken'
                   \/ \E t \in Thread : caller'[t].at = "send" /\ caller'[t].holder = g
<1>0. /\ TypeOK /\ LocalOnlyWhenTaken
      /\ dataqueue[g] # <<>> =>
           \/ pending[g]
           \/ running = g /\ ~taken
           \/ \E t \in Thread : caller[t].at = "send" /\ caller[t].holder = g
  BY DEF IInv, NoLostWakeup
<1>1. ASSUME NEW t \in Thread, NEW h \in Holder, NEW e \in Event, SetData(t, h, e) PROVE Goal
  <2>1. caller[t].at # "send"
    BY <1>1 DEF SetData, Idle
  <2>2. \A u \in Thread : u # t => caller'[u] = caller[u]
    BY <1>0, <1>1 DEF SetData, TypeOK
  <2> QED
    BY <1>0, <1>1, <2>1, <2>2 DEF SetData
<1>2. ASSUME NEW t \in Thread, Emplace(t) PROVE Goal
  <2>1. caller[t] \in Busy
    BY <1>0, <1>2 DEF TypeOK, Emplace, Idle
  <2>2. caller'[t].at = "send" /\ caller'[t].holder = caller[t].holder
    BY <1>0, <1>2, <2>1 DEF TypeOK, Emplace, Busy
  <2>3. \A u \in Thread : u # t => caller'[u] = caller[u]
    BY <1>0, <1>2 DEF Emplace, TypeOK
  <2>4. CASE caller[t].holder = g
    BY <2>2, <2>4
  <2>5. CASE caller[t].holder # g
    <3>1. dataqueue'[g] = dataqueue[g]
      BY <1>0, <1>2, <2>1, <2>5 DEF Emplace, TypeOK, Busy
    <3> QED
      BY <1>0, <1>2, <2>3, <2>5, <3>1 DEF Emplace
  <2> QED
    BY <2>4, <2>5
<1>3. ASSUME NEW t \in Thread, AsyncSend(t) PROVE Goal
  <2>1. \A u \in Thread : u # t => caller'[u] = caller[u]
    BY <1>0, <1>3 DEF AsyncSend, TypeOK
  <2>2. caller[t].holder \in Holder
    BY <1>0, <1>3 DEF AsyncSend, TypeOK, Busy, Idle
  <2>3. pending'[caller[t].holder] /\ (pending[g] => pending'[g])
    BY <1>0, <1>3, <2>2 DEF AsyncSend, TypeOK
  <2> QED
    BY <1>0, <1>3, <2>1, <2>3 DEF AsyncSend
<1>4. ASSUME NEW h \in Holder, LoopWake(h) PROVE Goal
  <2>1. running' = h /\ ~taken' /\ UNCHANGED <<caller, dataqueue>>
    BY <1>4 DEF LoopWake
  <2>2. h # g => pending'[g] = pending[g]
    BY <1>0, <1>4 DEF LoopWake, TypeOK
  <2>3. running # g
    BY <1>4, ConstantsAssumption DEF LoopWake
  <2> QED
    BY <1>0, <2>1, <2>2, <2>3
<1>5. CASE TakeQueue
  <2>1. running \in Holder /\ dataqueue'[running] = <<>>
    BY <1>0, <1>5 DEF TakeQueue, TypeOK
  <2>2. running # g /\ dataqueue'[g] = dataqueue[g]
    BY <1>0, <1>5, <2>1 DEF TakeQueue, TypeOK
  <2> QED
    BY <1>0, <1>5, <2>2 DEF TakeQueue
<1>6. CASE CallJs
  BY <1>0, <1>6 DEF CallJs
<1>7. CASE LoopReturn
  BY <1>0, <1>7 DEF LoopReturn
<1>8. CASE UNCHANGED vars
  BY <1>0, <1>8 DEF vars
<1> QED
  BY <1>1, <1>2, <1>3, <1>4, <1>5, <1>6, <1>7, <1>8 DEF Next, LoopStep

\* One step never makes a handle wakeable before its holder is stored.
LEMMA NextDataSetFirst == IInv /\ [Next]_vars => DataSetFirst'
<1> SUFFICES ASSUME IInv, [Next]_vars PROVE DataSetFirst'
  OBVIOUS
<1>0. TypeOK /\ DataSetFirst
  BY DEF IInv
<1> USE DEF DataSetFirst, HolderSetBeforeCallback
<1>1. ASSUME NEW t \in Thread, NEW h \in Holder, NEW e \in Event, SetData(t, h, e) PROVE DataSetFirst'
  <2>1. /\ \A g \in Holder : asyncData[g] => asyncData'[g]
        /\ asyncData'[h]
        /\ caller'[t].holder = h
        /\ \A u \in Thread : u # t => caller'[u] = caller[u]
        /\ UNCHANGED <<pending, running>>
    BY <1>0, <1>1 DEF SetData, TypeOK
  <2>2. \A u \in Thread : caller[u] # Idle => caller[u].holder \in Holder
    BY <1>0 DEF TypeOK, Busy
  <2>3. running # NoHolder => running \in Holder
    BY <1>0 DEF TypeOK
  <2> QED
    BY <1>0, <2>1, <2>2, <2>3
<1>2. ASSUME NEW t \in Thread, Emplace(t) PROVE DataSetFirst'
  <2>1. caller[t] \in Busy /\ caller[t] # Idle
    BY <1>0, <1>2 DEF TypeOK, Emplace, Idle
  <2>2. caller'[t].holder = caller[t].holder
    BY <1>0, <1>2, <2>1 DEF TypeOK, Emplace, Busy
  <2>3. \A u \in Thread : u # t => caller'[u] = caller[u]
    BY <1>0, <1>2 DEF Emplace, TypeOK
  <2> QED
    BY <1>0, <1>2, <2>1, <2>2, <2>3 DEF Emplace
<1>3. ASSUME NEW t \in Thread, AsyncSend(t) PROVE DataSetFirst'
  <2>1. caller[t] # Idle /\ caller[t].holder \in Holder
    BY <1>0, <1>3 DEF AsyncSend, TypeOK, Busy, Idle
  <2>2. /\ \A u \in Thread : u # t => caller'[u] = caller[u]
        /\ caller'[t] = Idle
        /\ \A g \in Holder : pending'[g] => pending[g] \/ g = caller[t].holder
        /\ UNCHANGED <<asyncData, running>>
    BY <1>0, <1>3, <2>1 DEF AsyncSend, TypeOK
  <2> QED
    BY <1>0, <2>1, <2>2
<1>4. ASSUME NEW h \in Holder, LoopWake(h) PROVE DataSetFirst'
  <2>1. /\ \A g \in Holder : pending'[g] => pending[g]
        /\ pending[h] /\ running' = h
        /\ UNCHANGED <<asyncData, caller>>
    BY <1>0, <1>4 DEF LoopWake, TypeOK
  <2> QED
    BY <1>0, <2>1
<1>5. CASE TakeQueue
  BY <1>0, <1>5 DEF TakeQueue
<1>6. CASE CallJs
  BY <1>0, <1>6 DEF CallJs
<1>7. CASE LoopReturn
  BY <1>0, <1>7 DEF LoopReturn
<1>8. CASE UNCHANGED vars
  BY <1>0, <1>8 DEF vars
<1> QED
  BY <1>1, <1>2, <1>3, <1>4, <1>5, <1>6, <1>7, <1>8 DEF Next, LoopStep

\* The inductive invariant holds of every reachable state.
LEMMA Inductive == SafeSpec => []IInv
<1>1. IInv /\ [Next]_vars => IInv'
  <2> SUFFICES ASSUME IInv, [Next]_vars PROVE IInv'
    OBVIOUS
  <2>1. TypeOK /\ LocalOnlyWhenTaken
    BY DEF IInv
  <2> QED
    BY <2>1, NextTypeOK, NextLocal, NextExactlyOnce, NextNoLostWakeup, NextDataSetFirst DEF IInv
<1> QED
  BY <1>1, InitIInv, PTL DEF SafeSpec

\* The queues, handles and threads of the hand-off keep their types.
THEOREM TypeCorrect == SafeSpec => []TypeOK
BY Inductive, PTL DEF IInv

\* callback() moves the queue under the lock while FoundAdvertisedName and the
\* others append to it: JavaScript still sees each payload once and in order.
THEOREM InOrderDelivery == SafeSpec => []ExactlyOnceInOrder
BY Inductive, PTL DEF IInv

\* uv_async_send may be coalesced with an earlier one: no queued payload is ever
\* left without a wake-up of the loop.
THEOREM WakeupNeverLost == SafeSpec => []NoLostWakeup
BY Inductive, PTL DEF IInv

\* callback() never dereferences a handle->data that was not stored yet.
THEOREM HolderAlwaysSet == SafeSpec => []HolderSetBeforeCallback
<1>1. IInv => HolderSetBeforeCallback
  BY DEF IInv, DataSetFirst
<1> QED
  BY <1>1, Inductive, PTL

-----------------------------------------------------------------------------
(* Refinement of EventChannel.                                             *)

bar == [h \in Holder |-> Inflight(h)]

\* The constructors map to an empty channel.
LEMMA RefineInit == Init => Channel!Init
<1> SUFFICES ASSUME Init PROVE Channel!Init
  OBVIOUS
<1>1. \A h \in Holder : Inflight(h) = <<>>
  <2> TAKE h \in Holder
  <2>1. dataqueue[h] = <<>> /\ local = <<>>
    BY DEF Init, Empty
  <2>2. <<>> \o <<>> = <<>>
    BY EmptySeq, ConcatEmptySeq
  <2> QED
    BY <2>1, <2>2 DEF Inflight
<1> QED
  BY <1>1 DEF Init, Empty, Channel!Init

\* An emplace is a Post, a JavaScript call is a Deliver, and every other step is
\* invisible: the move of the queue changes nothing JavaScript can observe.
LEMMA RefineNext == IInv /\ [Next]_vars => [Channel!Next]_(Channel!channelVars)
<1> SUFFICES ASSUME IInv, [Next]_vars
             PROVE  Channel!Next \/ (bar' = bar /\ delivered' = delivered)
  BY DEF Channel!channelVars, bar
<1>0. /\ TypeOK /\ LocalOnlyWhenTaken
      /\ \A h \in Holder : dataqueue[h] \in Seq(Event)
      /\ local \in Seq(Event)
  BY DEF IInv, TypeOK
<1> DEFINE Stutter == bar' = bar /\ delivered' = delivered
<1>1. ASSUME NEW t \in Thread, NEW h \in Holder, NEW e \in Event, SetData(t, h, e) PROVE Stutter
  BY <1>1 DEF SetData, bar, Inflight
<1>2. ASSUME NEW t \in Thread, Emplace(t) PROVE Channel!Next
  <2>1. caller[t].holder \in Holder /\ caller[t].event \in Event
    BY <1>0, <1>2 DEF TypeOK, Emplace, Idle, Busy
  <2>a. PICK h \in Holder, e \in Event : h = caller[t].holder /\ e = caller[t].event
    BY <2>1
  <2> DEFINE l == IF running = h THEN local ELSE <<>>
  <2>2. /\ dataqueue' = [dataqueue EXCEPT ![h] = Append(@, e)]
        /\ UNCHANGED <<running, local, delivered>>
    BY <1>2, <2>a DEF Emplace
  <2>3. l \in Seq(Event)
    BY <1>0, EmptySeq
  <2>4. l \o Append(dataqueue[h], e) = Append(l \o dataqueue[h], e)
    <3> HIDE DEF l
    <3> QED BY <1>0, <2>1, <2>3, ConcatAppend
  <2>5. Inflight(h)' = Append(Inflight(h), e)
    BY <1>0, <2>1, <2>2, <2>4 DEF Inflight, TypeOK
  <2>6. \A g \in Holder : g # h => Inflight(g)' = Inflight(g)
    BY <1>0, <2>1, <2>2 DEF Inflight, TypeOK
  <2>7. bar' = [bar EXCEPT ![h] = Append(@, e)]
    BY <2>1, <2>5, <2>6 DEF bar
  <2>8. Channel!Post(h, e)
    BY <2>2, <2>7 DEF Channel!Post, bar
  <2> QED
    BY <2>1, <2>8 DEF Channel!Next
<1>3. ASSUME NEW t \in Thread, AsyncSend(t) PROVE Stutter
  BY <1>3 DEF AsyncSend, bar, Inflight
<1>4. ASSUME NEW h \in Holder, LoopWake(h) PROVE Stutter
  <2>1. local = <<>>
    BY <1>0, <1>4, ConstantsAssumption DEF LoopWake, LocalOnlyWhenTaken
  <2>2. UNCHANGED <<dataqueue, local, delivered>>
    BY <1>4 DEF LoopWake
  <2> QED
    BY <2>1, <2>2 DEF bar, Inflight
<1>5. CASE TakeQueue
  <2>1. /\ local = <<>> /\ running \in Holder
        /\ local' = dataqueue[running]
        /\ dataqueue' = [dataqueue EXCEPT ![running] = <<>>]
        /\ UNCHANGED <<running, delivered>>
    BY <1>0, <1>5 DEF TakeQueue, LocalOnlyWhenTaken, TypeOK
  <2>2. \A s \in Seq(Event) : <<>> \o s = s /\ s \o <<>> = s
    BY ConcatEmptySeq
  <2>3. Inflight(running) = dataqueue[running]
    BY <1>0, <2>1, <2>2 DEF Inflight
  <2>4. Inflight(running)' = dataqueue[running]
    BY <1>0, <2>1, <2>2 DEF Inflight, TypeOK
  <2>5. \A g \in Holder : g # running => Inflight(g)' = Inflight(g)
    BY <1>0, <2>1 DEF Inflight, TypeOK
  <2> QED
    BY <2>1, <2>3, <2>4, <2>5 DEF bar
<1>6. CASE CallJs
  <2>1. /\ running \in Holder /\ local # <<>>
        /\ delivered' = [delivered EXCEPT ![running] = Append(@, Head(local))]
        /\ local' = Tail(local)
        /\ UNCHANGED <<dataqueue, running>>
    BY <1>0, <1>6 DEF CallJs, LocalOnlyWhenTaken, TypeOK
  <2> DEFINE q == dataqueue[running]
  <2>2. /\ local \o q # <<>>
        /\ Head(local \o q) = Head(local)
        /\ Tail(local \o q) = Tail(local) \o q
    <3>1. q \in Seq(Event)
      BY <1>0, <2>1
    <3> QED BY <1>0, <2>1, <3>1, HeadTailConcat
  <2>3. Inflight(running) = local \o q /\ Inflight(running)' = Tail(local) \o q
    BY <2>1 DEF Inflight
  <2>4. \A g \in Holder : g # running => Inflight(g)' = Inflight(g)
    BY <2>1 DEF Inflight
  <2>5. bar' = [bar EXCEPT ![running] = Tail(@)]
    BY <2>1, <2>2, <2>3, <2>4 DEF bar
  <2>6. bar[running] = local \o q
    BY <2>1, <2>3 DEF bar
  <2>7. Channel!Deliver(running)
    BY <2>1, <2>2, <2>5, <2>6 DEF Channel!Deliver, bar
  <2> QED
    BY <2>1, <2>7 DEF Channel!Next
<1>7. CASE LoopReturn
  BY <1>7 DEF LoopReturn, bar, Inflight
<1>8. CASE UNCHANGED vars
  BY <1>8 DEF vars, bar, Inflight
<1> QED
  BY <1>1, <1>2, <1>3, <1>4, <1>5, <1>6, <1>7, <1>8 DEF Next, LoopStep

\* The safety half of the listeners' contract: the hand-off is, per holder, a
\* FIFO channel from the native callback to the JavaScript function.
THEOREM ImplementsChannel == SafeSpec => ChannelSafeSpec
<1>1. Init => Channel!Init
  BY RefineInit
<1>2. IInv /\ [Next]_vars => [Channel!Next]_(Channel!channelVars)
  BY RefineNext
<1> QED
  BY <1>1, <1>2, Inductive, PTL DEF SafeSpec, ChannelSafeSpec, Channel!SafeSpec

=============================================================================
