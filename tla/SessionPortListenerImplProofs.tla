-------------------- MODULE SessionPortListenerImplProofs --------------------
(***************************************************************************)
(* Proofs about the session port listener, for any number of joiners,      *)
(* dispatcher threads and blocking calls.                                  *)
(*                                                                         *)
(*   FrameInv   what the JavaScript thread is in, and the lock it holds;   *)
(*   HandInv    the one joiner in acceptCallback: whose turn it is, and    *)
(*              whose verdict the holder has;                              *)
(*   JoinInv    a joiner is on one place on its way from its request to    *)
(*              the joined function.                                       *)
(***************************************************************************)
EXTENDS SessionPortListenerImpl, SequenceTheorems, TLAPS

USE ListenerAssumption

-----------------------------------------------------------------------------
\* The libuv callback the JavaScript thread is in, a blocking call inside it or not.
Runs(what) == \E n \in DOMAIN js : js[n].at = what

\* JavaScript nests one blocking call at most, and only libuv's callbacks hold anything.
FrameInv ==
  /\ Len(js) <= 2
  /\ Len(js) = 2 => js[1].at = "MethodCall" /\ js[2].at \in {"accept", "joined_callback"}
  /\ datalock <=> Runs("accept")
  /\ local # <<>> => Runs("joined_callback")

\* accept_callback, or the JavaScript function it calls.
AcceptFrames == {f \in Frames : f.at \in {"accept_callback", "accept"} /\ \E n \in DOMAIN js : js[n] = f}

\* One dispatcher thread at most waits for a verdict, and while the loop thread has still to
\* give one, the holder has the joiner it is about.
HandInv ==
  /\ reentrancyLock = NoWorker <=> \A w \in Worker : worker[w] = NoJoiner
  /\ \A w \in Worker : worker[w] # NoJoiner =>
        /\ reentrancyLock = w
        /\ holder.data = worker[w]
        /\ router[worker[w]] = "asked"
        /\ holder.complete => holder.rval = verdict[worker[w]]
  /\ acceptAsync \/ AcceptFrames # {} => reentrancyLock # NoWorker /\ ~holder.complete
  /\ acceptAsync => AcceptFrames = {}
  /\ \A f \in AcceptFrames : f.at = "accept" => f.joiner = holder.data

\* What the routing node knows of a joiner is what was returned for it.
AnswerInv ==
  \A j \in Joiner :
    /\ router[j] \in {"none", "asked"} <=> returned[j] = "none"
    /\ router[j] \in Verdict => returned[j] = router[j]
    /\ router[j] = "joined" => returned[j] = "accept"

In(x, s) == \E n \in DOMAIN s : s[n] = x

\* Nothing of X is in s twice.
Once(X, s) == \A m, n \in DOMAIN s : s[m] = s[n] /\ s[m] \in X => m = n

\* The message of this kind about joiner j.
About(kind, j) == [kind |-> kind, joiner |-> j]
Abouts == [kind : {"AcceptSession", "SessionJoined"}, joiner : Joiner]

\* A joiner is in one place, once: in its request, waiting for the verdict, in its SessionJoined
\* signal, in one of the two queues of joinedCallback, or told to JavaScript.
JoinInv ==
  /\ \A j \in Joiner : In(About("AcceptSession", j), queue) =>
        router[j] = "asked" /\ \A w \in Worker : worker[w] # j
  /\ \A j \in Joiner : In(About("SessionJoined", j), queue) \/ In(j, joinedQueue) \/ In(j, local) \/ In(j, told)
        => router[j] = "joined"
  /\ \A j \in Joiner : In(About("SessionJoined", j), queue) => ~In(j, joinedQueue) /\ ~In(j, local) /\ ~In(j, told)
  /\ \A j \in Joiner : In(j, joinedQueue) => ~In(j, local) /\ ~In(j, told)
  /\ \A j \in Joiner : In(j, local) => ~In(j, told)
  /\ Once(Abouts, queue) /\ Once(Joiner, joinedQueue) /\ Once(Joiner, local) /\ Once(Joiner, told)

-----------------------------------------------------------------------------
(* Types.                                                                  *)

\* The record constructors of the model.
LEMMA Messages ==
  /\ \A j \in Joiner : \A k \in {"AcceptSession", "SessionJoined"} : About(k, j) \in Message
  /\ \A n \in Nat : [kind |-> "Reply", call |-> n] \in Message
  /\ \A m \in Message : /\ m.kind \in {"AcceptSession", "SessionJoined", "Reply"}
                        /\ m.kind # "Reply" => m.joiner \in Joiner /\ m = About(m.kind, m.joiner)
BY DEF Message, About

\* The first message of the dispatcher.
LEMMA NextMessageIs ==
  ASSUME TypeOK, NEW w \in Worker, NEW kind, NextMessage(w, kind)
  PROVE  /\ worker[w] = NoJoiner /\ reentrancyLock = NoWorker
         /\ queue # <<>> /\ 1 \in DOMAIN queue /\ Head(queue) = queue[1] /\ queue[1] \in Message /\ queue[1].kind = kind
         /\ queue' = Tail(queue) /\ queue' \in Seq(Message)
BY DEF TypeOK, NextMessage

\* What the JavaScript thread is in has one frame more or one less.
LEMMA Push ==
  ASSUME NEW S, NEW s \in Seq(S), NEW f \in S
  PROVE  /\ <<f>> \o s \in Seq(S) /\ Len(<<f>> \o s) = Len(s) + 1
         /\ (<<f>> \o s)[1] = f /\ \A n \in DOMAIN s : (<<f>> \o s)[n + 1] = s[n]
         /\ \A m \in DOMAIN (<<f>> \o s) : m = 1 \/ (m - 1 \in DOMAIN s /\ (<<f>> \o s)[m] = s[m - 1])
OBVIOUS

\* Every step keeps the types.
LEMMA TypeStep ==
  ASSUME TypeOK, [Next]_vars
  PROVE  TypeOK'
<1> USE DEF dispVars, holdVars, loopVars, callVars, histVars
<1>0. /\ NoJoiner \notin Joiner /\ \A x \in {"accept_callback", "accept", "joined_callback", "MethodCall"} :
            \A j \in Joiner \union {NoJoiner} : Frame(x, j) \in Frames
  BY DEF Frame, Frames
<1>1. ASSUME NEW j \in Joiner, AskAccept(j) PROVE TypeOK'
  <2>1. queue' \in Seq(Message)
    <3>1. queue \in Seq(Message) /\ About("AcceptSession", j) \in Message
      BY Messages DEF TypeOK
    <3> QED
      BY <1>1, <3>1 DEF AskAccept, About
  <2> QED
    BY <1>1, <2>1 DEF AskAccept, TypeOK
<1>2. ASSUME NEW j \in Joiner, SendJoined(j) PROVE TypeOK'
  <2>1. queue' \in Seq(Message)
    <3>1. queue \in Seq(Message) /\ About("SessionJoined", j) \in Message
      BY Messages DEF TypeOK
    <3> QED
      BY <1>2, <3>1 DEF SendJoined, About
  <2> QED
    BY <1>2, <2>1 DEF SendJoined, TypeOK
<1>3. ASSUME NEW w \in Worker, AcceptSessionJoiner(w) PROVE TypeOK'
  <2>1. queue' \in Seq(Message) /\ Head(queue).joiner \in Joiner
    BY <1>3, NextMessageIs, Messages DEF AcceptSessionJoiner
  <2>2. holder' \in [data : Joiner \union {NoJoiner}, complete : BOOLEAN, rval : Verdict]
    BY <1>3, <2>1 DEF AcceptSessionJoiner, LeaveJoiner, TypeOK
  <2> QED
    BY <1>3, <2>1, <2>2 DEF AcceptSessionJoiner, TypeOK
<1>4. ASSUME NEW w \in Worker, AcceptReturns(w) PROVE TypeOK'
  <2>1. worker[w] \in Joiner /\ holder.rval \in Verdict
    BY <1>4 DEF AcceptReturns, TypeOK
  <2> QED
    BY <1>4, <2>1 DEF AcceptReturns, TypeOK
<1>5. ASSUME NEW w \in Worker, SessionJoined(w) PROVE TypeOK'
  <2>1. queue' \in Seq(Message) /\ Head(queue).joiner \in Joiner
    BY <1>5, NextMessageIs, Messages DEF SessionJoined
  <2> QED
    BY <1>5, <2>1 DEF SessionJoined, TypeOK
<1>6. ASSUME NEW w \in Worker, HandleMethodReply(w) PROVE TypeOK'
  <2>1. queue' \in Seq(Message)
    BY <1>6, NextMessageIs DEF HandleMethodReply
  <2>2. js' \in Seq(Frames)
    BY <1>6 DEF HandleMethodReply, InCall, TypeOK
  <2> QED
    BY <1>6, <2>1, <2>2 DEF HandleMethodReply, TypeOK
<1>7. CASE WakeAccept
  <2>1. js' \in Seq(Frames)
    BY <1>0, <1>7 DEF WakeAccept, TypeOK
  <2> QED
    BY <1>7, <2>1 DEF WakeAccept, TypeOK
<1>8. CASE CallAccept
  <2>1. js' \in Seq(Frames)
    BY <1>0, <1>8 DEF CallAccept, TypeOK
  <2> QED
    BY <1>8, <2>1 DEF CallAccept, TypeOK
<1>9. CASE WakeJoined
  <2>1. js' \in Seq(Frames)
    BY <1>0, <1>9 DEF WakeJoined, TypeOK
  <2>2. local' \in Seq(Joiner) /\ joinedQueue' \in Seq(Joiner)
    BY <1>9 DEF WakeJoined, TypeOK
  <2> QED
    BY <1>9, <2>1, <2>2 DEF WakeJoined, TypeOK
<1>10. CASE CallJoined
  <2>1. local \in Seq(Joiner) /\ told \in Seq(Joiner) /\ js \in Seq(Frames)
    BY DEF TypeOK
  <2>2. local' \in Seq(Joiner) /\ told' \in Seq(Joiner) /\ js' \in Seq(Frames)
    <3>1. CASE local # <<>>
      <4>1. Head(local) \in Joiner /\ Tail(local) \in Seq(Joiner) /\ Append(told, Head(local)) \in Seq(Joiner)
        BY <2>1, <3>1
      <4> QED
        BY <1>10, <2>1, <3>1, <4>1 DEF CallJoined
    <3>2. CASE local = <<>>
      BY <1>10, <2>1, <3>2 DEF CallJoined
    <3> QED
      BY <3>1, <3>2
  <2> QED
    BY <1>10, <2>2 DEF CallJoined, TypeOK
<1>11. ASSUME NEW v \in Verdict, AcceptCallbackReturns(v) PROVE TypeOK'
  <2>1. holder' \in [data : Joiner \union {NoJoiner}, complete : BOOLEAN, rval : Verdict]
    BY <1>11 DEF AcceptCallbackReturns, Answer, TypeOK
  <2>2. js' \in Seq(Frames)
    BY <1>11 DEF AcceptCallbackReturns
  <2>3. verdict' \in [Joiner -> {"none"} \union Verdict]
    BY <1>11 DEF AcceptCallbackReturns, TypeOK
  <2> QED
    BY <1>11, <2>1, <2>2, <2>3 DEF AcceptCallbackReturns, TypeOK
<1>12. CASE SyncCall
  <2>1. js' \in Seq(Frames)
    BY <1>0, <1>12, Push DEF SyncCall, TypeOK
  <2>2. calls' \in Nat
    BY <1>12 DEF SyncCall, TypeOK
  <2>3. replied' \in BOOLEAN /\ timedOut' \in BOOLEAN
    BY <1>12, Zenon DEF SyncCall
  <2> QED
    BY <1>12, <2>1, <2>2, <2>3 DEF SyncCall, TypeOK
<1>13. CASE ReplyArrives \/ TimeoutForwarded
  <2>1. queue' \in Seq(Message)
    <3>1. queue \in Seq(Message) /\ [kind |-> "Reply", call |-> calls] \in Message
      BY Messages DEF TypeOK
    <3> QED
      BY <1>13, <3>1 DEF ReplyArrives, TimeoutForwarded
  <2> QED
    BY <1>13, <2>1 DEF ReplyArrives, TimeoutForwarded, TypeOK
<1>14. CASE UNCHANGED vars
  BY <1>14 DEF vars, TypeOK
<1> QED
  BY <1>1, <1>2, <1>3, <1>4, <1>5, <1>6, <1>7, <1>8, <1>9, <1>10, <1>11, <1>12, <1>13, <1>14
     DEF Next, WorkerStep, LoopStep

\* The initial state has the types.
LEMMA TypeInit ==
  ASSUME Init
  PROVE  TypeOK
<1>1. /\ queue \in Seq(Message) /\ joinedQueue \in Seq(Joiner) /\ local \in Seq(Joiner) /\ told \in Seq(Joiner)
      /\ js \in Seq(Frames)
  BY DEF Init
<1>2. holder \in [data : Joiner \union {NoJoiner}, complete : BOOLEAN, rval : Verdict]
  BY DEF Init
<1> QED
  BY <1>1, <1>2 DEF Init, TypeOK

\* Every variable keeps to its type, also the frames of the JavaScript thread and the messages.
THEOREM TypeCorrect == SafeSpec => []TypeOK
BY TypeInit, TypeStep, PTL DEF SafeSpec

-----------------------------------------------------------------------------
(* The JavaScript thread.                                                  *)

\* The nesting of the JavaScript thread and what only its callbacks hold.
Same == UNCHANGED <<js, datalock, local>>

\* Nesting, lock and queue change together.
LEMMA FrameStep ==
  ASSUME TypeOK, FrameInv, Next
  PROVE  FrameInv'
<1> USE DEF dispVars, holdVars, loopVars, callVars, histVars
<1>0. js \in Seq(Frames) /\ datalock \in BOOLEAN /\ datalock' \in BOOLEAN
  BY TypeStep DEF TypeOK
<1>a. Len(js) <= 2 /\ (Len(js) = 2 => js[1].at = "MethodCall" /\ js[2].at \in {"accept", "joined_callback"})
  BY DEF FrameInv
<1>b. Len(js) \in Nat /\ DOMAIN js = 1 .. Len(js) /\ (js = <<>> \/ (Len(js) \in {1, 2} /\ Head(js) = js[1]))
  <2>1. Len(js) \in Nat /\ DOMAIN js = 1 .. Len(js) /\ (js # <<>> => Len(js) # 0 /\ Head(js) = js[1])
    BY <1>0
  <2>2. Len(js) <= 2
    BY <1>a
  <2> QED
    BY <2>1, <2>2
<1>1. CASE Same
  BY <1>1 DEF Same, FrameInv, Runs
<1>2. ASSUME NEW w \in Worker, HandleMethodReply(w)
      PROVE  FrameInv'
  <2>1. CASE js' = js
    BY <1>1, <1>2, <2>1 DEF HandleMethodReply, Same
  <2>2. CASE js # <<>> /\ Head(js).at = "MethodCall" /\ js' = Tail(js)
    <3>1. /\ Len(js) \in Nat /\ Len(js') = Len(js) - 1
          /\ DOMAIN js = 1 .. Len(js) /\ DOMAIN js' = 1 .. Len(js) - 1
          /\ \A n \in DOMAIN js' : js'[n] = js[n + 1]
          /\ js[1].at = "MethodCall"
      BY <1>0, <2>2
    <3>2. \A x \in {"accept", "joined_callback"} : Runs(x) => Runs(x)'
      <4> SUFFICES ASSUME NEW x \in {"accept", "joined_callback"}, NEW n \in DOMAIN js, js[n].at = x
                   PROVE  n - 1 \in DOMAIN js' /\ js'[n - 1].at = x
        BY DEF Runs
      <4> QED
        BY <3>1
    <3>3. Runs("accept")' => Runs("accept")
      BY <3>1 DEF Runs
    <3>4. datalock' = datalock /\ local' = local
      BY <1>2 DEF HandleMethodReply
    <3>5. datalock' <=> Runs("accept")'
      BY <3>2, <3>3, <3>4 DEF FrameInv
    <3>6. local' # <<>> => Runs("joined_callback")'
      BY <3>2, <3>4 DEF FrameInv
    <3> QED
      BY <3>1, <3>5, <3>6 DEF FrameInv
  <2> QED
    BY <1>2, <2>1, <2>2 DEF HandleMethodReply, InCall
\* The loop enters or leaves a callback: js' has one frame at most.
<1>3. ASSUME js = <<>>, NEW x \in {"accept_callback", "joined_callback"}, js' = <<Frame(x, NoJoiner)>>,
             datalock' = datalock, x = "accept_callback" => local' = local
      PROVE  FrameInv'
  <2>1. Frame(x, NoJoiner).at = x /\ DOMAIN js' = {1} /\ Len(js') = 1 /\ js'[1] = Frame(x, NoJoiner)
    BY <1>3 DEF Frame
  <2>2. ~Runs("accept") /\ ~Runs("joined_callback")
    BY <1>3 DEF Runs
  <2>3. /\ \A y \in {"accept", "joined_callback"} : Runs(y)' <=> y = x
    BY <2>1 DEF Runs
  <2> QED
    BY <1>3, <2>1, <2>2, <2>3 DEF FrameInv
<1>4. CASE WakeAccept \/ WakeJoined
  BY <1>3, <1>4 DEF WakeAccept, WakeJoined
<1>5. CASE CallAccept
  <2>1. /\ js = <<Frame("accept_callback", NoJoiner)>> /\ js' = <<Frame("accept", holder.data)>>
        /\ datalock' = TRUE /\ local' = local
    BY <1>5 DEF CallAccept
  <2>2. DOMAIN js = {1} /\ js[1].at = "accept_callback" /\ DOMAIN js' = {1} /\ Len(js') = 1 /\ js'[1].at = "accept"
    BY <2>1 DEF Frame
  <2>3. ~Runs("joined_callback") /\ Runs("accept")'
    BY <2>2 DEF Runs
  <2> QED
    BY <2>1, <2>2, <2>3 DEF FrameInv
<1>6. ASSUME NEW v \in Verdict, AcceptCallbackReturns(v)
      PROVE  FrameInv'
  <2>1. js # <<>> /\ js[1].at = "accept" /\ js' = <<>> /\ datalock' = FALSE /\ local' = local
    BY <1>0, <1>6 DEF AcceptCallbackReturns
  <2>2. Len(js) = 1 /\ DOMAIN js = {1}
    BY <1>a, <1>b, <2>1
  <2>3. ~Runs("joined_callback") /\ ~Runs("accept")'
    BY <2>1, <2>2 DEF Runs
  <2> QED
    BY <2>1, <2>3 DEF FrameInv
<1>7. CASE CallJoined
  <2>1. js # <<>> /\ js[1].at = "joined_callback" /\ datalock' = datalock
    BY <1>0, <1>7 DEF CallJoined
  <2>2. Len(js) = 1 /\ DOMAIN js = {1}
    BY <1>a, <1>b, <2>1
  <2>3. CASE js' = js
    BY <2>1, <2>2, <2>3 DEF FrameInv, Runs
  <2>4. CASE js' = <<>> /\ local' = <<>>
    <3>1. ~Runs("accept") /\ ~Runs("accept")'
      BY <2>1, <2>2, <2>4 DEF Runs
    <3> QED
      BY <2>1, <2>4, <3>1 DEF FrameInv
  <2> QED
    BY <1>7, <2>3, <2>4 DEF CallJoined
<1>8. CASE SyncCall
  <2> DEFINE f == Frame("MethodCall", NoJoiner)
  <2>1. f \in Frames /\ f.at = "MethodCall" /\ js' = <<f>> \o js /\ datalock' = datalock /\ local' = local
    BY <1>8 DEF SyncCall, Frame, Frames
  <2> HIDE DEF f
  <2>2. /\ Len(js') = Len(js) + 1 /\ js'[1] = f /\ DOMAIN js' = 1 .. Len(js) + 1
        /\ \A n \in DOMAIN js : js'[n + 1] = js[n]
    BY <1>0, <2>1, Push
  <2>3. \A x \in {"accept", "joined_callback"} : Runs(x)' <=> Runs(x)
    <3>1. \A x \in {"accept", "joined_callback"} : Runs(x)' => Runs(x)
      <4> SUFFICES ASSUME NEW x \in {"accept", "joined_callback"}, NEW n \in DOMAIN js', js'[n].at = x
                   PROVE  n - 1 \in DOMAIN js /\ js[n - 1].at = x
        BY DEF Runs
      <4>1. n # 1
        BY <2>1, <2>2
      <4> QED
        BY <1>0, <2>2, <4>1
    <3>2. \A x \in {"accept", "joined_callback"} : Runs(x) => Runs(x)'
      <4> SUFFICES ASSUME NEW x \in {"accept", "joined_callback"}, NEW n \in DOMAIN js, js[n].at = x
                   PROVE  n + 1 \in DOMAIN js' /\ js'[n + 1].at = x
        BY DEF Runs
      <4> QED
        BY <1>0, <2>2
    <3> QED
      BY <3>1, <3>2
  <2>4. Len(js) <= 1 /\ (Len(js) = 1 => js[1].at \in {"accept", "joined_callback"})
    <3>1. js # <<>> => Head(js).at \in {"accept", "joined_callback"}
      BY <1>8 DEF SyncCall
    <3>2. js = <<>> => Len(js) = 0
      OBVIOUS
    <3> QED
      BY <1>a, <1>b, <3>1, <3>2
  <2>5. Len(js') <= 2 /\ (Len(js') = 2 => js'[1].at = "MethodCall" /\ js'[2].at \in {"accept", "joined_callback"})
    <3>1. Len(js) = 1 => js'[2] = js[1]
      BY <1>b, <2>2
    <3> QED
      BY <1>b, <2>1, <2>2, <2>4, <3>1
  <2> QED
    BY <2>1, <2>3, <2>5 DEF FrameInv
<1>9. ASSUME \/ \E j \in Joiner : AskAccept(j) \/ SendJoined(j)
             \/ \E w \in Worker : AcceptSessionJoiner(w) \/ AcceptReturns(w) \/ SessionJoined(w)
             \/ ReplyArrives \/ TimeoutForwarded
      PROVE  FrameInv'
  BY <1>1, <1>9 DEF AskAccept, SendJoined, AcceptSessionJoiner, AcceptReturns, SessionJoined, ReplyArrives,
                    TimeoutForwarded, Same
<1> QED
  BY <1>2, <1>4, <1>5, <1>6, <1>7, <1>8, <1>9 DEF Next, WorkerStep, LoopStep

-----------------------------------------------------------------------------
(* The hand-over of a joiner.                                              *)

\* What a step does to accept_callback.
LEMMA AcceptStep ==
  ASSUME TypeOK, FrameInv
  PROVE  /\ WakeAccept => AcceptFrames = {} /\ AcceptFrames' = {Frame("accept_callback", NoJoiner)}
         /\ CallAccept => AcceptFrames # {} /\ AcceptFrames' = {Frame("accept", holder.data)}
         /\ \A v \in Verdict : AcceptCallbackReturns(v) => Head(js) \in AcceptFrames /\ AcceptFrames' = {}
         /\ WakeJoined \/ CallJoined \/ SyncCall \/ (\E w \in Worker : HandleMethodReply(w)) => AcceptFrames' = AcceptFrames
<1>0. js \in Seq(Frames)
  BY DEF TypeOK
<1>a. /\ \A x \in {"accept_callback", "accept", "joined_callback", "MethodCall"}, j \in Joiner \union {NoJoiner} :
           Frame(x, j) \in Frames /\ Frame(x, j).at = x
      /\ holder.data \in Joiner \union {NoJoiner}
  BY DEF Frame, Frames, TypeOK
<1>b. Len(js) <= 2 /\ (Len(js) = 2 => js[1].at = "MethodCall")
  BY DEF FrameInv
<1>1. ASSUME WakeAccept
      PROVE  AcceptFrames = {} /\ AcceptFrames' = {Frame("accept_callback", NoJoiner)}
  <2>1. js = <<>> /\ js' = <<Frame("accept_callback", NoJoiner)>>
    BY <1>1 DEF WakeAccept
  <2> QED
    BY <1>a, <2>1 DEF AcceptFrames
<1>2. ASSUME CallAccept
      PROVE  AcceptFrames # {} /\ AcceptFrames' = {Frame("accept", holder.data)}
  <2>1. js = <<Frame("accept_callback", NoJoiner)>> /\ js' = <<Frame("accept", holder.data)>>
    BY <1>2 DEF CallAccept
  <2>2. Frame("accept_callback", NoJoiner) \in AcceptFrames
    BY <1>a, <2>1 DEF AcceptFrames
  <2>3. AcceptFrames' = {Frame("accept", holder.data)}
    BY <1>a, <2>1 DEF AcceptFrames
  <2> QED
    BY <2>2, <2>3
<1>3. ASSUME NEW v \in Verdict, AcceptCallbackReturns(v)
      PROVE  Head(js) \in AcceptFrames /\ AcceptFrames' = {}
  <2>1. js # <<>> /\ js' = <<>> /\ Head(js).at = "accept"
    BY <1>3 DEF AcceptCallbackReturns
  <2>2. Head(js) = js[1] /\ 1 \in DOMAIN js /\ js[1] \in Frames
    BY <1>0, <2>1
  <2> QED
    BY <2>1, <2>2 DEF AcceptFrames
<1>4. ASSUME WakeJoined \/ CallJoined
      PROVE  AcceptFrames' = AcceptFrames
  <2>1. CASE js' = js
    BY <2>1 DEF AcceptFrames
  <2>2. CASE js = <<>> /\ js' = <<Frame("joined_callback", NoJoiner)>>
    BY <1>a, <2>2 DEF AcceptFrames
  <2>3. CASE js # <<>> /\ Head(js).at = "joined_callback" /\ js' = <<>>
    <3>1. Len(js) \in Nat /\ Len(js) # 0 /\ DOMAIN js = 1 .. Len(js) /\ js[1].at = "joined_callback"
      BY <1>0, <2>3
    <3>2. DOMAIN js = {1}
      BY <1>b, <3>1
    <3> QED
      <4>1. AcceptFrames = {}
        BY <3>1, <3>2 DEF AcceptFrames
      <4>2. AcceptFrames' = {}
        BY <2>3 DEF AcceptFrames
      <4> QED
        BY <4>1, <4>2
  <2> QED
    BY <1>4, <2>1, <2>2, <2>3 DEF WakeJoined, CallJoined
<1>5. ASSUME SyncCall
      PROVE  AcceptFrames' = AcceptFrames
  <2> DEFINE f == Frame("MethodCall", NoJoiner)
  <2>1. f \in Frames /\ f.at = "MethodCall" /\ js' = <<f>> \o js
    BY <1>5, <1>a DEF SyncCall
  <2> HIDE DEF f
  <2>2. /\ js'[1] = f /\ DOMAIN js' = 1 .. Len(js) + 1
        /\ \A n \in DOMAIN js : n + 1 \in DOMAIN js' /\ js'[n + 1] = js[n]
        /\ \A m \in DOMAIN js' : m = 1 \/ (m - 1 \in DOMAIN js /\ js'[m] = js[m - 1])
    BY <1>0, <2>1, Push
  <2>3. \A g \in Frames : g.at # "MethodCall" => ((\E n \in DOMAIN js : js[n] = g) <=> \E m \in DOMAIN js' : js'[m] = g)
    <3>1. \A g \in Frames : (\E n \in DOMAIN js : js[n] = g) => \E m \in DOMAIN js' : js'[m] = g
      BY <2>2
    <3>2. ASSUME NEW g \in Frames, g.at # "MethodCall", NEW m \in DOMAIN js', js'[m] = g
          PROVE  \E n \in DOMAIN js : js[n] = g
      <4>1. m # 1
        BY <2>1, <2>2, <3>2
      <4> QED
        BY <2>2, <3>2, <4>1
    <3> QED
      BY <3>1, <3>2
  <2> QED
    BY <2>3 DEF AcceptFrames
<1>6. ASSUME NEW w \in Worker, HandleMethodReply(w)
      PROVE  AcceptFrames' = AcceptFrames
  <2>1. CASE js' = js
    BY <2>1 DEF AcceptFrames
  <2>2. CASE js # <<>> /\ Head(js).at = "MethodCall" /\ js' = Tail(js)
    <3>1. js[1].at = "MethodCall" /\ DOMAIN js' = 1 .. Len(js) - 1 /\ \A n \in DOMAIN js' : n + 1 \in DOMAIN js /\ js'[n] = js[n + 1]
      BY <1>0, <2>2
    <3>2. \A n \in DOMAIN js : n = 1 \/ (n - 1 \in DOMAIN js' /\ js'[n - 1] = js[n])
      BY <1>0, <3>1
    <3>3. \A g \in Frames : g.at # "MethodCall" => ((\E n \in DOMAIN js : js[n] = g) <=> \E m \in DOMAIN js' : js'[m] = g)
      BY <3>1, <3>2
    <3> QED
      BY <3>3 DEF AcceptFrames
  <2> QED
    BY <1>6, <2>1, <2>2 DEF HandleMethodReply, InCall
<1> QED
  BY <1>1, <1>2, <1>3, <1>4, <1>5, <1>6

\* A verdict is given while its dispatcher thread waits for it, and fetched by that thread.
LEMMA HandStep ==
  ASSUME TypeOK, FrameInv, HandInv, AnswerInv, JoinInv, VerdictIsOwn, Next
  PROVE  HandInv' /\ AnswerInv' /\ VerdictIsOwn'
<1> USE DEF dispVars, holdVars, loopVars, callVars, histVars
<1>0. /\ worker \in [Worker -> Joiner \union {NoJoiner}] /\ NoJoiner \notin Joiner /\ NoWorker \notin Worker
      /\ router \in [Joiner -> {"none", "asked", "joined"} \union Verdict]
      /\ holder \in [data : Joiner \union {NoJoiner}, complete : BOOLEAN, rval : Verdict]
      /\ verdict \in [Joiner -> {"none"} \union Verdict] /\ returned \in [Joiner -> {"none"} \union Verdict]
      /\ reentrancyLock \in Worker \union {NoWorker}
  BY DEF TypeOK
<1>1. ASSUME UNCHANGED <<reentrancyLock, worker, holder, router, verdict, returned, acceptAsync>>, AcceptFrames' = AcceptFrames
      PROVE  HandInv' /\ AnswerInv' /\ VerdictIsOwn'
  BY <1>1 DEF HandInv, AnswerInv, VerdictIsOwn
<1>2. ASSUME NEW j \in Joiner, AskAccept(j)
      PROVE  HandInv' /\ AnswerInv' /\ VerdictIsOwn'
  <2>1. AcceptFrames' = AcceptFrames
    BY <1>2 DEF AskAccept, AcceptFrames
  <2> QED
    BY <1>0, <1>2, <2>1 DEF AskAccept, HandInv, AnswerInv, VerdictIsOwn, Verdict
<1>3. ASSUME NEW j \in Joiner, SendJoined(j)
      PROVE  HandInv' /\ AnswerInv' /\ VerdictIsOwn'
  <2>1. AcceptFrames' = AcceptFrames
    BY <1>3 DEF SendJoined, AcceptFrames
  <2> QED
    BY <1>0, <1>3, <2>1 DEF SendJoined, HandInv, AnswerInv, VerdictIsOwn, Verdict
<1>4. ASSUME NEW w \in Worker, AcceptSessionJoiner(w)
      PROVE  HandInv' /\ AnswerInv' /\ VerdictIsOwn'
  <2>1. AcceptFrames' = AcceptFrames /\ AcceptFrames = {} /\ reentrancyLock = NoWorker
    BY <1>4 DEF AcceptSessionJoiner, NextMessage, AcceptFrames, HandInv
  <2>2. PICK j \in Joiner : j = Head(queue).joiner /\ router[j] = "asked"
    <3>1. 1 \in DOMAIN queue /\ Head(queue) = queue[1] /\ queue[1] \in Message /\ queue[1].kind = "AcceptSession"
      BY <1>4, NextMessageIs DEF AcceptSessionJoiner
    <3>2. queue[1].joiner \in Joiner /\ queue[1] = About("AcceptSession", queue[1].joiner)
      BY <3>1, Messages
    <3> QED
      BY <3>1, <3>2 DEF JoinInv, In
  <2>3. holder'.data = j /\ holder'.complete = FALSE
    BY <1>0, <1>4, <2>2 DEF AcceptSessionJoiner, LeaveJoiner
  <2>4. \A x \in Worker : worker[x] = NoJoiner
    BY <2>1 DEF HandInv
  <2>5. HandInv'
    BY <1>0, <1>4, <2>1, <2>2, <2>3, <2>4 DEF AcceptSessionJoiner, HandInv
  <2> QED
    BY <1>4, <2>5 DEF AcceptSessionJoiner, AnswerInv, VerdictIsOwn
<1>5. ASSUME NEW w \in Worker, AcceptReturns(w)
      PROVE  HandInv' /\ AnswerInv' /\ VerdictIsOwn'
  <2>1. PICK j \in Joiner : j = worker[w]
    BY <1>0, <1>5 DEF AcceptReturns
  <2>2. /\ holder.complete /\ holder.rval \in Verdict /\ holder.rval = verdict[j] /\ router[j] = "asked"
        /\ reentrancyLock = w /\ \A x \in Worker : x # w => worker[x] = NoJoiner
    BY <1>0, <1>5, <2>1 DEF AcceptReturns, HandInv
  <2>3. AcceptFrames' = AcceptFrames /\ AcceptFrames = {} /\ ~acceptAsync
    BY <1>5, <2>2 DEF AcceptReturns, AcceptFrames, HandInv
  <2>4. HandInv'
    BY <1>0, <1>5, <2>2, <2>3 DEF AcceptReturns, HandInv
  <2> QED
    BY <1>0, <1>5, <2>1, <2>2, <2>4 DEF AcceptReturns, AnswerInv, VerdictIsOwn, Verdict
<1>6. CASE WakeAccept
  <2>1. AcceptFrames = {} /\ AcceptFrames' = {Frame("accept_callback", NoJoiner)}
    BY <1>6, AcceptStep
  <2> QED
    BY <1>6, <2>1 DEF WakeAccept, HandInv, AnswerInv, VerdictIsOwn, Frame
<1>7. CASE CallAccept
  <2>1. AcceptFrames # {} /\ AcceptFrames' = {Frame("accept", holder.data)}
    BY <1>7, AcceptStep
  <2> QED
    BY <1>7, <2>1 DEF CallAccept, HandInv, AnswerInv, VerdictIsOwn, Frame
<1>8. ASSUME NEW v \in Verdict, AcceptCallbackReturns(v)
      PROVE  HandInv' /\ AnswerInv' /\ VerdictIsOwn'
  <2>1. Head(js) \in AcceptFrames /\ AcceptFrames' = {} /\ Head(js).at = "accept"
    BY <1>8, AcceptStep DEF AcceptCallbackReturns
  <2>2. PICK w \in Worker : reentrancyLock = w /\ worker[w] # NoJoiner
    BY <1>0, <2>1 DEF HandInv
  <2>3. PICK j \in Joiner : /\ j = worker[w] /\ j = holder.data /\ j = Head(js).joiner
                            /\ router[j] = "asked" /\ returned[j] = "none"
    BY <1>0, <2>1, <2>2 DEF HandInv, AnswerInv
  <2>4. verdict' = [verdict EXCEPT ![j] = v] /\ holder'.data = j /\ holder'.rval = v
    BY <1>0, <1>8, <2>3 DEF AcceptCallbackReturns, Answer
  <2>5. ~acceptAsync /\ \A x \in Worker : worker[x] # NoJoiner => x = w
    BY <2>1, <2>2 DEF HandInv
  <2>6. HandInv'
    BY <1>0, <1>8, <2>1, <2>2, <2>3, <2>4, <2>5 DEF AcceptCallbackReturns, HandInv
  <2> QED
    BY <1>0, <1>8, <2>3, <2>4, <2>6 DEF AcceptCallbackReturns, AnswerInv, VerdictIsOwn
<1>9. CASE WakeJoined \/ CallJoined \/ SyncCall
  <2>1. AcceptFrames' = AcceptFrames
    BY <1>9, AcceptStep
  <2> QED
    BY <1>1, <1>9, <2>1 DEF WakeJoined, CallJoined, SyncCall
<1>10. ASSUME NEW w \in Worker, HandleMethodReply(w)
       PROVE  HandInv' /\ AnswerInv' /\ VerdictIsOwn'
  <2>1. AcceptFrames' = AcceptFrames
    BY <1>10, AcceptStep
  <2> QED
    BY <1>1, <1>10, <2>1 DEF HandleMethodReply
<1>11. ASSUME ReplyArrives \/ TimeoutForwarded \/ \E w \in Worker : SessionJoined(w)
       PROVE  HandInv' /\ AnswerInv' /\ VerdictIsOwn'
  <2>1. AcceptFrames' = AcceptFrames
    BY <1>11 DEF ReplyArrives, TimeoutForwarded, SessionJoined, AcceptFrames
  <2> QED
    BY <1>1, <1>11, <2>1 DEF ReplyArrives, TimeoutForwarded, SessionJoined
<1> QED
  BY <1>2, <1>3, <1>4, <1>5, <1>6, <1>7, <1>8, <1>9, <1>10, <1>11 DEF Next, WorkerStep, LoopStep

-----------------------------------------------------------------------------
(* The way of a joiner.                                                    *)

\* What is in a sequence after an append or without its head, and how often.
LEMMA InAppend ==
  ASSUME NEW S, NEW s \in Seq(S), NEW y \in S
  PROVE  /\ \A x : In(x, Append(s, y)) <=> In(x, s) \/ x = y
         /\ \A X : Once(X, s) /\ (y \notin X \/ ~In(y, s)) => Once(X, Append(s, y))
<1>1. ASSUME NEW x PROVE In(x, Append(s, y)) <=> In(x, s) \/ x = y
  <2>1. In(x, s) => In(x, Append(s, y))
    <3> SUFFICES ASSUME NEW n \in DOMAIN s, s[n] = x PROVE n \in DOMAIN Append(s, y) /\ Append(s, y)[n] = x
      BY DEF In
    <3> QED
      OBVIOUS
  <2>2. x = y => In(x, Append(s, y))
    <3>1. Len(s) + 1 \in DOMAIN Append(s, y) /\ Append(s, y)[Len(s) + 1] = y
      OBVIOUS
    <3> QED
      BY <3>1 DEF In
  <2>3. In(x, Append(s, y)) => In(x, s) \/ x = y
    BY DEF In
  <2> QED
    BY <2>1, <2>2, <2>3
<1>2. ASSUME NEW X, Once(X, s), y \notin X \/ ~In(y, s) PROVE Once(X, Append(s, y))
  BY <1>2 DEF Once, In
<1> QED
  BY <1>1, <1>2

\* The same for what is taken from the front.
LEMMA InTail ==
  ASSUME NEW S, NEW s \in Seq(S), s # <<>>
  PROVE  /\ Head(s) \in S /\ Tail(s) \in Seq(S)
         /\ \A x : In(x, s) <=> x = Head(s) \/ In(x, Tail(s))
         /\ \A X : Once(X, s) => Once(X, Tail(s)) /\ (Head(s) \in X => ~In(Head(s), Tail(s)))
<1>1. /\ Head(s) \in S /\ Tail(s) \in Seq(S) /\ Head(s) = s[1] /\ 1 \in DOMAIN s
      /\ \A n \in DOMAIN Tail(s) : n + 1 \in DOMAIN s /\ Tail(s)[n] = s[n + 1] /\ n + 1 # 1
      /\ \A n \in DOMAIN s : n = 1 \/ (n - 1 \in DOMAIN Tail(s) /\ s[n] = Tail(s)[n - 1])
      /\ DOMAIN Tail(s) \subseteq Int
  OBVIOUS
<1>2. \A x : In(x, s) <=> x = Head(s) \/ In(x, Tail(s))
  BY <1>1 DEF In
<1>3. ASSUME NEW X, Once(X, s) PROVE Once(X, Tail(s)) /\ (Head(s) \in X => ~In(Head(s), Tail(s)))
  <2>1. Once(X, Tail(s))
    BY <1>1, <1>3 DEF Once
  <2>2. ASSUME Head(s) \in X PROVE ~In(Head(s), Tail(s))
    BY <1>1, <1>3, <2>2 DEF Once, In
  <2> QED
    BY <2>1, <2>2
<1> QED
  BY <1>1, <1>2, <1>3

\* The two kinds of messages about joiners differ, and so do the joiners.
LEMMA Different ==
  /\ \A j \in Joiner : About("AcceptSession", j) \in Abouts /\ About("SessionJoined", j) \in Abouts
  /\ \A i, j \in Joiner : About("AcceptSession", i) # About("SessionJoined", j)
  /\ \A i, j \in Joiner : \A k : About(k, i) = About(k, j) => i = j
  /\ \A n \in Nat : \A m \in Abouts : [kind |-> "Reply", call |-> n] # m
<1>1. \A i, j \in Joiner : \A k : About(k, j).kind = k /\ About(k, j).joiner = j
  BY DEF About
<1>2. \A j \in Joiner : About("AcceptSession", j) \in Abouts /\ About("SessionJoined", j) \in Abouts
  BY DEF Abouts, About
<1>3. \A n \in Nat : [kind |-> "Reply", call |-> n].kind = "Reply"
  OBVIOUS
<1>4. \A m \in Abouts : m.kind # "Reply"
  BY DEF Abouts
<1>5. \A n \in Nat : \A m \in Abouts : [kind |-> "Reply", call |-> n] # m
  BY <1>3, <1>4
<1> QED
  BY <1>1, <1>2, <1>5

\* What is on its way: nothing is added but a request or a signal, and the joiner at the
\* front goes on.
LEMMA JoinStep ==
  ASSUME TypeOK, FrameInv, HandInv, JoinInv, Next
  PROVE  JoinInv'
<1> USE DEF dispVars, holdVars, loopVars, callVars, histVars
<1>0. /\ worker \in [Worker -> Joiner \union {NoJoiner}] /\ NoJoiner \notin Joiner
      /\ router \in [Joiner -> {"none", "asked", "joined"} \union Verdict]
      /\ queue \in Seq(Message) /\ joinedQueue \in Seq(Joiner) /\ local \in Seq(Joiner) /\ told \in Seq(Joiner)
      /\ holder.rval \in Verdict
  BY DEF TypeOK
<1>1. ASSUME UNCHANGED <<queue, joinedQueue, local, told, router, worker>>
      PROVE  JoinInv'
  BY <1>1 DEF JoinInv
\* A message enters the dispatcher.
<1>2. ASSUME NEW m \in Message, queue' = Append(queue, m)
      PROVE  /\ \A x : In(x, queue') <=> In(x, queue) \/ x = m
             /\ m \notin Abouts \/ ~In(m, queue) => Once(Abouts, queue')
  BY <1>0, <1>2, InAppend DEF JoinInv
\* A message leaves it.
<1>3. ASSUME queue # <<>>, queue' = Tail(queue)
      PROVE  /\ \A x : In(x, queue) <=> x = Head(queue) \/ In(x, queue')
             /\ Once(Abouts, queue')
             /\ Head(queue) \in Abouts => ~In(Head(queue), queue')
  BY <1>0, <1>3, InTail DEF JoinInv
<1>4. ASSUME NEW j \in Joiner, AskAccept(j) PROVE JoinInv'
  <2>1. About("AcceptSession", j) \in Message /\ queue' = Append(queue, About("AcceptSession", j))
    BY <1>4, Messages DEF AskAccept, About
  <2>2. ~In(About("AcceptSession", j), queue) /\ \A w \in Worker : worker[w] # j
    BY <1>4 DEF AskAccept, JoinInv, HandInv
  <2>3. /\ \A i \in Joiner : In(About("AcceptSession", i), queue') <=> In(About("AcceptSession", i), queue) \/ i = j
        /\ \A i \in Joiner : In(About("SessionJoined", i), queue') <=> In(About("SessionJoined", i), queue)
        /\ Once(Abouts, queue')
    BY <1>2, <2>1, <2>2, Different
  <2> QED
    BY <1>0, <1>4, <2>2, <2>3 DEF AskAccept, JoinInv
<1>5. ASSUME NEW j \in Joiner, SendJoined(j) PROVE JoinInv'
  <2>1. About("SessionJoined", j) \in Message /\ queue' = Append(queue, About("SessionJoined", j))
    BY <1>5, Messages DEF SendJoined, About
  <2>2. /\ ~In(About("SessionJoined", j), queue) /\ ~In(About("AcceptSession", j), queue)
        /\ ~In(j, joinedQueue) /\ ~In(j, local) /\ ~In(j, told)
    BY <1>5 DEF SendJoined, JoinInv
  <2>3. /\ \A i \in Joiner : In(About("AcceptSession", i), queue') <=> In(About("AcceptSession", i), queue)
        /\ \A i \in Joiner : In(About("SessionJoined", i), queue') <=> In(About("SessionJoined", i), queue) \/ i = j
        /\ Once(Abouts, queue')
    BY <1>2, <2>1, <2>2, Different
  <2> QED
    BY <1>0, <1>5, <2>2, <2>3 DEF SendJoined, JoinInv
<1>6. ASSUME NEW w \in Worker, AcceptSessionJoiner(w) PROVE JoinInv'
  <2>1. /\ queue # <<>> /\ queue' = Tail(queue) /\ Head(queue) \in Message /\ Head(queue).kind = "AcceptSession"
    BY <1>6, NextMessageIs DEF AcceptSessionJoiner
  <2>2. PICK j \in Joiner : j = Head(queue).joiner /\ Head(queue) = About("AcceptSession", j)
    BY <2>1, Messages
  <2>3. /\ \A i \in Joiner : In(About("AcceptSession", i), queue) <=> In(About("AcceptSession", i), queue') \/ i = j
        /\ \A i \in Joiner : In(About("SessionJoined", i), queue') <=> In(About("SessionJoined", i), queue)
        /\ Once(Abouts, queue') /\ ~In(About("AcceptSession", j), queue')
    BY <1>3, <2>1, <2>2, Different
  <2>4. worker' = [worker EXCEPT ![w] = j] /\ UNCHANGED <<router, joinedQueue, local, told>>
    BY <1>6, <2>2 DEF AcceptSessionJoiner
  <2>5. \A i \in Joiner : In(About("AcceptSession", i), queue') => router'[i] = "asked" /\ \A x \in Worker : worker'[x] # i
    BY <1>0, <2>3, <2>4 DEF JoinInv
  <2> QED
    BY <2>3, <2>4, <2>5 DEF JoinInv
<1>7. ASSUME NEW w \in Worker, AcceptReturns(w) PROVE JoinInv'
  <2>1. PICK j \in Joiner : j = worker[w] /\ router[j] = "asked"
    BY <1>0, <1>7 DEF AcceptReturns, HandInv
  <2>2. ~In(About("AcceptSession", j), queue)
    BY <2>1 DEF JoinInv
  <2>3. /\ worker' = [worker EXCEPT ![w] = NoJoiner] /\ router' = [router EXCEPT ![j] = holder.rval]
        /\ UNCHANGED <<queue, joinedQueue, local, told>>
    BY <1>7, <2>1 DEF AcceptReturns
  <2> QED
    BY <1>0, <2>1, <2>2, <2>3 DEF JoinInv
<1>8. ASSUME NEW w \in Worker, SessionJoined(w) PROVE JoinInv'
  <2>1. /\ queue # <<>> /\ queue' = Tail(queue) /\ Head(queue) \in Message /\ Head(queue).kind = "SessionJoined"
    BY <1>8, NextMessageIs DEF SessionJoined
  <2>2. PICK j \in Joiner : j = Head(queue).joiner /\ Head(queue) = About("SessionJoined", j)
    BY <2>1, Messages
  <2>3. /\ \A i \in Joiner : In(About("AcceptSession", i), queue') <=> In(About("AcceptSession", i), queue)
        /\ \A i \in Joiner : In(About("SessionJoined", i), queue) <=> In(About("SessionJoined", i), queue') \/ i = j
        /\ Once(Abouts, queue') /\ ~In(About("SessionJoined", j), queue')
    BY <1>3, <2>1, <2>2, Different
  <2>4. joinedQueue' = Append(joinedQueue, j) /\ UNCHANGED <<router, worker, local, told>>
    BY <1>8, <2>2 DEF SessionJoined
  <2>5. ~In(j, joinedQueue) /\ ~In(j, local) /\ ~In(j, told)
    BY <2>3 DEF JoinInv
  <2>6. /\ \A i : In(i, joinedQueue') <=> In(i, joinedQueue) \/ i = j
        /\ Once(Joiner, joinedQueue')
    BY <1>0, <2>4, <2>5, InAppend DEF JoinInv
  <2> QED
    BY <2>3, <2>4, <2>5, <2>6 DEF JoinInv
<1>9. ASSUME NEW w \in Worker, HandleMethodReply(w) PROVE JoinInv'
  <2>1. /\ queue # <<>> /\ queue' = Tail(queue) /\ Head(queue).kind = "Reply"
    BY <1>9, NextMessageIs DEF HandleMethodReply
  <2>2. /\ Once(Abouts, queue')
        /\ \A i \in Joiner : In(About("AcceptSession", i), queue') => In(About("AcceptSession", i), queue)
        /\ \A i \in Joiner : In(About("SessionJoined", i), queue') => In(About("SessionJoined", i), queue)
    BY <1>3, <2>1
  <2> QED
    BY <1>9, <2>2 DEF HandleMethodReply, JoinInv
<1>10. CASE WakeJoined
  <2>1. js = <<>> /\ local' = joinedQueue /\ joinedQueue' = <<>> /\ UNCHANGED <<queue, told, router, worker>>
    BY <1>10 DEF WakeJoined
  <2>2. local = <<>>
    BY <2>1 DEF FrameInv, Runs
  <2>3. (\A i : ~In(i, <<>>)) /\ Once(Joiner, <<>>)
    BY DEF In, Once
  <2> QED
    BY <2>1, <2>2, <2>3 DEF JoinInv
<1>11. CASE CallJoined
  <2>1. CASE local = <<>>
    BY <1>1, <1>11, <2>1 DEF CallJoined
  <2>2. CASE local # <<>>
    <3>1. /\ told' = Append(told, Head(local)) /\ local' = Tail(local)
          /\ UNCHANGED <<queue, joinedQueue, router, worker>>
      BY <1>11, <2>2 DEF CallJoined
    <3>2. PICK j \in Joiner : j = Head(local)
      BY <1>0, <2>2, InTail
    <3>3. /\ \A i : In(i, local) <=> In(i, local') \/ i = j
          /\ Once(Joiner, local') /\ ~In(j, local')
      BY <1>0, <2>2, <3>1, <3>2, InTail DEF JoinInv
    <3>4. ~In(j, told) /\ ~In(j, joinedQueue) /\ ~In(About("SessionJoined", j), queue) /\ router[j] = "joined"
      BY <3>3 DEF JoinInv
    <3>5. /\ \A i : In(i, told') <=> In(i, told) \/ i = j
          /\ Once(Joiner, told')
      BY <1>0, <3>1, <3>2, <3>4, InAppend DEF JoinInv
    <3> QED
      BY <3>1, <3>3, <3>4, <3>5 DEF JoinInv
  <2> QED
    BY <2>1, <2>2
<1>12. CASE ReplyArrives \/ TimeoutForwarded
  <2>1. PICK m \in Message : m = [kind |-> "Reply", call |-> calls] /\ queue' = Append(queue, m) /\ m \notin Abouts
    <3>1. calls \in Nat
      BY DEF TypeOK
    <3>2. [kind |-> "Reply", call |-> calls] \in Message /\ [kind |-> "Reply", call |-> calls] \notin Abouts
      BY <3>1, Messages, Different
    <3> QED
      BY <1>12, <3>2 DEF ReplyArrives, TimeoutForwarded
  <2>2. /\ \A i \in Joiner : In(About("AcceptSession", i), queue') <=> In(About("AcceptSession", i), queue)
        /\ \A i \in Joiner : In(About("SessionJoined", i), queue') <=> In(About("SessionJoined", i), queue)
        /\ Once(Abouts, queue')
    BY <1>2, <2>1, Different
  <2> QED
    BY <1>12, <2>2 DEF ReplyArrives, TimeoutForwarded, JoinInv
<1>13. CASE WakeAccept \/ CallAccept \/ SyncCall \/ \E v \in Verdict : AcceptCallbackReturns(v)
  BY <1>1, <1>13 DEF WakeAccept, CallAccept, SyncCall, AcceptCallbackReturns
<1> QED
  BY <1>4, <1>5, <1>6, <1>7, <1>8, <1>9, <1>10, <1>11, <1>12, <1>13 DEF Next, WorkerStep, LoopStep

-----------------------------------------------------------------------------
\* The inductive invariant.
IInv == TypeOK /\ FrameInv /\ HandInv /\ AnswerInv /\ JoinInv /\ VerdictIsOwn

\* It is one.
LEMMA IInvInvariant == SafeSpec => []IInv
<1>1. Init => IInv
  <2> SUFFICES ASSUME Init PROVE IInv
    OBVIOUS
  <2>1. TypeOK
    BY TypeInit
  <2>2. FrameInv
    BY DEF Init, FrameInv, Runs
  <2>3. HandInv /\ AnswerInv /\ VerdictIsOwn
    BY DEF Init, HandInv, AnswerInv, VerdictIsOwn, AcceptFrames, Verdict
  <2>4. JoinInv
    BY DEF Init, JoinInv, In, Once
  <2> QED
    BY <2>1, <2>2, <2>3, <2>4 DEF IInv
<1>2. IInv /\ [Next]_vars => IInv'
  <2>1. CASE Next
    BY <2>1, TypeStep, FrameStep, HandStep, JoinStep DEF IInv
  <2>2. CASE UNCHANGED vars
    <3>1. UNCHANGED <<js, datalock, local, reentrancyLock, worker, holder, router, verdict, returned, acceptAsync,
                      queue, joinedQueue, told>>
      BY <2>2 DEF vars, dispVars, holdVars, loopVars, callVars, histVars
    <3> QED
      BY <2>2, <3>1, TypeStep DEF IInv, FrameInv, Runs, HandInv, AcceptFrames, AnswerInv, VerdictIsOwn, JoinInv
  <2> QED
    BY <2>1, <2>2
<1> QED
  BY <1>1, <1>2, PTL DEF SafeSpec

\* One holder serves every joiner, yet what AcceptSessionJoiner returns for a joiner is what the
\* JavaScript function said of it, never an earlier or another's verdict: the reentrancy lock
\* keeps a second request away until the dispatcher thread has fetched the verdict.
THEOREM VerdictCorrect == SafeSpec => []VerdictIsOwn
<1>1. IInv => VerdictIsOwn
  BY DEF IInv
<1> QED
  BY <1>1, IInvInvariant, PTL

\* JavaScript is told that a peer has joined only after it has accepted that very peer, and
\* once, though requests and signals come through two unrelated handles.
THEOREM JoinedCorrect == SafeSpec => []JoinedOnlyIfAccepted
<1>1. ASSUME IInv PROVE JoinedOnlyIfAccepted
  <2> SUFFICES ASSUME NEW n \in DOMAIN told
               PROVE  /\ verdict[told[n]] = "accept"
                      /\ \A m \in DOMAIN told : told[m] = told[n] => m = n
    BY DEF JoinedOnlyIfAccepted
  <2>1. told[n] \in Joiner
    BY <1>1 DEF IInv, TypeOK
  <2>2. router[told[n]] = "joined"
    BY <1>1, <2>1 DEF IInv, JoinInv, In
  <2>3. verdict[told[n]] = "accept"
    BY <1>1, <2>1, <2>2 DEF IInv, AnswerInv, VerdictIsOwn
  <2>4. Once(Joiner, told)
    BY <1>1 DEF IInv, JoinInv
  <2> QED
    BY <2>1, <2>3, <2>4 DEF Once
<1> QED
  BY <1>1, IInvInvariant, PTL
=============================================================================
