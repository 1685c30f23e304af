----------------------------- MODULE TimerProofs -----------------------------
(***************************************************************************)
(* Proofs about qcc::Timer, for any number of threads, alarms and clients, *)
(* any limit on the number of alarms and any interleaving.  Each layer of  *)
(* the invariant is proved with the help of the ones before:               *)
(*                                                                         *)
(*   BaseInv    types, the ids of alarms, what a thread holds where;       *)
(*   PlaceInv   an alarm is in one place at a time; CallInv adds that a    *)
(*              one-shot alarm that may still be called has not been;      *)
(*   RemoveInv  the waits of RemoveAlarm and RemoveAlarmsWithListener;     *)
(*   RoleInv    the controller role, with SleepInv for the sleeping        *)
(*              controller and DrainInv for a timer that was stopped;      *)
(*   OrderInv   the order of the callbacks.                                *)
(***************************************************************************)
EXTENDS Timer, FiniteSetTheorems, SequenceTheorems, TLAPS

USE TimerAssumption

-----------------------------------------------------------------------------
(***************************************************************************)
(* Layer 1: ids, and what a thread holds at each place of its loop.        *)

Used == {a \in Alarm : alarmId[a] # 0}

\* Alarms get their ids one after the other.
IdsDistinct ==
  /\ IsFiniteSet(Used)
  /\ \A a \in Alarm : alarmId[a] <= Cardinality(Used)
  /\ \A a, b \in Used : alarmId[a] = alarmId[b] => a = b

\* Only constructed alarms are in the set, are served or wait for room.
OnlyUsed ==
  /\ alarms \subseteq Used
  /\ \A i \in Idx : top[i] # NoAlarm => top[i] \in Used
  /\ \A c \in Client : client[c].op = "add" => client[c].alarm \in Used

IdInv == IdsDistinct /\ OnlyUsed

InCallback == {"call", "done"}
Serving    == {"reent", "serve"} \union InCallback
Expiring   == {"exitReent", "exitCall"}

\* topAlarm and currentAlarm are set exactly while the thread serves or expires an
\* alarm; a thread that runs has an object, and only such a thread can be stopping.
ThreadInv ==
  \A i \in Idx :
    /\ top[i] # NoAlarm <=> pc[i] \in Serving
    /\ currentAlarm[i] # NoAlarm <=> pc[i] \in InCallback \union Expiring
    /\ pc[i] \in InCallback => currentAlarm[i] = top[i]
    /\ pc[i] = "off" <=> ~live[i]
    /\ live[i] => allocated[i]
    /\ isStopping[i] => live[i]
    /\ pc[i] \in {"ctlWait", "sleep", "idle"} => state[i] = "IDLE"

BaseInv == TypeOK /\ IdInv /\ ThreadInv

(***************************************************************************)
(* Layer 2: where an alarm is.                                             *)

\* Alarm a waits for room in AddAlarm of client c.
Waiting(c, a) == client[c].op = "add" /\ client[c].alarm = a

\* An alarm is in one place: in the set, in a waiting AddAlarm, or with one thread.
PlaceInv ==
  /\ \A c \in Client : client[c].op = "add" => client[c].alarm \in Used \ alarms
  /\ \A c, d \in Client : client[c].op = "add" /\ Waiting(d, client[c].alarm) => c = d
  /\ \A i \in Idx : currentAlarm[i] # NoAlarm =>
        /\ currentAlarm[i] \in Used \ alarms
        /\ \A c \in Client : ~Waiting(c, currentAlarm[i])
        /\ \A j \in Idx : currentAlarm[j] = currentAlarm[i] => i = j

\* a is on its way to its callback.
Unborn(a) == alarmId[a] = 0
Pending(a) == \/ a \in alarms
              \/ \E c \in Client : Waiting(c, a)
              \/ \E i \in Idx : pc[i] = "exitReent" /\ currentAlarm[i] = a

\* A one-shot alarm that may still be called has not been called.
CallInv ==
  /\ \A a \in Alarm \ Periodic :
        Unborn(a) \/ Pending(a) => Occurs(a, started) = {} /\ Occurs(a, expired) = {}
  /\ RunsAtMostOnce

(***************************************************************************)
(* Layer 3: the waits of RemoveAlarm and RemoveAlarmsWithListener.         *)

\* No alarm of S will be called: none is pending or can be added, and of the
\* threads below n none is in a callback for one of them.
QuietBelow(S, n) ==
  /\ S \intersect alarms = {}
  /\ \A c \in Client : client[c].op = "add" => client[c].alarm \notin S
  /\ \A i \in Idx : i < n => currentAlarm[i] \notin S

\* No AddAlarm waits with an alarm of S.
NoAdder(S) == \A k \in Client : client[k].op = "add" => client[k].alarm \notin S

\* What a client in a removal has seen so far.
ClientQuiet(c) ==
  /\ client[c].op \in {"remove", "force", "replace"} =>
        client[c].alarms \subseteq Used /\ QuietBelow(client[c].alarms, client[c].at)
  /\ client[c].op = "removeAll" =>
        /\ client[c].alarms = ListenerAlarms /\ NoAdder(ListenerAlarms)
        /\ client[c].at # -1 => QuietBelow(ListenerAlarms, client[c].at)

RemoveInv ==
  /\ removed \subseteq Used /\ QuietBelow(removed, NumThreads)
  /\ listenerGone => QuietBelow(ListenerAlarms, NumThreads)
  /\ \A c \in Client : ClientQuiet(c)

-----------------------------------------------------------------------------
(* Facts about numbers, sets and sequences.                                *)

\* A set of thread indices, such as the one MinIdx is applied to, has a smallest element.
LEMMA SmallestExists ==
  ASSUME NEW I \in SUBSET Nat, I # {}
  PROVE  \E i \in I : \A j \in I : i <= j
<1> DEFINE Below(i) == {j \in I : j <= i}
           F == {Below(i) : i \in I}
<1>1. \A i \in I : Below(i) \in SUBSET Nat /\ IsFiniteSet(Below(i))
  BY FS_BoundedSetOfNaturals
<1>2. F \subseteq FiniteSubsetsOf(Nat) /\ F # {}
  <2>1. \A i \in I : Below(i) \in FiniteSubsetsOf(Nat)
    BY <1>1 DEF FiniteSubsetsOf
  <2> HIDE DEF Below
  <2> QED
    BY <2>1
<1>3. PICK B \in F : \A C \in F : <<C, B>> \notin StrictSubsetOrdering(Nat)
  <2> HIDE DEF F
  <2> QED
    BY <1>2, FS_StrictSubsetOrderingWellFounded, WFMin
<1>4. PICK i \in I : B = Below(i)
  OBVIOUS
<1>5. ASSUME NEW j \in I, ~(i <= j) PROVE FALSE
  <2>1. i \in Nat /\ j \in Nat
    OBVIOUS
  <2>2. \A k \in I : k <= j => k <= i
    BY <1>5, <2>1
  <2>3. Below(j) \subseteq Below(i)
    BY <2>2
  <2>4. i \in Below(i) /\ i \notin Below(j)
    BY <1>5, <2>1
  <2>5. <<Below(j), Below(i)>> \in StrictSubsetOrdering(Nat)
    BY <2>3, <2>4, <1>1 DEF StrictSubsetOrdering
  <2> QED
    BY <2>5, <1>3, <1>4
<1> QED
  BY <1>5

\* What MinIdx chooses.
LEMMA MinIdxIn ==
  ASSUME NEW I \in SUBSET Idx, I # {}
  PROVE  MinIdx(I) \in I /\ \A j \in I : MinIdx(I) <= j
<1>1. I \in SUBSET Nat
  BY DEF Idx
<1> QED
  BY <1>1, SmallestExists DEF MinIdx

\* What MaxIdx chooses.
LEMMA MaxIdxIn ==
  ASSUME NEW I \in SUBSET Idx, I # {}
  PROVE  MaxIdx(I) \in I
<1> DEFINE J == {NumThreads - i : i \in I}
<1>1. J \in SUBSET Nat /\ J # {}
  <2>1. \A i \in Idx : NumThreads - i \in Nat
    BY DEF Idx
  <2> QED
    BY <2>1
<1>2. PICK j \in J : \A k \in J : j <= k
  BY <1>1, SmallestExists
<1>3. PICK i \in I : j = NumThreads - i
  OBVIOUS
<1>4. ASSUME NEW k \in I PROVE k <= i
  <2>1. i \in Int /\ k \in Int /\ NumThreads - k \in J
    BY DEF Idx
  <2>2. j <= NumThreads - k
    BY <1>2, <2>1
  <2> QED
    BY <1>3, <2>1, <2>2
<1> QED
  BY <1>3, <1>4 DEF MaxIdx

\* Erasing a thread from addWaitQueue leaves a queue of clients.
LEMMA RemoveFirstType ==
  ASSUME NEW S, NEW s \in Seq(S), NEW e
  PROVE  RemoveFirst(s, e) \in Seq(S)
<1> DEFINE I == {n \in 1..Len(s) : s[n] = e}
           k == Min(I)
<1>1. CASE I = {}
  BY <1>1 DEF RemoveFirst
<1>2. CASE I # {}
  <2>1. I \in SUBSET Nat
    OBVIOUS
  <2>2. k \in I
    BY <1>2, <2>1, SmallestExists DEF Min
  <2>3. k \in Nat /\ 1 <= k /\ k <= Len(s) /\ Len(s) \in Nat
    BY <2>2
  <2>4. SubSeq(s, 1, k - 1) \in Seq(S)
    BY <2>3, SubSeqProperties, \A n \in 1 .. k - 1 : s[n] \in S
  <2>5. SubSeq(s, k + 1, Len(s)) \in Seq(S)
    BY <2>3, SubSeqProperties, \A n \in k + 1 .. Len(s) : s[n] \in S
  <2>6. RemoveFirst(s, e) = SubSeq(s, 1, k - 1) \o SubSeq(s, k + 1, Len(s))
    <3>1. \E n \in 1..Len(s) : s[n] = e
      BY <1>2
    <3> QED
      BY <1>2, <3>1 DEF RemoveFirst, RemoveAt, SelectInSeq
  <2> QED
    BY <2>4, <2>5, <2>6, ConcatProperties
<1> QED
  BY <1>1, <1>2

\* How a history grows.
LEMMA OccursAppend ==
  ASSUME NEW S, NEW s \in Seq(S), NEW x \in S, NEW a
  PROVE  /\ Append(s, x) \in Seq(S)
         /\ Occurs(a, s) \subseteq 1 .. Len(s)
         /\ Occurs(a, Append(s, x)) = IF a = x THEN Occurs(a, s) \union {Len(s) + 1} ELSE Occurs(a, s)
BY DEF Occurs

\* The alarm at the front of a set.
LEMMA FirstIn ==
  ASSUME TypeOK, IdInv, NEW S \in SUBSET alarms, S # {}
  PROVE  IsFirst(First(S), S)
<1> DEFINE Below(a) == {b \in S : Before(b, a)}
           F == {Below(a) : a \in S}
<1>1. IsFiniteSet(S) /\ S \subseteq Used
  BY FS_Subset DEF IdInv, IdsDistinct, OnlyUsed
<1>2. F \subseteq FiniteSubsetsOf(S) /\ F # {}
  <2>1. \A a \in S : Below(a) \in SUBSET S
    OBVIOUS
  <2>2. \A T \in SUBSET S : T \in FiniteSubsetsOf(S)
    BY <1>1, FS_Subset DEF FiniteSubsetsOf
  <2>3. \A a \in S : Below(a) \in FiniteSubsetsOf(S)
    BY <2>1, <2>2
  <2> HIDE DEF Below
  <2> QED
    BY <2>3
<1>3. PICK B \in F : \A C \in F : <<C, B>> \notin StrictSubsetOrdering(S)
  <2> HIDE DEF F
  <2> QED
    BY <1>2, FS_StrictSubsetOrderingWellFounded, WFMin
<1>4. PICK a \in S : B = Below(a)
  OBVIOUS
<1>5. ASSUME NEW b \in S \ {a}, ~Before(a, b) PROVE FALSE
  <2>1. /\ alarmId[a] \in Nat /\ alarmId[b] \in Nat /\ alarmId[a] # alarmId[b]
        /\ \A c \in S : alarmTime[c] \in Nat /\ alarmId[c] \in Nat
    BY <1>1 DEF TypeOK, IdInv, IdsDistinct, Used
  <2>2. Before(b, a) /\ \A c \in S : Before(c, b) => Before(c, a)
    BY <1>5, <2>1 DEF Before
  <2>3. Below(b) \subseteq Below(a) /\ b \in Below(a) /\ b \notin Below(b)
    BY <2>1, <2>2 DEF Before
  <2>4. <<Below(b), Below(a)>> \in StrictSubsetOrdering(S)
    BY <2>3 DEF StrictSubsetOrdering
  <2> QED
    BY <2>4, <1>3, <1>4
<1>6. IsFirst(a, S)
  BY <1>5 DEF IsFirst
<1> QED
  BY <1>6 DEF First


\* No alarm is due before the first one.
LEMMA FirstAlarm ==
  ASSUME TypeOK, IdInv, alarms # {}
  PROVE  /\ First(alarms) \in alarms /\ First(alarms) # NoAlarm
         /\ \A b \in alarms \ {First(alarms)} : Before(First(alarms), b)
         /\ \A b \in alarms : alarmTime[First(alarms)] <= alarmTime[b]
<1>1. alarms \in SUBSET alarms
  OBVIOUS
<1>2. IsFirst(First(alarms), alarms)
  BY <1>1, FirstIn
<1>3. First(alarms) \in alarms /\ \A b \in alarms \ {First(alarms)} : Before(First(alarms), b)
  BY <1>2 DEF IsFirst
<1>4. alarms \subseteq Alarm /\ alarmTime \in [Alarm -> Nat]
  BY DEF TypeOK
<1>5. \A b \in alarms : alarmTime[First(alarms)] <= alarmTime[b]
  <2> HIDE DEF First
  <2> QED
    BY <1>3, <1>4 DEF Before
<1> QED
  BY <1>3, <1>4, <1>5

-----------------------------------------------------------------------------
(* Layer 1.                                                                *)

\* A new alarm gets an id of its own.
LEMMA ConstructIds ==
  ASSUME TypeOK, IdsDistinct, NEW a \in Alarm, Construct(a)
  PROVE  /\ a \notin Used /\ Used' = Used \union {a}
         /\ alarmId' \in [Alarm -> Nat]
         /\ \A b \in Alarm \ {a} : alarmId'[b] = alarmId[b]
         /\ \A b \in Used : alarmId[b] < alarmId'[a]
         /\ IdsDistinct'
<1> DEFINE n == Cardinality(Used)
<1>1. n \in Nat /\ NextId = n + 1
  BY FS_CardinalityType DEF IdsDistinct, NextId, Used
<1>2. alarmId' = [alarmId EXCEPT ![a] = n + 1] /\ alarmId[a] = 0
  BY <1>1 DEF Construct, Fresh
<1>3. alarmId \in [Alarm -> Nat]
  BY DEF TypeOK
<1>4. alarmId' \in [Alarm -> Nat]
  BY <1>1, <1>2, <1>3
<1>5. /\ alarmId'[a] = n + 1
      /\ \A b \in Alarm \ {a} : alarmId'[b] = alarmId[b]
  BY <1>2, <1>3
<1>6. a \notin Used /\ Used' = Used \union {a}
  <2>1. a \notin Used
    BY <1>2 DEF Used
  <2>2. \A b \in Alarm : alarmId'[b] # 0 <=> alarmId[b] # 0 \/ b = a
    BY <1>1, <1>3, <1>5
  <2> QED
    BY <2>1, <2>2 DEF Used
<1>7. IsFiniteSet(Used') /\ Cardinality(Used') = n + 1
  BY <1>6, FS_AddElement DEF IdsDistinct
<1>8. \A b \in Alarm : alarmId[b] <= n
  BY DEF IdsDistinct
<1>9. \A b \in Alarm : alarmId'[b] <= n + 1
  BY <1>1, <1>3, <1>5, <1>8
<1>10. \A b \in Used : alarmId[b] < alarmId'[a]
  BY <1>1, <1>3, <1>5, <1>8 DEF Used
<1>11. ASSUME NEW b \in Used', NEW c \in Used', alarmId'[b] = alarmId'[c] PROVE b = c
  <2>1. \A d \in Used : alarmId'[d] = alarmId[d] /\ alarmId[d] < n + 1
    BY <1>5, <1>6, <1>10 DEF Used
  <2>2. Used \subseteq Alarm /\ \A d \in Used : alarmId[d] \in Nat
    BY <1>3 DEF Used
  <2> QED
    BY <1>1, <1>5, <1>6, <1>11, <2>1, <2>2 DEF IdsDistinct
<1> QED
  BY <1>4, <1>5, <1>6, <1>7, <1>9, <1>10, <1>11 DEF IdsDistinct

\* What the insertion does to the types.
LEMMA InsertType ==
  ASSUME TypeOK, NEW a \in Alarm, NEW S \in SUBSET Alarm, NEW T \in Nat, Insert(a, S, T)
  PROVE  /\ alarms' \subseteq Alarm /\ alarmTime' \in [Alarm -> Nat]
         /\ inserted' \in Seq(Alarm) /\ stopEvent' \in [Idx -> BOOLEAN]
BY DEF TypeOK, Insert

\* The thread a removal waits for.
LEMMA WaitFor ==
  ASSUME TypeOK, NEW k \in Int, NEW S \in SUBSET Alarm, RunningFrom(k, S) # {}
  PROVE  /\ MinIdx(RunningFrom(k, S)) \in RunningFrom(k, S)
         /\ \A i \in Idx : k <= i /\ i < MinIdx(RunningFrom(k, S)) => ~(allocated[i] /\ currentAlarm[i] \in S)
         /\ \A op \in {"remove", "force", "replace", "removeAll"} :
               [op |-> op, alarms |-> S, at |-> MinIdx(RunningFrom(k, S))] \in ClientCall
<1>1. RunningFrom(k, S) \in SUBSET Idx
  BY DEF RunningFrom
<1>2. /\ MinIdx(RunningFrom(k, S)) \in RunningFrom(k, S)
      /\ \A j \in RunningFrom(k, S) : MinIdx(RunningFrom(k, S)) <= j
  BY <1>1, MinIdxIn
<1>3. MinIdx(RunningFrom(k, S)) \in Idx
  BY <1>1, <1>2
<1>4. ASSUME NEW i \in Idx, k <= i, i < MinIdx(RunningFrom(k, S)), allocated[i], currentAlarm[i] \in S
      PROVE  FALSE
  <2>1. i \in RunningFrom(k, S)
    BY <1>4 DEF RunningFrom, Idx
  <2> HIDE DEF RunningFrom
  <2>2. MinIdx(RunningFrom(k, S)) <= i
    BY <1>2, <2>1
  <2>3. i \in Int /\ MinIdx(RunningFrom(k, S)) \in Int
    BY <1>3 DEF Idx
  <2> QED
    BY <1>4, <2>2, <2>3
<1>5. \A op \in {"remove", "force", "replace", "removeAll"} :
         [op |-> op, alarms |-> S, at |-> MinIdx(RunningFrom(k, S))] \in ClientCall
  BY <1>3 DEF ClientCall
<1> QED
  BY <1>2, <1>4, <1>5

\* The fields of the call a client is in.
LEMMA CallFields ==
  ASSUME TypeOK, NEW c \in Client
  PROVE  /\ client[c].op \in {"none", "start", "add", "remove", "force", "replace", "removeAll"}
         /\ client[c].op = "add" => client[c].alarm \in Alarm /\ client[c].time \in Nat
         /\ client[c].op \in {"remove", "force", "replace", "removeAll"} =>
               client[c].alarms \in SUBSET Alarm /\ client[c].at \in Idx \union {-1}
<1>1. client[c] \in ClientCall
  BY DEF TypeOK
<1> QED
  BY <1>1 DEF ClientCall

\* WaitOrReturn, whatever else a return does.
Waits(c, k, S, op) == WaitOrReturn(c, k, S, op, TRUE)

\* RemoveAlarm waits for another thread or returns.
LEMMA WaitStep ==
  ASSUME TypeOK, NEW c \in Client, NEW k \in Int, NEW S \in SUBSET Alarm,
         NEW op \in {"remove", "force", "replace", "removeAll"},
         Waits(c, k, S, op)
  PROVE  /\ client' \in [Client -> ClientCall]
         /\ \A b \in Client \ {c} : client'[b] = client[b]
         /\ \/ client'[c] = IdleClient /\ RunningFrom(k, S) = {}
            \/ /\ client'[c].op = op /\ client'[c].alarms = S
               /\ client'[c].at \in RunningFrom(k, S)
               /\ \A i \in Idx : k <= i /\ i < client'[c].at => ~(allocated[i] /\ currentAlarm[i] \in S)
               /\ UNCHANGED <<removed, listenerGone>>
<1>1. client \in [Client -> ClientCall] /\ IdleClient \in ClientCall
  BY DEF TypeOK, IdleClient, ClientCall
<1>2. CASE RunningFrom(k, S) = {}
  BY <1>1, <1>2 DEF Waits, WaitOrReturn
<1>3. CASE RunningFrom(k, S) # {}
  <2> DEFINE r == [op |-> op, alarms |-> S, at |-> MinIdx(RunningFrom(k, S))]
  <2>1. client' = [client EXCEPT ![c] = r] /\ UNCHANGED <<removed, listenerGone>>
    BY <1>3 DEF Waits, WaitOrReturn
  <2>2. r \in ClientCall
    BY <1>3, WaitFor
  <2>3. client' \in [Client -> ClientCall] /\ client'[c] = r /\ \A b \in Client \ {c} : client'[b] = client[b]
    BY <1>1, <2>1, <2>2
  <2>4. /\ r.at \in RunningFrom(k, S)
        /\ \A i \in Idx : k <= i /\ i < r.at => ~(allocated[i] /\ currentAlarm[i] \in S)
    BY <1>3, WaitFor
  <2>5. r.op = op /\ r.alarms = S
    OBVIOUS
  <2> HIDE DEF r
  <2> QED
    BY <2>1, <2>3, <2>4, <2>5
<1> QED
  BY <1>2, <1>3

\* Threads and clients hold what the types say.
LEMMA TypeStep ==
  ASSUME TypeOK, IdInv, ThreadInv, Next
  PROVE  TypeOK'
<1> USE DEF clockVars, alarmVars, clientVars, waitVars, threadVars, runVars
<1>0. IdsDistinct
  BY DEF IdInv
<1>b. client \in [Client -> ClientCall] /\ addWaitQueue \in Seq(Client)
  BY DEF TypeOK
<1>c. /\ alarms \subseteq Alarm /\ alarmTime \in [Alarm -> Nat] /\ inserted \in Seq(Alarm)
      /\ now \in Nat /\ \A d \in 0 .. MaxDelay : now + d \in Nat
  BY DEF TypeOK
<1>d. /\ state \in [Idx -> {"STOPPED", "STARTING", "IDLE", "RUNNING", "STOPPING"}]
      /\ stopEvent \in [Idx -> BOOLEAN] /\ pc \in [Idx -> ThreadPc]
      /\ allocated \in [Idx -> BOOLEAN] /\ live \in [Idx -> BOOLEAN]
  BY DEF TypeOK
<1>e. removed \subseteq Alarm /\ listenerGone \in BOOLEAN
  BY DEF TypeOK
<1>f. /\ top \in [Idx -> Alarm \union {NoAlarm}] /\ currentAlarm \in [Idx -> Alarm \union {NoAlarm}]
      /\ hasTimerLock \in [Idx -> BOOLEAN] /\ reentrancyLock \in Idx \union {NoThread}
      /\ started \in Seq(Alarm) /\ loopNow \in [Idx -> Nat]
  BY DEF TypeOK
<1>a. IdleClient \in ClientCall
  BY DEF IdleClient, ClientCall
<1>1. CASE Tick
  BY <1>1 DEF TypeOK, Tick
<1>2. ASSUME NEW c \in Client, NEW a \in Alarm, NEW d \in 0 .. MaxDelay, AddAlarm(c, a, d)
      PROVE  TypeOK'
  <2>1. now + d \in Nat /\ alarmId' \in [Alarm -> Nat]
    BY <1>0, <1>c, <1>2, ConstructIds DEF AddAlarm
  <2>2. <<c>> \o addWaitQueue \in Seq(Client)
    BY <1>b
  <2> DEFINE r == [op |-> "add", alarm |-> a, time |-> now + d]
  <2>3. r \in ClientCall
    BY <2>1 DEF ClientCall
  <2>4. alarms' \subseteq Alarm /\ alarmTime' \in [Alarm -> Nat] /\ inserted' \in Seq(Alarm) /\ stopEvent' \in [Idx -> BOOLEAN]
    <3>1. CASE Insert(a, alarms, now + d)
      BY <1>c, <2>1, <3>1, InsertType
    <3>2. CASE UNCHANGED <<alarms, alarmTime, inserted, stopEvent>>
      BY <1>c, <1>d, <3>2
    <3> QED
      BY <1>2, <3>1, <3>2 DEF AddAlarm
  <2>5. client' \in [Client -> ClientCall] /\ addWaitQueue' \in Seq(Client)
    <3>1. UNCHANGED <<client, addWaitQueue>> \/ (client' = [client EXCEPT ![c] = r] /\ addWaitQueue' = <<c>> \o addWaitQueue)
      BY <1>2 DEF AddAlarm
    <3> HIDE DEF r
    <3> QED
      BY <1>b, <2>2, <2>3, <3>1
  <2> QED
    BY <1>2, <2>1, <2>4, <2>5 DEF TypeOK, AddAlarm
<1>3. ASSUME NEW c \in Client, AddAlarmWake(c) \/ AddAlarmForced(c)
      PROVE  TypeOK'
  <2>1. client[c].alarm \in Alarm /\ client[c].time \in Nat
    BY <1>0, <1>3, CallFields DEF AddAlarmWake, AddAlarmForced
  <2>2. RemoveFirst(addWaitQueue, c) \in Seq(Client) /\ <<c>> \o RemoveFirst(addWaitQueue, c) \in Seq(Client)
    BY <1>b, RemoveFirstType
  <2>4. alarms' \subseteq Alarm /\ alarmTime' \in [Alarm -> Nat] /\ inserted' \in Seq(Alarm) /\ stopEvent' \in [Idx -> BOOLEAN]
    <3>1. CASE Insert(client[c].alarm, alarms, client[c].time)
      BY <1>c, <2>1, <3>1, InsertType
    <3>2. CASE UNCHANGED <<alarms, alarmTime, inserted, stopEvent>>
      BY <1>c, <1>d, <3>2
    <3> QED
      BY <1>3, <3>1, <3>2 DEF AddAlarmWake, AddAlarmForced
  <2>5. client' \in [Client -> ClientCall] /\ addWaitQueue' \in Seq(Client)
    <3>1. client' = client \/ client' = [client EXCEPT ![c] = IdleClient]
      BY <1>3 DEF AddAlarmWake, AddAlarmForced
    <3>2. addWaitQueue' \in {RemoveFirst(addWaitQueue, c), <<c>> \o RemoveFirst(addWaitQueue, c)}
      BY <1>3 DEF AddAlarmWake, AddAlarmForced
    <3> QED
      BY <1>a, <1>b, <2>2, <3>1, <3>2
  <2> QED
    BY <1>3, <2>4, <2>5 DEF TypeOK, AddAlarmWake, AddAlarmForced
<1>4. ASSUME NEW c \in Client, NEW a \in Alarm, NEW d \in 0 .. MaxDelay, AddAlarmNonBlocking(c, a, d)
      PROVE  TypeOK'
  <2>1. now + d \in Nat /\ alarmId' \in [Alarm -> Nat]
    BY <1>0, <1>c, <1>4, ConstructIds DEF AddAlarmNonBlocking
  <2>4. alarms' \subseteq Alarm /\ alarmTime' \in [Alarm -> Nat] /\ inserted' \in Seq(Alarm) /\ stopEvent' \in [Idx -> BOOLEAN]
    <3>1. CASE Insert(a, alarms, now + d)
      BY <1>c, <2>1, <3>1, InsertType
    <3>2. CASE UNCHANGED <<alarms, alarmTime, inserted, stopEvent>>
      BY <1>c, <1>d, <3>2
    <3> QED
      BY <1>4, <3>1, <3>2 DEF AddAlarmNonBlocking
  <2> QED
    BY <1>4, <2>1, <2>4 DEF TypeOK, AddAlarmNonBlocking
<1>5. ASSUME NEW c \in Client, NEW a \in Alarm, NEW block \in BOOLEAN, RemoveAlarm(c, a, block)
      PROVE  TypeOK'
  <2>1. client' \in [Client -> ClientCall] /\ alarms' \subseteq Alarm /\ removed' \subseteq Alarm /\ listenerGone' \in BOOLEAN
    <3>1. alarms' \subseteq Alarm
      BY <1>c, <1>5 DEF RemoveAlarm
    <3>2. CASE client' = client /\ UNCHANGED listenerGone /\ removed' = removed \union {a}
      BY <1>b, <1>e, <3>1, <3>2
    <3>3. CASE WaitOrReturn(c, 0, {a}, "remove", removed' = removed \union {a} /\ UNCHANGED listenerGone)
      <4>1. Waits(c, 0, {a}, "remove") /\ removed' \subseteq Alarm /\ listenerGone' \in BOOLEAN
        BY <1>e, <3>3 DEF Waits, WaitOrReturn
      <4>2. {a} \in SUBSET Alarm /\ 0 \in Int
        OBVIOUS
      <4>3. client' \in [Client -> ClientCall]
        BY <4>1, <4>2, WaitStep
      <4> QED
        BY <3>1, <4>1, <4>3
    <3> QED
      BY <1>5, <3>2, <3>3 DEF RemoveAlarm
  <2> QED
    BY <1>5, <2>1 DEF TypeOK, RemoveAlarm
<1>6. ASSUME NEW c \in Client, NEW a \in Alarm, NEW block \in BOOLEAN, ForceRemoveAlarm(c, a, block)
      PROVE  TypeOK'
  <2>1. client' \in [Client -> ClientCall] /\ alarms' \subseteq Alarm /\ removed' \subseteq Alarm /\ listenerGone' \in BOOLEAN
    <3>1. alarms' \subseteq Alarm
      BY <1>c, <1>6 DEF ForceRemoveAlarm
    <3>2. CASE client' = client /\ UNCHANGED listenerGone /\ removed' = removed \union {a}
      BY <1>b, <1>e, <3>1, <3>2
    <3>3. CASE WaitOrReturn(c, 0, {a}, "force", removed' = removed \union {a} /\ UNCHANGED listenerGone)
      <4>1. Waits(c, 0, {a}, "force") /\ removed' \subseteq Alarm /\ listenerGone' \in BOOLEAN
        BY <1>e, <3>3 DEF Waits, WaitOrReturn
      <4>2. {a} \in SUBSET Alarm /\ 0 \in Int
        OBVIOUS
      <4>3. client' \in [Client -> ClientCall]
        BY <4>1, <4>2, WaitStep
      <4> QED
        BY <3>1, <4>1, <4>3
    <3> QED
      BY <1>6, <3>2, <3>3 DEF ForceRemoveAlarm
  <2>2. stopEvent' \in [Idx -> BOOLEAN]
    BY <1>6, <1>d, <2>1 DEF ForceRemoveAlarm, ForceAlert
  <2> QED
    BY <1>6, <2>1, <2>2 DEF TypeOK, ForceRemoveAlarm
<1>7. ASSUME NEW c \in Client, RemoveAlarmWake(c)
      PROVE  TypeOK'
  <2>0. client[c].alarms \in SUBSET Alarm /\ client[c].at \in Int
    BY <1>0, <1>7, CallFields DEF RemoveAlarmWake, Idx
  <2>1. client' \in [Client -> ClientCall] /\ removed' \subseteq Alarm /\ listenerGone' \in BOOLEAN
    <3>1. /\ Waits(c, client[c].at, client[c].alarms, client[c].op)
          /\ client[c].op \in {"remove", "force", "replace", "removeAll"}
      BY <1>7 DEF RemoveAlarmWake, Waits, WaitOrReturn
    <3>2. removed' \subseteq Alarm /\ listenerGone' \in BOOLEAN
      BY <1>e, <1>7, <2>0 DEF RemoveAlarmWake, Waits, WaitOrReturn
    <3>3. client' \in [Client -> ClientCall]
      BY <2>0, <3>1, WaitStep
    <3> QED
      BY <3>2, <3>3
  <2>2. stopEvent' \in [Idx -> BOOLEAN]
    BY <1>7, <1>d, <2>1 DEF RemoveAlarmWake, ForceAlert
  <2> QED
    BY <1>7, <2>1, <2>2 DEF TypeOK, RemoveAlarmWake
<1>8. ASSUME NEW c \in Client, NEW o \in Alarm, NEW a \in Alarm, NEW d \in 0 .. MaxDelay, NEW block \in BOOLEAN, ReplaceAlarm(c, o, a, d, block)
      PROVE  TypeOK'
  <2>1. now + d \in Nat /\ alarmId' \in [Alarm -> Nat]
    BY <1>0, <1>c, <1>8, ConstructIds DEF ReplaceAlarm
  <2>2. client' \in [Client -> ClientCall] /\ UNCHANGED <<removed, listenerGone>>
    <3>1. CASE WaitOrReturn(c, 0, {o}, "replace", UNCHANGED <<removed, listenerGone>>)
      <4>1. Waits(c, 0, {o}, "replace") /\ UNCHANGED <<removed, listenerGone>>
        BY <3>1 DEF Waits, WaitOrReturn
      <4>2. {o} \in SUBSET Alarm /\ 0 \in Int
        OBVIOUS
      <4>3. client' \in [Client -> ClientCall]
        BY <4>1, <4>2, WaitStep
      <4> QED
        BY <4>1, <4>3
    <3>2. CASE UNCHANGED <<client, removed, listenerGone>>
      BY <1>b, <3>2
    <3> QED
      BY <1>8, <3>1, <3>2 DEF ReplaceAlarm
  <2>4. alarms' \subseteq Alarm /\ alarmTime' \in [Alarm -> Nat] /\ inserted' \in Seq(Alarm) /\ stopEvent' \in [Idx -> BOOLEAN]
    <3>1. CASE Insert(a, alarms \ {o}, now + d)
      BY <1>c, <2>1, <3>1, InsertType
    <3>2. CASE UNCHANGED <<alarms, alarmTime, inserted, stopEvent>>
      BY <1>c, <1>d, <3>2
    <3> QED
      BY <1>8, <3>1, <3>2 DEF ReplaceAlarm
  <2> QED
    BY <1>8, <2>1, <2>2, <2>4 DEF TypeOK, ReplaceAlarm
<1>9. ASSUME NEW c \in Client, RemoveAlarmsWithListener(c)
      PROVE  TypeOK'
  <2>1. [op |-> "removeAll", alarms |-> ListenerAlarms, at |-> -1] \in ClientCall
    BY DEF ClientCall
  <2> QED
    BY <1>9, <2>1 DEF TypeOK, RemoveAlarmsWithListener
<1>10. ASSUME NEW c \in Client, RemoveListenerAlarm(c)
       PROVE  TypeOK'
  <2>0. client[c].at \in Int
    BY <1>0, <1>10, CallFields DEF RemoveListenerAlarm, Idx
  <2>1. client' \in [Client -> ClientCall] /\ alarms' \subseteq Alarm /\ removed' \subseteq Alarm /\ listenerGone' \in BOOLEAN
    <3>1. alarms' \subseteq Alarm
      BY <1>c, <1>10 DEF RemoveListenerAlarm
    <3>2. removed' \subseteq Alarm /\ listenerGone' \in BOOLEAN
      BY <1>e, <1>10 DEF RemoveListenerAlarm, Waits, WaitOrReturn
    <3>3. \/ client' \in {client, [client EXCEPT ![c] = IdleClient]}
          \/ \E k \in Int : Waits(c, k, ListenerAlarms, "removeAll")
      BY <1>10, <2>0 DEF RemoveListenerAlarm, Waits, WaitOrReturn
    <3>4. CASE client' \in {client, [client EXCEPT ![c] = IdleClient]}
      BY <1>a, <1>b, <3>1, <3>2, <3>4
    <3>5. CASE \E k \in Int : Waits(c, k, ListenerAlarms, "removeAll")
      BY <3>1, <3>2, <3>5, WaitStep
    <3> QED
      BY <3>3, <3>4, <3>5
  <2> QED
    BY <1>10, <2>1 DEF TypeOK, RemoveListenerAlarm
<1>11. ASSUME NEW c \in Client, Start(c) \/ StartDone(c) \/ Stop(c)
       PROVE  TypeOK'
  <2>1. [op |-> "start"] \in ClientCall /\ 0 \in Idx
    BY DEF ClientCall, Idx
  <2>2. CASE Start(c)
    BY <2>1, <2>2 DEF TypeOK, Start, ThreadPc
  <2>3. CASE StartDone(c)
    BY <2>3, <1>a DEF TypeOK, StartDone
  <2>4. CASE Stop(c)
    <3>1. \A n \in DOMAIN addWaitQueue : addWaitQueue[n] \in Client
      BY <1>b
    <3> QED
      <4>1. alerted' \subseteq Client /\ isRunning' \in BOOLEAN
        <5>1. {addWaitQueue[n] : n \in DOMAIN addWaitQueue} \subseteq Client
          BY <3>1
        <5>2. alerted \subseteq Client
          BY DEF TypeOK
        <5> QED
          BY <2>4, <5>1, <5>2 DEF Stop
      <4>2. isStopping' \in [Idx -> BOOLEAN]
        BY <2>4, Zenon DEF Stop
      <4>3. stopEvent' \in [Idx -> BOOLEAN]
        BY <2>4, Zenon DEF Stop
      <4> QED
        BY <2>4, <4>1, <4>2, <4>3 DEF TypeOK, Stop
  <2> QED
    BY <1>11, <2>2, <2>3, <2>4
<1>12. ASSUME NEW i \in Idx, Loop(i)
       PROVE  TypeOK'
  <2>1. ASSUME alarms # {} PROVE First(alarms) \in Alarm /\ alarmTime[First(alarms)] \in Nat
    <3>1. First(alarms) \in alarms
      BY <2>1, FirstIn DEF IsFirst
    <3> QED
      BY <1>c, <3>1
  <2>2. Never \in Nat
    BY DEF Never
  <2>3. controllerIdx' \in Idx \union {-1}
    BY <1>12 DEF TypeOK, Loop
  <2>4. state' \in [Idx -> {"STOPPED", "STARTING", "IDLE", "RUNNING", "STOPPING"}] /\ stopEvent' \in [Idx -> BOOLEAN]
    BY <1>12 DEF TypeOK, Loop, LeaveLoop
  <2>5. pc' \in [Idx -> ThreadPc]
    <3>1. \E x \in {"exit", "reent", "ctlWait", "sleep", "idle"} : pc' = [pc EXCEPT ![i] = x]
      BY <1>12 DEF Loop, LeaveLoop, Goto
    <3> QED
      BY <1>d, <3>1 DEF ThreadPc
  <2>6. until' \in [Idx -> Nat]
    BY <1>12, <2>1, <2>2 DEF TypeOK, Loop
  <2>7. top' \in [Idx -> Alarm \union {NoAlarm}] /\ loopNow' \in [Idx -> Nat]
    <3>1. \/ UNCHANGED <<top, loopNow>>
          \/ /\ alarms # {}
             /\ top' = [top EXCEPT ![i] = First(alarms)] /\ loopNow' = [loopNow EXCEPT ![i] = now]
      BY <1>12 DEF Loop
    <3> QED
      <4>1. top' \in [Idx -> Alarm \union {NoAlarm}]
        BY <1>f, <2>1, <3>1
      <4>2. loopNow' \in [Idx -> Nat]
        BY <1>c, <1>f, <3>1
      <4> QED
        BY <4>1, <4>2
  <2> QED
    BY <1>12, <2>3, <2>4, <2>5, <2>6, <2>7 DEF TypeOK, Loop
<1>13. ASSUME NEW i \in Idx, WaitEnds(i) \/ IdleEnds(i)
       PROVE  TypeOK'
  <2>1. CASE WaitEnds(i)
    BY <2>1 DEF TypeOK, WaitEnds, Goto, ThreadPc
  <2>2. CASE IdleEnds(i)
    <3>1. state' \in [Idx -> {"STOPPED", "STARTING", "IDLE", "RUNNING", "STOPPING"}] /\ stopEvent' \in [Idx -> BOOLEAN]
      BY <1>d, <2>2 DEF IdleEnds, LeaveLoop
    <3>2. pc' = [pc EXCEPT ![i] = "loop"] \/ pc' = [pc EXCEPT ![i] = "exit"]
      BY <2>2 DEF IdleEnds, LeaveLoop, Goto
    <3>3. pc' \in [Idx -> ThreadPc]
      BY <1>d, <3>2 DEF ThreadPc
    <3> QED
      BY <2>2, <3>1, <3>3 DEF TypeOK, IdleEnds
  <2> QED
    BY <1>13, <2>1, <2>2
<1>14. ASSUME NEW i \in Idx, GetReentrancyLock(i) \/ EnableReentrancy(i) \/ CallbackReturns(i)
       PROVE  TypeOK'
  <2>1. CASE GetReentrancyLock(i)
    BY <2>1 DEF TypeOK, GetReentrancyLock, TakeReentrancyLock, Goto, ThreadPc
  <2>2. CASE EnableReentrancy(i)
    BY <2>2 DEF TypeOK, EnableReentrancy, ReleaseReentrancyLock
  <2>3. CASE CallbackReturns(i)
    BY <2>3 DEF TypeOK, CallbackReturns, ReleaseReentrancyLock, Goto, ThreadPc
  <2> QED
    BY <1>14, <2>1, <2>2, <2>3
<1>15. ASSUME NEW i \in Idx, Serve(i)
       PROVE  TypeOK'
  <2>1. top[i] \in Alarm
    BY <1>0, <1>15 DEF TypeOK, Serve, ThreadInv, Serving
  <2>2. /\ controllerIdx' \in Idx \union {-1} /\ allocated' \in [Idx -> BOOLEAN] /\ stopEvent' \in [Idx -> BOOLEAN]
        /\ state' \in [Idx -> {"STOPPED", "STARTING", "IDLE", "RUNNING", "STOPPING"}] /\ live' \in [Idx -> BOOLEAN]
        /\ pc' \in [Idx -> ThreadPc]
    <3> DEFINE where == IF StillPending(i) THEN "call" ELSE "loop"
    <3>1. CASE HandOver(i, where)
      BY <3>1 DEF TypeOK, HandOver, StartWorker, Goto, ThreadPc
    <3>2. CASE Goto(i, where) /\ UNCHANGED <<controllerIdx, stopEvent, allocated, state, live>>
      BY <3>2 DEF TypeOK, Goto, ThreadPc
    <3> QED
      BY <1>15, <3>1, <3>2 DEF Serve
  <2>3. addWaitQueue' \in Seq(Client) /\ alerted' \subseteq Client
    <3>1. CASE UNCHANGED waitVars
      BY <3>1 DEF TypeOK
    <3>2. CASE /\ addWaitQueue # <<>>
               /\ alerted' = alerted \union {addWaitQueue[Len(addWaitQueue)]}
               /\ addWaitQueue' = SubSeq(addWaitQueue, 1, Len(addWaitQueue) - 1)
      <4>1. Len(addWaitQueue) \in Nat /\ Len(addWaitQueue) # 0
        BY <1>b, <3>2, EmptySeq
      <4> QED
        BY <3>2, <4>1, SubSeqProperties DEF TypeOK
    <3> QED
      BY <1>15, <3>1, <3>2 DEF Serve
  <2>4. \/ /\ alarms' = alarms \ {top[i]} /\ started' = Append(started, top[i])
           /\ currentAlarm' = [currentAlarm EXCEPT ![i] = top[i]]
           /\ UNCHANGED <<hasTimerLock, reentrancyLock, top, loopNow>>
        \/ /\ ReleaseReentrancyLock(i) /\ Forget(i)
           /\ UNCHANGED <<alarms, currentAlarm, started>>
    BY <1>15 DEF Serve
  <2>5. /\ alarms' \subseteq Alarm /\ started' \in Seq(Alarm) /\ currentAlarm' \in [Idx -> Alarm \union {NoAlarm}]
    <3>1. Append(started, top[i]) \in Seq(Alarm)
      BY <1>f, <2>1
    <3>2. [currentAlarm EXCEPT ![i] = top[i]] \in [Idx -> Alarm \union {NoAlarm}]
      BY <1>f, <2>1
    <3> QED
      BY <1>c, <1>f, <2>4, <3>1, <3>2
  <2>6. /\ hasTimerLock' \in [Idx -> BOOLEAN] /\ reentrancyLock' \in Idx \union {NoThread}
        /\ top' \in [Idx -> Alarm \union {NoAlarm}] /\ loopNow' \in [Idx -> Nat]
    <3>1. ReleaseReentrancyLock(i) => hasTimerLock' \in [Idx -> BOOLEAN] /\ reentrancyLock' \in Idx \union {NoThread}
      BY <1>f DEF ReleaseReentrancyLock
    <3>2. Forget(i) => top' \in [Idx -> Alarm \union {NoAlarm}] /\ loopNow' \in [Idx -> Nat]
      BY <1>f DEF Forget
    <3> QED
      BY <1>f, <2>4, <3>1, <3>2
  <2> QED
    BY <1>15, <2>2, <2>3, <2>5, <2>6 DEF TypeOK, Serve
<1>16. ASSUME NEW i \in Idx, FinishAlarm(i)
       PROVE  TypeOK'
  <2>1. top[i] \in Alarm
    BY <1>0, <1>16 DEF TypeOK, FinishAlarm, ThreadInv, Serving, InCallback
  <2>2. NextTime(i) \in Nat
    BY <2>1 DEF TypeOK, NextTime
  <2>3. alarms' \subseteq Alarm /\ alarmTime' \in [Alarm -> Nat] /\ inserted' \in Seq(Alarm) /\ stopEvent' \in [Idx -> BOOLEAN]
    <3>1. CASE Insert(top[i], alarms, NextTime(i))
      BY <1>c, <2>1, <2>2, <3>1, InsertType
    <3>2. CASE alarmTime' = [alarmTime EXCEPT ![top[i]] = NextTime(i)] /\ UNCHANGED <<alarms, inserted, stopEvent>>
      BY <1>c, <1>d, <2>1, <2>2, <3>2
    <3>3. CASE UNCHANGED <<alarms, alarmTime, inserted, stopEvent>>
      BY <1>c, <1>d, <3>3
    <3> QED
      BY <1>16, <3>1, <3>2, <3>3 DEF FinishAlarm
  <2> QED
    BY <1>16, <2>3 DEF TypeOK, FinishAlarm, Forget, Goto, ThreadPc
<1>17. ASSUME NEW i \in Idx, ThreadExit(i)
       PROVE  TypeOK'
  <2>1. ASSUME ToExpire # {} PROVE First(ToExpire) \in Alarm
    <3>1. ToExpire = alarms
      BY <2>1 DEF ToExpire
    <3> QED
      BY <1>c, <2>1, <3>1, FirstIn DEF IsFirst
  <2>2. /\ alarms' \subseteq Alarm /\ currentAlarm' \in [Idx -> Alarm \union {NoAlarm}]
        /\ state' \in [Idx -> {"STOPPED", "STARTING", "IDLE", "RUNNING", "STOPPING"}]
    <3>1. CASE ToExpire # {}
      <4>1. /\ alarms' = alarms \ {First(ToExpire)} /\ state' = state
            /\ currentAlarm' = [currentAlarm EXCEPT ![i] = First(ToExpire)]
        BY <1>17, <3>1 DEF ThreadExit
      <4> QED
        BY <1>c, <1>d, <1>f, <2>1, <3>1, <4>1
    <3>2. CASE ToExpire = {}
      <4>1. alarms' = alarms /\ currentAlarm' = currentAlarm /\ state' = [state EXCEPT ![i] = "STOPPED"]
        BY <1>17, <3>2 DEF ThreadExit
      <4> QED
        BY <1>c, <1>d, <1>f, <4>1
    <3> QED
      BY <3>1, <3>2
  <2>3. pc' \in [Idx -> ThreadPc]
    BY <1>d, <1>17 DEF ThreadExit, Goto, ThreadPc
  <2> QED
    BY <1>17, <2>1, <2>2, <2>3 DEF TypeOK, ThreadExit
<1>18. ASSUME NEW i \in Idx, ExpireAlarm(i)
       PROVE  TypeOK'
  <2>1. currentAlarm[i] \in Alarm
    BY <1>0, <1>18 DEF TypeOK, ExpireAlarm, TakeReentrancyLock, ThreadInv, Expiring
  <2> QED
    BY <1>18, <2>1 DEF TypeOK, ExpireAlarm, TakeReentrancyLock, Goto, ThreadPc
<1>19. ASSUME NEW i \in Idx, ExpireReturns(i) \/ Die(i)
       PROVE  TypeOK'
  BY <1>19 DEF TypeOK, ExpireReturns, ReleaseReentrancyLock, Die, Goto, ThreadPc
<1>20. ASSUME NEW i \in Idx, NEW j \in Idx, ReapWorker(i, j)
       PROVE  TypeOK'
  BY <1>20 DEF TypeOK, ReapWorker
<1> QED
  BY <1>1, <1>2, <1>3, <1>4, <1>5, <1>6, <1>7, <1>8, <1>9, <1>10, <1>11, <1>12, <1>13, <1>14, <1>15, <1>16, <1>17, <1>18, <1>19, <1>20
     DEF Next, ClientStep, ThreadStep, RunStep

\* The calls of clients other than Start and Stop leave the threads alone.
LEMMA ClientFrame ==
  ASSUME NEW c \in Client, ClientStep(c)
  PROVE  \/ Start(c) \/ StartDone(c) \/ Stop(c)
         \/ UNCHANGED <<now, loopNow, allocated, live, isStopping, until, top, currentAlarm, hasTimerLock,
                        reentrancyLock, started, expired, isRunning, controllerIdx, state, pc, starts>>
<1> USE DEF clockVars, threadVars, runVars, clientVars
<1>1. ASSUME NEW a \in Alarm, NEW d \in 0 .. MaxDelay, AddAlarm(c, a, d) \/ AddAlarmNonBlocking(c, a, d)
      PROVE  UNCHANGED <<now, loopNow, allocated, live, isStopping, until, top, currentAlarm, hasTimerLock,
                         reentrancyLock, started, expired, isRunning, controllerIdx, state, pc, starts>>
  BY <1>1 DEF AddAlarm, AddAlarmNonBlocking
<1>2. ASSUME NEW a \in Alarm, NEW block \in BOOLEAN, RemoveAlarm(c, a, block) \/ ForceRemoveAlarm(c, a, block)
      PROVE  UNCHANGED <<now, loopNow, allocated, live, isStopping, until, top, currentAlarm, hasTimerLock,
                         reentrancyLock, started, expired, isRunning, controllerIdx, state, pc, starts>>
  BY <1>2 DEF RemoveAlarm, ForceRemoveAlarm
<1>3. ASSUME NEW o \in Alarm, NEW a \in Alarm, NEW d \in 0 .. MaxDelay, NEW block \in BOOLEAN, ReplaceAlarm(c, o, a, d, block)
      PROVE  UNCHANGED <<now, loopNow, allocated, live, isStopping, until, top, currentAlarm, hasTimerLock,
                         reentrancyLock, started, expired, isRunning, controllerIdx, state, pc, starts>>
  BY <1>3 DEF ReplaceAlarm
<1>4. ASSUME AddAlarmWake(c) \/ AddAlarmForced(c) \/ RemoveAlarmWake(c) \/ RemoveAlarmsWithListener(c) \/ RemoveListenerAlarm(c)
      PROVE  UNCHANGED <<now, loopNow, allocated, live, isStopping, until, top, currentAlarm, hasTimerLock,
                         reentrancyLock, started, expired, isRunning, controllerIdx, state, pc, starts>>
  BY <1>4 DEF AddAlarmWake, AddAlarmForced, RemoveAlarmWake, RemoveAlarmsWithListener, RemoveListenerAlarm
<1> QED
  BY <1>1, <1>2, <1>3, <1>4 DEF ClientStep

\* How the controller role changes when thread i goes on from the reentrancy lock to where:
\* it is given up after another thread was alerted or started, or when all are busy.
Handed(i, where) ==
  \/ /\ controllerIdx # i /\ pc' = [pc EXCEPT ![i] = where]
     /\ UNCHANGED <<controllerIdx, stopEvent, allocated, state, live>>
  \/ /\ controllerIdx = i /\ controllerIdx' = -1 /\ pc' = [pc EXCEPT ![i] = where]
     /\ UNCHANGED <<allocated, state, live>>
     /\ \/ ~isRunning /\ stopEvent' = stopEvent
        \/ AllOthersBusy(i) /\ stopEvent' = stopEvent
        \/ \E j \in Idx \ {i} : state[j] = "IDLE" /\ stopEvent' = [stopEvent EXCEPT ![j] = TRUE]
  \/ /\ controllerIdx = i /\ controllerIdx' = -1 /\ isRunning
     /\ \E j \in Idx \ {i} :
          /\ ~live[j] /\ pc[j] = "off"
          /\ pc' = [pc EXCEPT ![i] = where, ![j] = "loop"]
          /\ live' = [live EXCEPT ![j] = TRUE]
          /\ allocated' = [allocated EXCEPT ![j] = TRUE]
          /\ state' = [state EXCEPT ![j] = "STARTING"]
          /\ stopEvent' = [stopEvent EXCEPT ![j] = FALSE]

\* Serve gives the controller role up exactly as Handed says.
LEMMA ServeHands ==
  ASSUME TypeOK, ThreadInv, NEW i \in Idx, Serve(i)
  PROVE  Handed(i, IF top[i] \in alarms THEN "call" ELSE "loop")
<1> DEFINE where == IF top[i] \in alarms THEN "call" ELSE "loop"
<1> SUFFICES Handed(i, where)
  OBVIOUS
<1>1. CASE controllerIdx # i
  BY <1>1 DEF Serve, StillPending, Goto, Handed
<1>2. CASE controllerIdx = i
  <2>1. HandOver(i, where)
    BY <1>2 DEF Serve, StillPending
  <2> HIDE DEF where
  <2>2. CASE isRunning /\ IdleWorkers(i) # {}
    <3>1. IdleWorkers(i) \in SUBSET Idx /\ MinIdx(IdleWorkers(i)) \in IdleWorkers(i)
      BY <2>2, MinIdxIn DEF IdleWorkers, Others
    <3>2. MinIdx(IdleWorkers(i)) \in Idx \ {i} /\ state[MinIdx(IdleWorkers(i))] = "IDLE"
      BY <3>1 DEF IdleWorkers, Others
    <3>3. /\ controllerIdx' = -1 /\ stopEvent' = [stopEvent EXCEPT ![MinIdx(IdleWorkers(i))] = TRUE]
          /\ pc' = [pc EXCEPT ![i] = where] /\ UNCHANGED <<allocated, state, live>>
      BY <2>1, <2>2 DEF HandOver, Goto
    <3> QED
      BY <1>2, <3>2, <3>3 DEF Handed
  <2>3. CASE isRunning /\ IdleWorkers(i) = {} /\ StoppedWorkers(i) \union NullWorkers(i) # {}
    <3> DEFINE j == IF StoppedWorkers(i) # {} THEN MaxIdx(StoppedWorkers(i)) ELSE MinIdx(NullWorkers(i))
    <3>1. StoppedWorkers(i) \in SUBSET Idx /\ NullWorkers(i) \in SUBSET Idx
      BY DEF StoppedWorkers, NullWorkers, Others
    <3>2. j \in StoppedWorkers(i) \/ j \in NullWorkers(i)
      BY <2>3, <3>1, MinIdxIn, MaxIdxIn
    <3>3. controllerIdx' = -1 /\ StartWorker(j) /\ pc' = [pc EXCEPT ![i] = where, ![j] = "loop"]
      BY <2>1, <2>3 DEF HandOver
    <3> HIDE DEF j
    <3>4. j \in Idx \ {i} /\ ~live[j] /\ pc[j] = "off"
      BY <3>2 DEF StoppedWorkers, NullWorkers, Others, ThreadInv
    <3> QED
      BY <1>2, <2>3, <3>3, <3>4 DEF Handed, StartWorker
  <2>4. CASE ~isRunning \/ (IdleWorkers(i) \union StoppedWorkers(i) \union NullWorkers(i) = {})
    <3>1. ~isRunning \/ AllOthersBusy(i)
      BY <2>1, <2>4 DEF HandOver, SearchEnds
    <3>2. /\ controllerIdx' = -1 /\ pc' = [pc EXCEPT ![i] = where]
          /\ UNCHANGED <<stopEvent, allocated, state, live>>
      BY <2>1, <2>4 DEF HandOver, Goto
    <3> QED
      BY <1>2, <3>1, <3>2 DEF Handed
  <2> QED
    BY <2>2, <2>3, <2>4
<1> QED
  BY <1>1, <1>2

\* What a thread holds where.
LEMMA ThreadInvStep ==
  ASSUME TypeOK, IdInv, ThreadInv, Next
  PROVE  ThreadInv'
<1> USE DEF ThreadInv, Serving, Expiring, InCallback
<1>t. /\ state \in [Idx -> {"STOPPED", "STARTING", "IDLE", "RUNNING", "STOPPING"}] /\ pc \in [Idx -> ThreadPc]
      /\ allocated \in [Idx -> BOOLEAN] /\ live \in [Idx -> BOOLEAN] /\ isStopping \in [Idx -> BOOLEAN]
      /\ top \in [Idx -> Alarm \union {NoAlarm}] /\ currentAlarm \in [Idx -> Alarm \union {NoAlarm}]
  BY DEF TypeOK
<1>1. CASE Tick
  BY <1>1 DEF Tick, threadVars, runVars
<1>2. ASSUME NEW c \in Client, ClientStep(c)
      PROVE  ThreadInv'
  <2>1. CASE Start(c)
    BY <1>t, <2>1 DEF Start, threadVars, runVars
  <2>2. CASE StartDone(c)
    BY <2>2 DEF StartDone, threadVars, runVars
  <2>3. CASE Stop(c)
    BY <1>t, <2>3 DEF Stop, runVars
  <2>4. CASE UNCHANGED <<top, currentAlarm, pc, live, allocated, isStopping, state>>
    BY <2>4
  <2> QED
    BY <1>2, <2>1, <2>2, <2>3, <2>4, ClientFrame
<1>3. ASSUME NEW i \in Idx, Loop(i)
      PROVE  ThreadInv'
  <2>1. ASSUME alarms # {} PROVE First(alarms) # NoAlarm
    BY <2>1, FirstAlarm
  <2>2. UNCHANGED <<currentAlarm, live, allocated, isStopping>>
    BY <1>3 DEF Loop, threadVars
  <2>3. \/ top' = top /\ \E x \in {"exit"} : pc' = [pc EXCEPT ![i] = x]
        \/ /\ top' = [top EXCEPT ![i] = First(alarms)] /\ alarms # {}
           /\ pc' = [pc EXCEPT ![i] = "reent"]
        \/ /\ top' = top /\ state' = [state EXCEPT ![i] = "IDLE"]
           /\ \E x \in {"ctlWait", "sleep", "idle"} : pc' = [pc EXCEPT ![i] = x]
    BY <1>3 DEF Loop, LeaveLoop, Goto
  <2>4. \A k \in Idx \ {i} : state'[k] = state[k]
    BY <1>t, <1>3 DEF Loop, LeaveLoop
  <2>5. pc[i] = "loop"
    BY <1>3 DEF Loop
  <2> QED
    BY <1>t, <2>1, <2>2, <2>3, <2>4, <2>5
<1>4. ASSUME NEW i \in Idx, WaitEnds(i) \/ IdleEnds(i)
      PROVE  ThreadInv'
  BY <1>t, <1>4 DEF WaitEnds, IdleEnds, LeaveLoop, Goto, threadVars, runVars
<1>5. ASSUME NEW i \in Idx, GetReentrancyLock(i) \/ EnableReentrancy(i) \/ CallbackReturns(i)
      PROVE  ThreadInv'
  BY <1>t, <1>5 DEF GetReentrancyLock, EnableReentrancy, CallbackReturns, TakeReentrancyLock, Goto, threadVars
<1>6. ASSUME NEW i \in Idx, Serve(i)
      PROVE  ThreadInv'
  <2>1. pc[i] = "serve"
    BY <1>6 DEF Serve
  <2>2. \/ /\ currentAlarm' = [currentAlarm EXCEPT ![i] = top[i]] /\ top' = top
           /\ Handed(i, "call")
        \/ /\ top' = [top EXCEPT ![i] = NoAlarm] /\ currentAlarm' = currentAlarm
           /\ Handed(i, "loop")
    BY <1>6, <2>1, ServeHands DEF Serve, StillPending, Forget
  <2>3. isStopping' = isStopping
    BY <1>6 DEF Serve
  <2> QED
    BY <1>t, <2>1, <2>2, <2>3 DEF Handed
<1>7. ASSUME NEW i \in Idx, FinishAlarm(i)
      PROVE  ThreadInv'
  BY <1>t, <1>7 DEF FinishAlarm, Forget, Goto, threadVars
<1>8. ASSUME NEW i \in Idx, ThreadExit(i)
      PROVE  ThreadInv'
  <2>1. ASSUME ToExpire # {} PROVE First(ToExpire) # NoAlarm
    BY <2>1, FirstAlarm DEF ToExpire
  <2> QED
    BY <1>t, <1>8, <2>1 DEF ThreadExit, Goto, threadVars
<1>9. ASSUME NEW i \in Idx, ExpireAlarm(i)
      PROVE  ThreadInv'
  BY <1>t, <1>9 DEF ExpireAlarm, TakeReentrancyLock, Goto, threadVars
<1>10. ASSUME NEW i \in Idx, ExpireReturns(i)
       PROVE  ThreadInv'
  BY <1>t, <1>10 DEF ExpireReturns, Goto, threadVars
<1>11. ASSUME NEW i \in Idx, Die(i)
       PROVE  ThreadInv'
  BY <1>t, <1>11 DEF Die, Goto, runVars
<1>12. ASSUME NEW i \in Idx, NEW j \in Idx, ReapWorker(i, j)
       PROVE  ThreadInv'
  BY <1>t, <1>12 DEF ReapWorker, runVars
<1> QED
  BY <1>1, <1>2, <1>3, <1>4, <1>5, <1>6, <1>7, <1>8, <1>9, <1>10, <1>11, <1>12 DEF Next, ThreadStep, RunStep

\* What a client's step may do to the set: a new alarm comes, is put in or has to wait...
Enters(c, a) ==
  /\ Construct(a)
  /\ client[c].op # "add"
  /\ \A b \in Client \ {c} : client'[b] = client[b]
  /\ \A b \in Alarm \ {a} : alarmTime'[b] = alarmTime[b]
  /\ \/ /\ alarms' \subseteq alarms \union {a} /\ a \in alarms' /\ inserted' = Append(inserted, a)
        /\ client'[c].op # "add"
     \/ /\ UNCHANGED <<alarms, inserted>>
        /\ client'[c].op = "add" => client'[c].alarm = a

\* ... one that has waited goes on...
GoesOn(c) ==
  /\ client[c].op = "add"
  /\ UNCHANGED alarmId
  /\ \A b \in Client \ {c} : client'[b] = client[b]
  /\ \A b \in Alarm \ {client[c].alarm} : alarmTime'[b] = alarmTime[b]
  /\ \/ UNCHANGED <<client, alarms, inserted>>
     \/ /\ client'[c].op = "none"
        /\ \/ alarms' = alarms \union {client[c].alarm} /\ inserted' = Append(inserted, client[c].alarm)
           \/ UNCHANGED <<alarms, inserted>>

\* ... or alarms are only taken out.
TakesOut(c) ==
  /\ UNCHANGED <<alarmId, alarmTime, inserted>>
  /\ alarms' \subseteq alarms
  /\ client[c].op # "add" /\ client'[c].op # "add"
  /\ \A b \in Client \ {c} : client'[b] = client[b]

\* These are the only effects a client has on the alarms.
LEMMA ClientMoves ==
  ASSUME TypeOK, NEW c \in Client, ClientStep(c)
  PROVE  (\E a \in Alarm : Enters(c, a)) \/ GoesOn(c) \/ TakesOut(c)
<1> USE DEF alarmVars, clientVars
<1>0. IdleClient.op = "none" /\ client \in [Client -> ClientCall] /\ alarmTime \in [Alarm -> Nat]
  BY DEF IdleClient, TypeOK
<1>1. ASSUME NEW a \in Alarm, NEW d \in 0 .. MaxDelay, AddAlarm(c, a, d)
      PROVE  Enters(c, a)
  <2>1. CASE Insert(a, alarms, now + d) /\ client' = client
    BY <1>0, <1>1, <2>1 DEF AddAlarm, Insert, Enters
  <2>2. CASE /\ client' = [client EXCEPT ![c] = [op |-> "add", alarm |-> a, time |-> now + d]]
             /\ UNCHANGED <<alarms, alarmTime, inserted>>
    BY <1>0, <1>1, <2>2 DEF AddAlarm, Enters
  <2>3. CASE UNCHANGED <<alarms, alarmTime, inserted, client>>
    BY <1>0, <1>1, <2>3 DEF AddAlarm, Enters
  <2> QED
    BY <1>1, <2>1, <2>2, <2>3 DEF AddAlarm
<1>2. ASSUME NEW a \in Alarm, NEW d \in 0 .. MaxDelay, AddAlarmNonBlocking(c, a, d)
      PROVE  Enters(c, a)
  BY <1>0, <1>2 DEF AddAlarmNonBlocking, Insert, Enters
<1>3. ASSUME AddAlarmWake(c) \/ AddAlarmForced(c)
      PROVE  GoesOn(c)
  BY <1>0, <1>3 DEF AddAlarmWake, AddAlarmForced, Insert, GoesOn
<1>4. ASSUME NEW a \in Alarm, NEW block \in BOOLEAN, RemoveAlarm(c, a, block)
      PROVE  TakesOut(c)
  BY <1>0, <1>4 DEF RemoveAlarm, WaitOrReturn, TakesOut
<1>5. ASSUME NEW a \in Alarm, NEW block \in BOOLEAN, ForceRemoveAlarm(c, a, block)
      PROVE  TakesOut(c)
  BY <1>0, <1>5 DEF ForceRemoveAlarm, WaitOrReturn, TakesOut
<1>6. ASSUME RemoveAlarmWake(c)
      PROVE  TakesOut(c)
  BY <1>0, <1>6 DEF RemoveAlarmWake, WaitOrReturn, TakesOut
<1>7. ASSUME NEW o \in Alarm, NEW a \in Alarm, NEW d \in 0 .. MaxDelay, NEW block \in BOOLEAN, ReplaceAlarm(c, o, a, d, block)
      PROVE  Enters(c, a)
  <2>1. CASE Insert(a, alarms \ {o}, now + d) /\ client' = client
    BY <1>0, <1>7, <2>1 DEF ReplaceAlarm, Insert, Enters
  <2>2. CASE /\ WaitOrReturn(c, 0, {o}, "replace", UNCHANGED <<removed, listenerGone>>)
             /\ UNCHANGED <<alarms, alarmTime, inserted>>
    BY <1>0, <1>7, <2>2 DEF ReplaceAlarm, WaitOrReturn, Enters
  <2>3. CASE UNCHANGED <<alarms, alarmTime, inserted, client>>
    BY <1>0, <1>7, <2>3 DEF ReplaceAlarm, Enters
  <2> QED
    BY <1>7, <2>1, <2>2, <2>3 DEF ReplaceAlarm
<1>8. ASSUME RemoveAlarmsWithListener(c)
      PROVE  TakesOut(c)
  BY <1>0, <1>8 DEF RemoveAlarmsWithListener, TakesOut
<1>9. ASSUME RemoveListenerAlarm(c)
      PROVE  TakesOut(c)
  BY <1>0, <1>9 DEF RemoveListenerAlarm, WaitOrReturn, TakesOut
<1>10. ASSUME Start(c) \/ StartDone(c) \/ Stop(c)
       PROVE  TakesOut(c)
  BY <1>0, <1>10 DEF Start, StartDone, Stop, TakesOut
<1> QED
  BY <1>1, <1>2, <1>3, <1>4, <1>5, <1>6, <1>7, <1>8, <1>9, <1>10 DEF ClientStep

\* Threads leave the ids and the clients alone, and put only what they served back.
LEMMA ThreadFrame ==
  ASSUME TypeOK, IdInv, ThreadInv, NEW i \in Idx, ThreadStep(i)
  PROVE  /\ UNCHANGED <<now, alarmId, client, starts, removed, listenerGone, isRunning>>
         /\ \/ alarms' \subseteq alarms
            \/ FinishAlarm(i) /\ top[i] \in Periodic /\ alarms' = alarms \union {top[i]}
         /\ \A k \in Idx : top'[k] \in {top[k], NoAlarm} \union alarms
<1> USE DEF clockVars, alarmVars, clientVars, waitVars, threadVars, runVars
<1>0. top \in [Idx -> Alarm \union {NoAlarm}]
  BY DEF TypeOK
<1>1. CASE Loop(i)
  BY <1>0, <1>1, FirstAlarm DEF Loop
<1>2. CASE Serve(i)
  BY <1>0, <1>2 DEF Serve, Forget
<1>3. CASE FinishAlarm(i)
  BY <1>0, <1>3 DEF FinishAlarm, Forget, Insert
<1>4. CASE ThreadExit(i)
  BY <1>0, <1>4 DEF ThreadExit
<1>5. CASE \E j \in Idx : ReapWorker(i, j)
  BY <1>0, <1>5 DEF ReapWorker
<1>6. CASE WaitEnds(i) \/ IdleEnds(i) \/ Die(i)
  BY <1>0, <1>6 DEF WaitEnds, IdleEnds, Die
<1>7. CASE GetReentrancyLock(i) \/ EnableReentrancy(i) \/ CallbackReturns(i) \/ ExpireAlarm(i) \/ ExpireReturns(i)
  BY <1>0, <1>7 DEF GetReentrancyLock, EnableReentrancy, CallbackReturns, ExpireAlarm, ExpireReturns
<1> QED
  BY <1>1, <1>2, <1>3, <1>4, <1>5, <1>6, <1>7 DEF ThreadStep, RunStep

\* Ids stay distinct, and what was not constructed is nowhere.
LEMMA IdInvStep ==
  ASSUME TypeOK, IdInv, ThreadInv, Next
  PROVE  IdInv'
<1>0. IdsDistinct /\ OnlyUsed
  BY DEF IdInv
<1>1. CASE Tick
  BY <1>1 DEF Tick, IdInv, IdsDistinct, OnlyUsed, Used, alarmVars, clientVars, runVars
<1>2. ASSUME NEW c \in Client, ClientStep(c)
      PROVE  IdInv'
  <2>1. top' = top
    BY <1>2, ClientFrame DEF Start, StartDone, Stop, runVars
  <2>2. ASSUME NEW a \in Alarm, Enters(c, a)
        PROVE  IdInv'
    <3>1. Used' = Used \union {a} /\ IdsDistinct'
      BY <1>0, <2>2, ConstructIds DEF Enters
    <3>2. alarms' \subseteq alarms \union {a}
      BY <2>2 DEF Enters
    <3>3. \A b \in Client : client'[b].op = "add" => client'[b].alarm \in Used \union {a}
      BY <1>0, <2>2 DEF Enters, OnlyUsed
    <3> QED
      BY <1>0, <2>1, <3>1, <3>2, <3>3 DEF IdInv, OnlyUsed
  <2>3. CASE GoesOn(c)
    <3>1. Used' = Used /\ IdsDistinct'
      BY <1>0, <2>3 DEF GoesOn, IdsDistinct, Used
    <3>2. alarms' \subseteq Used
      BY <1>0, <2>3 DEF GoesOn, OnlyUsed
    <3>3. \A b \in Client : client'[b].op = "add" => client'[b].alarm \in Used
      BY <1>0, <2>3 DEF GoesOn, OnlyUsed
    <3> QED
      BY <1>0, <2>1, <3>1, <3>2, <3>3 DEF IdInv, OnlyUsed
  <2>4. CASE TakesOut(c)
    <3>1. Used' = Used /\ IdsDistinct'
      BY <1>0, <2>4 DEF TakesOut, IdsDistinct, Used
    <3>2. alarms' \subseteq Used
      BY <1>0, <2>4 DEF TakesOut, OnlyUsed
    <3>3. \A b \in Client : client'[b].op = "add" => client'[b].alarm \in Used
      BY <1>0, <2>4 DEF TakesOut, OnlyUsed
    <3> QED
      BY <1>0, <2>1, <3>1, <3>2, <3>3 DEF IdInv, OnlyUsed
  <2> QED
    BY <1>2, <2>2, <2>3, <2>4, ClientMoves
<1>3. ASSUME NEW i \in Idx, ThreadStep(i)
      PROVE  IdInv'
  <2>1. Used' = Used /\ IdsDistinct'
    BY <1>0, <1>3, ThreadFrame DEF IdsDistinct, Used
  <2>2. alarms' \subseteq Used
    <3>1. FinishAlarm(i) => top[i] # NoAlarm
      BY DEF FinishAlarm, ThreadInv, Serving, InCallback
    <3> QED
      BY <1>0, <1>3, <3>1, ThreadFrame DEF OnlyUsed
  <2>3. \A k \in Idx : top'[k] # NoAlarm => top'[k] \in Used
    BY <1>0, <1>3, ThreadFrame DEF OnlyUsed
  <2>4. client' = client
    BY <1>3, ThreadFrame
  <2> QED
    BY <1>0, <2>1, <2>2, <2>3, <2>4 DEF IdInv, OnlyUsed
<1> QED
  BY <1>1, <1>2, <1>3 DEF Next

\* Layer 1 holds initially.
LEMMA BaseInit ==
  ASSUME Init
  PROVE  BaseInv
<1>1. TypeOK
  <2>1. /\ controllerIdx \in Idx \union {-1} /\ client \in [Client -> ClientCall]
    BY DEF Init, IdleClient, ClientCall, Idx
  <2> QED
    BY <2>1 DEF Init, TypeOK, ThreadPc
<1>2. IdInv
  <2>1. Used = {} /\ alarmId \in [Alarm -> {0}]
    BY DEF Init, Used
  <2>2. IsFiniteSet(Used) /\ Cardinality(Used) = 0
    BY <2>1, FS_EmptySet
  <2>3. IdsDistinct
    BY <2>1, <2>2 DEF IdsDistinct
  <2>4. OnlyUsed
    BY DEF Init, OnlyUsed, IdleClient
  <2> QED
    BY <2>3, <2>4 DEF IdInv
<1>3. ThreadInv
  BY DEF Init, ThreadInv, Serving, Expiring, InCallback
<1> QED
  BY <1>1, <1>2, <1>3 DEF BaseInv

\* Layer 1 is kept by every step.
LEMMA BaseStep ==
  ASSUME BaseInv, [Next]_vars
  PROVE  BaseInv'
<1>1. CASE Next
  BY <1>1, TypeStep, IdInvStep, ThreadInvStep DEF BaseInv
<1>2. CASE UNCHANGED vars
  BY <1>2 DEF vars, clockVars, alarmVars, clientVars, waitVars, threadVars, runVars, BaseInv, TypeOK, ClientCall,
              IdInv, IdsDistinct, OnlyUsed, Used, ThreadInv
<1> QED
  BY <1>1, <1>2

\* Layer 1 is an invariant: the types, ids given once and in order, and topAlarm and
\* currentAlarm set exactly where Run and ThreadExit work with them.
THEOREM BaseInvariant == SafeSpec => []BaseInv
BY BaseInit, BaseStep, PTL DEF SafeSpec

\* Every variable of a timer keeps its type.
THEOREM TypeCorrect == SafeSpec => []TypeOK
<1>1. BaseInv => TypeOK
  BY DEF BaseInv
<1> QED
  BY <1>1, BaseInvariant, PTL

\* With preventReentrancy the lock stays with the callback that took it until that callback
\* returns or calls EnableReentrancy.
THEOREM LockCorrect == SafeSpec => []LockHeldThroughCallback
<1>1. ASSUME Init PROVE LockHeldThroughCallback
  BY <1>1 DEF Init, LockHeldThroughCallback
<1>2. ASSUME TypeOK, LockHeldThroughCallback, [Next]_vars
      PROVE  LockHeldThroughCallback'
  <2> USE DEF LockHeldThroughCallback
  <2>1. hasTimerLock \in [Idx -> BOOLEAN]
    BY <1>2 DEF TypeOK
  <2>2. ASSUME NEW i \in Idx, TakeReentrancyLock(i, "reent", "serve") \/ TakeReentrancyLock(i, "exitReent", "exitCall")
        PROVE  LockHeldThroughCallback'
    BY <1>2, <2>1, <2>2 DEF TakeReentrancyLock
  <2>3. ASSUME NEW i \in Idx, ReleaseReentrancyLock(i)
        PROVE  LockHeldThroughCallback'
    BY <1>2, <2>1, <2>3 DEF ReleaseReentrancyLock
  <2>4. CASE UNCHANGED <<hasTimerLock, reentrancyLock>>
    BY <1>2, <2>4
  <2>5. ASSUME NEW c \in Client, ClientStep(c)
        PROVE  UNCHANGED <<hasTimerLock, reentrancyLock>>
    BY <2>5, ClientFrame DEF Start, StartDone, Stop, runVars
  <2>6. ASSUME NEW i \in Idx, ThreadStep(i)
        PROVE  \/ TakeReentrancyLock(i, "reent", "serve") \/ TakeReentrancyLock(i, "exitReent", "exitCall")
               \/ ReleaseReentrancyLock(i)
               \/ UNCHANGED <<hasTimerLock, reentrancyLock>>
    BY <2>6 DEF ThreadStep, RunStep, Loop, WaitEnds, IdleEnds, GetReentrancyLock, EnableReentrancy, Serve, CallbackReturns,
                FinishAlarm, ThreadExit, ExpireAlarm, ExpireReturns, Die, ReapWorker, runVars
  <2>7. CASE Tick \/ UNCHANGED vars
    BY <2>4, <2>7 DEF Tick, vars, runVars
  <2> QED
    BY <1>2, <2>2, <2>3, <2>4, <2>5, <2>6, <2>7 DEF Next
<1> QED
  BY <1>1, <1>2, TypeCorrect, PTL DEF SafeSpec

-----------------------------------------------------------------------------
(* Layer 2.                                                                *)

\* How the alarm of a thread, the set and the histories change in a thread's step: it takes
\* an alarm out, puts a periodic one back, calls one it has taken, or touches none of them.
Serves(i) ==
  /\ top[i] \in alarms /\ alarms' = alarms \ {top[i]}
  /\ currentAlarm' = [currentAlarm EXCEPT ![i] = top[i]]
  /\ started' = Append(started, top[i])
  /\ UNCHANGED <<expired, inserted, alarmTime, top>>
  /\ Handed(i, "call")

TakesLast(i) ==
  /\ First(alarms) \in alarms /\ alarms' = alarms \ {First(alarms)}
  /\ currentAlarm' = [currentAlarm EXCEPT ![i] = First(alarms)]
  /\ pc' = [pc EXCEPT ![i] = "exitReent"]
  /\ UNCHANGED <<started, expired, inserted, alarmTime, top>>

PutsBack(i) ==
  /\ pc[i] = "done" /\ top[i] \in Periodic
  /\ alarms' = alarms \union {top[i]}
  /\ inserted' = Append(inserted, top[i])
  /\ \A b \in Alarm \ {top[i]} : alarmTime'[b] = alarmTime[b]
  /\ currentAlarm' = [currentAlarm EXCEPT ![i] = NoAlarm]
  /\ pc' = [pc EXCEPT ![i] = "loop"]
  /\ UNCHANGED <<started, expired>>

Expires(i) ==
  /\ pc[i] = "exitReent" /\ pc' = [pc EXCEPT ![i] = "exitCall"]
  /\ expired' = Append(expired, currentAlarm[i])
  /\ UNCHANGED <<alarms, currentAlarm, started, inserted, alarmTime, top>>

LeavesAlarms(i) ==
  /\ currentAlarm' = currentAlarm \/ currentAlarm' = [currentAlarm EXCEPT ![i] = NoAlarm]
  /\ \A k \in Idx : pc'[k] = "exitReent" => pc[k] = "exitReent"
  /\ \A b \in Alarm : alarmTime'[b] = alarmTime[b] \/ b \in Periodic
  /\ UNCHANGED <<alarms, started, expired, inserted>>

\* These are the only effects a thread has on the alarms.
LEMMA ThreadMoves ==
  ASSUME BaseInv, NEW i \in Idx, ThreadStep(i)
  PROVE  Serves(i) \/ TakesLast(i) \/ PutsBack(i) \/ Expires(i) \/ LeavesAlarms(i)
<1> USE DEF alarmVars, runVars
<1>0. /\ TypeOK /\ IdInv /\ ThreadInv
      /\ pc \in [Idx -> ThreadPc] /\ alarmTime \in [Alarm -> Nat]
  BY DEF BaseInv, TypeOK
<1>1. CASE Serve(i)
  <2>1. CASE top[i] \in alarms
    BY <1>0, <1>1, <2>1, ServeHands DEF Serve, StillPending, Serves
  <2>2. CASE top[i] \notin alarms
    <3>1. Handed(i, "loop")
      BY <1>0, <1>1, <2>2, ServeHands
    <3>2. \A k \in Idx : pc'[k] = "exitReent" => pc[k] = "exitReent"
      BY <1>0, <3>1 DEF Handed
    <3> QED
      BY <1>1, <2>2, <3>2 DEF Serve, StillPending, LeavesAlarms
  <2> QED
    BY <2>1, <2>2
<1>2. CASE ThreadExit(i)
  <2>1. CASE ToExpire # {}
    BY <1>0, <1>2, <2>1, FirstAlarm DEF ThreadExit, ToExpire, Goto, TakesLast
  <2>2. CASE ToExpire = {}
    BY <1>0, <1>2, <2>2 DEF ThreadExit, Goto, LeavesAlarms
  <2> QED
    BY <2>1, <2>2
<1>3. CASE FinishAlarm(i)
  <2>1. top[i] \in Alarm /\ \A k \in Idx : pc'[k] = "exitReent" => pc[k] = "exitReent"
    BY <1>0, <1>3 DEF FinishAlarm, Goto, ThreadInv, Serving, InCallback, TypeOK
  <2>2. CASE Insert(top[i], alarms, NextTime(i)) /\ top[i] \in Periodic
    BY <1>0, <1>3, <2>1, <2>2 DEF FinishAlarm, Goto, Insert, PutsBack
  <2>3. CASE top[i] \in Periodic /\ alarmTime' = [alarmTime EXCEPT ![top[i]] = NextTime(i)] /\ UNCHANGED <<alarms, inserted>>
    BY <1>0, <1>3, <2>1, <2>3 DEF FinishAlarm, LeavesAlarms
  <2>4. CASE UNCHANGED alarmVars
    BY <1>3, <2>1, <2>4 DEF FinishAlarm, LeavesAlarms
  <2> QED
    BY <1>3, <2>2, <2>3, <2>4 DEF FinishAlarm
<1>4. CASE ExpireAlarm(i)
  BY <1>4 DEF ExpireAlarm, TakeReentrancyLock, Goto, Expires
<1>5. CASE ExpireReturns(i)
  BY <1>0, <1>5 DEF ExpireReturns, Goto, LeavesAlarms
<1>6. CASE Loop(i)
  BY <1>0, <1>6 DEF Loop, LeaveLoop, Goto, LeavesAlarms
<1>7. CASE WaitEnds(i) \/ IdleEnds(i) \/ Die(i)
  BY <1>0, <1>7 DEF WaitEnds, IdleEnds, Die, LeaveLoop, Goto, LeavesAlarms
<1>8. CASE GetReentrancyLock(i) \/ EnableReentrancy(i) \/ CallbackReturns(i)
  BY <1>0, <1>8 DEF GetReentrancyLock, TakeReentrancyLock, EnableReentrancy, CallbackReturns, Goto, LeavesAlarms
<1>9. CASE \E j \in Idx : ReapWorker(i, j)
  BY <1>0, <1>9 DEF ReapWorker, LeavesAlarms
<1> QED
  BY <1>1, <1>2, <1>3, <1>4, <1>5, <1>6, <1>7, <1>8, <1>9 DEF ThreadStep, RunStep

\* The alarms of threads and the histories of calls are not the clients'.
LEMMA ClientCalls ==
  ASSUME BaseInv, NEW c \in Client, ClientStep(c)
  PROVE  UNCHANGED <<top, currentAlarm, started, expired>> /\ \A i \in Idx : pc'[i] = "exitReent" <=> pc[i] = "exitReent"
<1>1. CASE Start(c)
  <2>1. pc' = [pc EXCEPT ![0] = "loop"] /\ 0 \in Idx /\ ~live[0]
    BY <1>1 DEF Start, Idx
  <2>2. pc \in [Idx -> ThreadPc] /\ pc[0] = "off"
    BY <2>1 DEF BaseInv, TypeOK, ThreadInv
  <2> QED
    BY <1>1, <2>1, <2>2 DEF Start, runVars
<1> QED
  BY <1>1, ClientFrame DEF StartDone, Stop, runVars

\* Layer 2, places: an alarm is handed on, never doubled.
LEMMA PlaceStep ==
  ASSUME BaseInv, PlaceInv, Next
  PROVE  PlaceInv'
<1>0. /\ TypeOK /\ IdInv /\ ThreadInv /\ IdsDistinct /\ OnlyUsed
      /\ currentAlarm \in [Idx -> Alarm \union {NoAlarm}]
  BY DEF BaseInv, IdInv, TypeOK
<1>1. ASSUME NEW c \in Client, ClientStep(c)
      PROVE  PlaceInv'
  <2>1. currentAlarm' = currentAlarm
    BY <1>1, ClientCalls
  <2>2. ASSUME NEW a \in Alarm, Enters(c, a)
        PROVE  PlaceInv'
    <3>1. a \notin Used /\ Used' = Used \union {a}
      BY <1>0, <2>2, ConstructIds DEF Enters
    <3>2. /\ alarms' \subseteq alarms \union {a}
          /\ client'[c].op = "add" => alarms' = alarms /\ client'[c].alarm = a
          /\ client[c].op # "add" /\ \A b \in Client \ {c} : client'[b] = client[b]
      BY <2>2 DEF Enters
    <3> QED
      BY <1>0, <2>1, <3>1, <3>2 DEF PlaceInv, Waiting, OnlyUsed
  <2>3. CASE GoesOn(c)
    <3>1. Used' = Used
      BY <2>3 DEF GoesOn, Used
    <3> QED
      BY <1>0, <2>1, <2>3, <3>1 DEF PlaceInv, Waiting, GoesOn
  <2>4. CASE TakesOut(c)
    <3>1. Used' = Used
      BY <2>4 DEF TakesOut, Used
    <3> QED
      BY <1>0, <2>1, <2>4, <3>1 DEF PlaceInv, Waiting, TakesOut
  <2> QED
    BY <1>0, <1>1, <2>2, <2>3, <2>4, ClientMoves
<1>2. ASSUME NEW i \in Idx, ThreadStep(i)
      PROVE  PlaceInv'
  <2>1. client' = client /\ Used' = Used
    BY <1>0, <1>2, ThreadFrame DEF Used
  <2>2. ASSUME NEW a \in alarms, alarms' = alarms \ {a}, currentAlarm' = [currentAlarm EXCEPT ![i] = a]
        PROVE  PlaceInv'
    BY <1>0, <2>1, <2>2 DEF PlaceInv, Waiting, OnlyUsed
  <2>3. CASE PutsBack(i)
    <3>1. currentAlarm[i] = top[i] /\ currentAlarm[i] # NoAlarm
      BY <1>0, <2>3 DEF PutsBack, ThreadInv, InCallback
    <3> QED
      BY <1>0, <2>1, <2>3, <3>1 DEF PlaceInv, Waiting, PutsBack
  <2>4. CASE alarms' = alarms /\ (currentAlarm' = currentAlarm \/ currentAlarm' = [currentAlarm EXCEPT ![i] = NoAlarm])
    BY <1>0, <2>1, <2>4 DEF PlaceInv, Waiting
  <2> QED
    BY <1>2, <2>2, <2>3, <2>4, ThreadMoves DEF Serves, TakesLast, Expires, LeavesAlarms
<1>3. CASE Tick
  BY <1>3 DEF Tick, PlaceInv, Waiting, Used, alarmVars, clientVars, runVars
<1> QED
  BY <1>1, <1>2, <1>3 DEF Next

\* An alarm is in one place at a time: in the set, with an AddAlarm that waits for room, or
\* with the one thread that runs it.  Two threads that picked it both never both run it.
THEOREM PlaceInvariant == SafeSpec => []PlaceInv
<1>1. Init => PlaceInv
  BY DEF Init, PlaceInv, IdleClient
<1>2. ASSUME BaseInv, PlaceInv, [Next]_vars PROVE PlaceInv'
  BY <1>2, PlaceStep DEF vars, PlaceInv, Waiting, Used, alarmVars, clientVars, runVars
<1> QED
  BY <1>1, <1>2, BaseInvariant, PTL DEF SafeSpec

\* What a call adds to its history.
LEMMA CardEmpty == Cardinality({}) = 0
BY FS_EmptySet

\* The first call of an alarm is the only one so far.
LEMMA OneCall ==
  ASSUME NEW s \in Seq(Alarm), NEW x \in Alarm
  PROVE  /\ \A a \in Alarm \ {x} : Occurs(a, Append(s, x)) = Occurs(a, s)
         /\ Occurs(x, s) = {} => Cardinality(Occurs(x, Append(s, x))) = 1
<1>1. \A a \in Alarm \ {x} : Occurs(a, Append(s, x)) = Occurs(a, s)
  BY OccursAppend
<1>2. ASSUME Occurs(x, s) = {} PROVE Cardinality(Occurs(x, Append(s, x))) = 1
  <2>1. Occurs(x, Append(s, x)) = {Len(s) + 1}
    BY <1>2, OccursAppend
  <2> QED
    BY <2>1, FS_Singleton
<1> QED
  BY <1>1, <1>2

\* Layer 2, calls: an alarm leaves "may still be called" when it is called.
LEMMA CallStep ==
  ASSUME BaseInv, PlaceInv, CallInv, Next
  PROVE  CallInv'
<1>0. /\ TypeOK /\ IdInv /\ ThreadInv /\ IdsDistinct /\ OnlyUsed
      /\ currentAlarm \in [Idx -> Alarm \union {NoAlarm}] /\ pc \in [Idx -> ThreadPc]
      /\ started \in Seq(Alarm) /\ expired \in Seq(Alarm) /\ alarms \subseteq Alarm
  BY DEF BaseInv, IdInv, TypeOK
<1>1. ASSUME UNCHANGED <<started, expired>>,
             \A a \in Alarm \ Periodic : (Unborn(a) \/ Pending(a))' => Unborn(a) \/ Pending(a)
      PROVE  CallInv'
  BY <1>1 DEF CallInv, RunsAtMostOnce
<1>2. ASSUME NEW c \in Client, ClientStep(c)
      PROVE  CallInv'
  <2>1. UNCHANGED <<currentAlarm, started, expired>> /\ \A i \in Idx : pc'[i] = "exitReent" <=> pc[i] = "exitReent"
    BY <1>2, ClientCalls
  <2>2. ASSUME NEW a \in Alarm, Enters(c, a), NEW b \in Alarm, (Unborn(b) \/ Pending(b))'
        PROVE  Unborn(b) \/ Pending(b)
    <3>1. a \notin Used /\ \A d \in Alarm \ {a} : alarmId'[d] = alarmId[d]
      BY <1>0, <2>2, ConstructIds DEF Enters
    <3>2. b = a => Unborn(b)
      BY <3>1 DEF Unborn, Used
    <3>3. b # a /\ Unborn(b)' => Unborn(b)
      BY <3>1 DEF Unborn
    <3>4. b # a /\ Pending(b)' => Pending(b)
      BY <2>1, <2>2 DEF Pending, Waiting, Enters
    <3> QED
      BY <2>2, <3>2, <3>3, <3>4
  <2>3. ASSUME GoesOn(c) \/ TakesOut(c), NEW b \in Alarm, (Unborn(b) \/ Pending(b))'
        PROVE  Unborn(b) \/ Pending(b)
    <3>1. Unborn(b)' => Unborn(b)
      BY <2>3 DEF Unborn, GoesOn, TakesOut
    <3>2. Pending(b)' => Pending(b)
      BY <2>1, <2>3 DEF Pending, Waiting, GoesOn, TakesOut
    <3> QED
      BY <2>3, <3>1, <3>2
  <2> QED
    BY <1>0, <1>1, <1>2, <2>1, <2>2, <2>3, ClientMoves
<1>3. ASSUME NEW i \in Idx, ThreadStep(i)
      PROVE  CallInv'
  <2>1. client' = client /\ alarmId' = alarmId
    BY <1>0, <1>3, ThreadFrame
  <2>2. \A b \in Alarm : Unborn(b)' <=> Unborn(b)
    BY <2>1 DEF Unborn
  <2>3. CASE Serves(i)
    <3>0. PICK a \in alarms : a = top[i]
      BY <2>3 DEF Serves
    <3>1. /\ a \in Alarm /\ a \in alarms /\ a \in Used
          /\ started' = Append(started, a) /\ expired' = expired
          /\ currentAlarm' = [currentAlarm EXCEPT ![i] = a] /\ alarms' = alarms \ {a}
      BY <1>0, <2>3, <3>0 DEF Serves, OnlyUsed
    <3>2. \A k \in Idx : pc'[k] = "exitReent" => pc[k] = "exitReent" /\ currentAlarm'[k] = currentAlarm[k]
      BY <1>0, <2>3 DEF Serves, Handed
    <3>3. \A b \in Alarm \ {a} : Pending(b)' => Pending(b)
      BY <2>1, <3>1, <3>2 DEF Pending, Waiting
    <3>4. ~Pending(a)' /\ ~Unborn(a)'
      <4>1. a \notin alarms' /\ \A c \in Client : ~Waiting(c, a)
        BY <3>1 DEF PlaceInv, Waiting
      <4>2. \A k \in Idx : pc'[k] = "exitReent" => currentAlarm'[k] # a
        BY <1>0, <3>1, <3>2 DEF PlaceInv, ThreadInv, Expiring
      <4> QED
        BY <2>1, <3>1, <4>1, <4>2 DEF Pending, Waiting, Unborn, Used
    <3>5. \A b \in Alarm \ {a} : Occurs(b, started') = Occurs(b, started)
      BY <1>0, <3>1, OneCall
    <3>6. a \notin Periodic => Cardinality(Occurs(a, started')) = 1 /\ Cardinality(Occurs(a, expired')) = 0
      BY <1>0, <3>1, OneCall, CardEmpty DEF CallInv, Pending
    <3>7. RunsAtMostOnce'
      <4>1. \A b \in Alarm \ (Periodic \union {a}) : Cardinality(Occurs(b, started')) + Cardinality(Occurs(b, expired')) <= 1
        BY <3>1, <3>5 DEF CallInv, RunsAtMostOnce
      <4> QED
        BY <3>6, <4>1 DEF RunsAtMostOnce
    <3>8. \A b \in Alarm \ Periodic : (Unborn(b) \/ Pending(b))' => Occurs(b, started') = {} /\ Occurs(b, expired') = {}
      BY <2>2, <3>1, <3>3, <3>4, <3>5 DEF CallInv
    <3> QED
      BY <3>7, <3>8 DEF CallInv
  <2>4. CASE TakesLast(i)
    <3>1. First(alarms) \in alarms
      BY <2>4 DEF TakesLast
    <3>2. \A b \in Alarm : Pending(b)' => Pending(b)
      BY <1>0, <2>1, <2>4 DEF Pending, Waiting, TakesLast
    <3> QED
      BY <1>1, <2>2, <2>4, <3>2 DEF TakesLast
  <2>5. CASE PutsBack(i)
    <3>1. \A b \in Alarm \ Periodic : Pending(b)' => Pending(b)
      BY <1>0, <2>1, <2>5 DEF Pending, Waiting, PutsBack
    <3> QED
      BY <1>1, <2>2, <2>5, <3>1 DEF PutsBack
  <2>6. CASE Expires(i)
    <3>0. PICK a \in Alarm : a = currentAlarm[i]
      BY <1>0, <2>6 DEF Expires, ThreadInv, Expiring
    <3>1. /\ Pending(a) /\ a \in Used \ alarms
          /\ expired' = Append(expired, a) /\ started' = started
      BY <1>0, <2>6, <3>0 DEF Expires, Pending, PlaceInv
    <3>2. \A b \in Alarm \ {a} : Pending(b)' => Pending(b)
      BY <1>0, <2>1, <2>6, <3>0 DEF Pending, Waiting, Expires
    <3>3. ~Pending(a)' /\ ~Unborn(a)'
      <4>1. a \notin alarms' /\ \A c \in Client : ~Waiting(c, a)
        BY <1>0, <2>6, <3>0, <3>1 DEF Expires, PlaceInv
      <4>2. \A k \in Idx : pc'[k] = "exitReent" => currentAlarm'[k] # a
        BY <1>0, <2>6, <3>0, <3>1 DEF PlaceInv, Expires
      <4> QED
        BY <2>1, <3>1, <4>1, <4>2 DEF Pending, Waiting, Unborn, Used
    <3>4. \A b \in Alarm \ {a} : Occurs(b, expired') = Occurs(b, expired)
      BY <1>0, <3>1, OneCall
    <3>5. a \notin Periodic => Cardinality(Occurs(a, expired')) = 1 /\ Cardinality(Occurs(a, started')) = 0
      BY <1>0, <3>1, OneCall, CardEmpty DEF CallInv
    <3>6. RunsAtMostOnce'
      <4>1. \A b \in Alarm \ (Periodic \union {a}) : Cardinality(Occurs(b, started')) + Cardinality(Occurs(b, expired')) <= 1
        BY <3>1, <3>4 DEF CallInv, RunsAtMostOnce
      <4> QED
        BY <3>5, <4>1 DEF RunsAtMostOnce
    <3>7. \A b \in Alarm \ Periodic : (Unborn(b) \/ Pending(b))' => Occurs(b, started') = {} /\ Occurs(b, expired') = {}
      BY <2>2, <3>1, <3>2, <3>3, <3>4 DEF CallInv
    <3> QED
      BY <3>6, <3>7 DEF CallInv
  <2>7. CASE LeavesAlarms(i)
    <3>1. \A b \in Alarm : Pending(b)' => Pending(b)
      BY <1>0, <2>1, <2>7 DEF Pending, Waiting, LeavesAlarms
    <3> QED
      BY <1>1, <2>2, <2>7, <3>1 DEF LeavesAlarms
  <2> QED
    BY <1>3, <2>3, <2>4, <2>5, <2>6, <2>7, ThreadMoves
<1>4. CASE Tick
  BY <1>1, <1>4 DEF Tick, Unborn, Pending, Waiting, alarmVars, clientVars, runVars
<1> QED
  BY <1>2, <1>3, <1>4 DEF Next

\* Several threads may pick the same topAlarm and a stopped timer expires what is left:
\* a one-shot alarm is called at most once all the same.
THEOREM CallsCorrect == SafeSpec => []RunsAtMostOnce
<1>1. ASSUME Init PROVE CallInv
  <2>1. \A a : Occurs(a, started) = {} /\ Occurs(a, expired) = {}
    BY <1>1 DEF Init, Occurs
  <2>2. \A a : Cardinality(Occurs(a, started)) = 0 /\ Cardinality(Occurs(a, expired)) = 0
    BY <2>1, CardEmpty
  <2> HIDE DEF Occurs
  <2>3. RunsAtMostOnce
    BY <2>2 DEF RunsAtMostOnce
  <2> QED
    BY <2>1, <2>3 DEF CallInv
<1>2. ASSUME BaseInv, PlaceInv, CallInv, [Next]_vars PROVE CallInv'
  <2>1. CASE UNCHANGED vars
    BY <1>2, <2>1 DEF vars, CallInv, RunsAtMostOnce, Unborn, Pending, Waiting, alarmVars, clientVars, runVars
  <2> QED
    BY <1>2, <2>1, CallStep
<1>3. CallInv => RunsAtMostOnce
  BY DEF CallInv
<1> QED
  BY <1>1, <1>2, <1>3, BaseInvariant, PlaceInvariant, PTL DEF SafeSpec

-----------------------------------------------------------------------------
(* Layer 3.                                                                *)

\* What is quiet stays quiet, as long as no new alarm is one of S.
LEMMA QuietStep ==
  ASSUME BaseInv, Periodic = {}, Next, NEW S \in SUBSET Alarm, NEW n \in Int, QuietBelow(S, n),
         \A c \in Client : \A a \in Alarm : Enters(c, a) => a \notin S
  PROVE  QuietBelow(S, n)'
<1>0. /\ TypeOK /\ IdInv /\ ThreadInv /\ currentAlarm \in [Idx -> Alarm \union {NoAlarm}]
      /\ alarms \subseteq Alarm
  BY DEF BaseInv, TypeOK
<1>n. Periodic = {} => \A i \in Idx : ~PutsBack(i)
  BY DEF PutsBack
<1>1. ASSUME NEW c \in Client, ClientStep(c)
      PROVE  QuietBelow(S, n)'
  <2>1. currentAlarm' = currentAlarm
    BY <1>1, ClientCalls
  <2>2. ASSUME NEW a \in Alarm, Enters(c, a), a \notin S
        PROVE  QuietBelow(S, n)'
    BY <2>1, <2>2 DEF QuietBelow, Enters
  <2>3. CASE GoesOn(c)
    BY <2>1, <2>3 DEF QuietBelow, GoesOn
  <2>4. CASE TakesOut(c)
    BY <2>1, <2>4 DEF QuietBelow, TakesOut
  <2> QED
    BY <1>0, <1>1, <2>2, <2>3, <2>4, ClientMoves
<1>2. ASSUME NEW i \in Idx, ThreadStep(i)
      PROVE  QuietBelow(S, n)'
  <2>1. client' = client
    BY <1>0, <1>2, ThreadFrame
  <2>2. ASSUME NEW a \in alarms, alarms' = alarms \ {a}, currentAlarm' = [currentAlarm EXCEPT ![i] = a]
        PROVE  QuietBelow(S, n)'
    BY <1>0, <2>1, <2>2 DEF QuietBelow
  <2>3. CASE alarms' = alarms /\ (currentAlarm' = currentAlarm \/ currentAlarm' = [currentAlarm EXCEPT ![i] = NoAlarm])
    BY <1>0, <2>1, <2>3 DEF QuietBelow
  <2> QED
    BY <1>2, <1>n, <2>2, <2>3, ThreadMoves DEF Serves, TakesLast, Expires, LeavesAlarms
<1>3. CASE Tick
  BY <1>3 DEF Tick, QuietBelow, alarmVars, clientVars, runVars
<1> QED
  BY <1>1, <1>2, <1>3 DEF Next

\* A removal that has found no running callback from index k on, or waits at index k.
LEMMA QuietFrom ==
  ASSUME BaseInv, NEW S \in SUBSET Alarm, NEW k \in Int, NEW n \in Int, QuietBelow(S, k),
         \A i \in Idx : k <= i /\ i < n => ~(allocated[i] /\ currentAlarm[i] \in S)
  PROVE  QuietBelow(S, n)
<1>1. \A i \in Idx : currentAlarm[i] \in S => allocated[i]
  BY DEF BaseInv, ThreadInv, InCallback, Expiring
<1>2. ASSUME NEW i \in Idx, i < n PROVE currentAlarm[i] \notin S
  <2>1. i \in Int
    BY DEF Idx
  <2> QED
    BY <1>1, <1>2, <2>1 DEF QuietBelow
<1> QED
  BY <1>2 DEF QuietBelow

\* RemoveAlarm from index k on: the callbacks before the thread it waits for, or all of them, are over.
LEMMA QuietWait ==
  ASSUME BaseInv, NEW c \in Client, NEW S \in SUBSET Alarm, NEW k \in Int, QuietBelow(S, k),
         NEW op \in {"remove", "force", "replace", "removeAll"}, Waits(c, k, S, op)
  PROVE  /\ \A b \in Client \ {c} : client'[b] = client[b]
         /\ \/ client'[c] = IdleClient /\ QuietBelow(S, NumThreads)
            \/ /\ client'[c].op = op /\ client'[c].alarms = S /\ client'[c].at \in Idx
               /\ QuietBelow(S, client'[c].at) /\ UNCHANGED <<removed, listenerGone>>
<1>0. TypeOK /\ NumThreads \in Int /\ \A i \in Idx : i \in Int /\ i < NumThreads
  BY DEF BaseInv, Idx
<1>1. /\ \A b \in Client \ {c} : client'[b] = client[b]
      /\ \/ client'[c] = IdleClient /\ RunningFrom(k, S) = {}
         \/ /\ client'[c].op = op /\ client'[c].alarms = S
            /\ client'[c].at \in RunningFrom(k, S)
            /\ \A i \in Idx : k <= i /\ i < client'[c].at => ~(allocated[i] /\ currentAlarm[i] \in S)
            /\ UNCHANGED <<removed, listenerGone>>
  BY <1>0, WaitStep
<1>2. ASSUME RunningFrom(k, S) = {}
      PROVE  QuietBelow(S, NumThreads)
  <2>1. \A i \in Idx : k <= i => ~(allocated[i] /\ currentAlarm[i] \in S)
    BY <1>0, <1>2 DEF RunningFrom
  <2> QED
    BY <1>0, <2>1, QuietFrom
<1>3. ASSUME NEW n \in RunningFrom(k, S), \A i \in Idx : k <= i /\ i < n => ~(allocated[i] /\ currentAlarm[i] \in S)
      PROVE  n \in Idx /\ QuietBelow(S, n)
  <2>1. n \in Idx
    BY <1>3 DEF RunningFrom
  <2> QED
    BY <1>0, <1>3, <2>1, QuietFrom
<1> QED
  BY <1>1, <1>2, <1>3

\* Which quiet sets stay quiet in every step.
LEMMA RemoveFrame ==
  ASSUME BaseInv, RemoveInv, Periodic = {}, Next
  PROVE  /\ Used \subseteq Used'
         /\ \A S \in SUBSET Used : \A n \in Int : QuietBelow(S, n) => QuietBelow(S, n)'
         /\ listenerGone \/ (\E k \in Client : client[k].op = "removeAll") =>
               /\ \A n \in Int : QuietBelow(ListenerAlarms, n) => QuietBelow(ListenerAlarms, n)'
               /\ NoAdder(ListenerAlarms) => NoAdder(ListenerAlarms)'
<1>0. TypeOK /\ IdInv /\ ThreadInv /\ IdsDistinct
  BY DEF BaseInv, IdInv
<1>1. \A c \in Client : \A a \in Alarm : Enters(c, a) => a \notin Used /\ Used' = Used \union {a}
  BY <1>0, ConstructIds DEF Enters
<1>2. Used \subseteq Used'
  <2>1. ASSUME NEW c \in Client, ClientStep(c) PROVE Used \subseteq Used'
    BY <1>0, <1>1, <2>1, ClientMoves DEF GoesOn, TakesOut, Used
  <2>2. ASSUME NEW i \in Idx, ThreadStep(i) PROVE Used \subseteq Used'
    BY <1>0, <2>2, ThreadFrame DEF Used
  <2>3. CASE Tick
    BY <2>3 DEF Tick, alarmVars, Used
  <2> QED
    BY <2>1, <2>2, <2>3 DEF Next
<1>3. \A S \in SUBSET Used : \A n \in Int : QuietBelow(S, n) => QuietBelow(S, n)'
  <2>1. Used \subseteq Alarm
    BY DEF Used
  <2> QED
    BY <1>1, <2>1, QuietStep
<1>4. ASSUME listenerGone \/ \E k \in Client : client[k].op = "removeAll"
      PROVE  /\ \A n \in Int : QuietBelow(ListenerAlarms, n) => QuietBelow(ListenerAlarms, n)'
             /\ NoAdder(ListenerAlarms) => NoAdder(ListenerAlarms)'
  <2>1. \A c \in Client : \A a \in Alarm : Enters(c, a) => a \notin ListenerAlarms
    BY <1>4 DEF Enters, Construct, Fresh
  <2>2. \A n \in Int : QuietBelow(ListenerAlarms, n) => QuietBelow(ListenerAlarms, n)'
    BY <2>1, QuietStep
  <2>3. ASSUME NoAdder(ListenerAlarms) PROVE NoAdder(ListenerAlarms)'
    <3>1. ASSUME NEW c \in Client, ClientStep(c) PROVE NoAdder(ListenerAlarms)'
      BY <1>0, <2>1, <2>3, <3>1, ClientMoves DEF NoAdder, Enters, GoesOn, TakesOut
    <3>2. ASSUME NEW i \in Idx, ThreadStep(i) PROVE NoAdder(ListenerAlarms)'
      BY <1>0, <2>3, <3>2, ThreadFrame DEF NoAdder
    <3>3. CASE Tick
      BY <2>3, <3>3 DEF Tick, clientVars, NoAdder
    <3> QED
      BY <3>1, <3>2, <3>3 DEF Next
  <2> QED
    BY <2>2, <2>3
<1> QED
  BY <1>2, <1>3, <1>4

\* Layer 3: a client in a removal knows of ever more threads that they are quiet.
LEMMA RemoveStep ==
  ASSUME BaseInv, PlaceInv, RemoveInv, Periodic = {}, ExpireOnExit, Next
  PROVE  RemoveInv'
<1> DEFINE R1 == removed \subseteq Used /\ QuietBelow(removed, NumThreads)
           R2 == listenerGone => QuietBelow(ListenerAlarms, NumThreads)
<1>0. /\ TypeOK /\ IdInv /\ ThreadInv /\ NumThreads \in Int /\ Used \subseteq Alarm
      /\ IdleClient.op = "none" /\ client \in [Client -> ClientCall]
  BY DEF BaseInv, TypeOK, Used, IdleClient
<1>1. /\ Used \subseteq Used'
      /\ \A S \in SUBSET Used : \A n \in Int : QuietBelow(S, n) => QuietBelow(S, n)'
      /\ listenerGone \/ (\E k \in Client : client[k].op = "removeAll") =>
            /\ \A n \in Int : QuietBelow(ListenerAlarms, n) => QuietBelow(ListenerAlarms, n)'
            /\ NoAdder(ListenerAlarms) => NoAdder(ListenerAlarms)'
  BY RemoveFrame
<1>2. ASSUME removed' = removed PROVE R1'
  <2>1. QuietBelow(removed, NumThreads)'
    BY <1>0, <1>1, <1>2 DEF RemoveInv, QuietBelow
  <2> QED
    BY <1>1, <1>2, <2>1 DEF RemoveInv
<1>3. ASSUME listenerGone' = listenerGone PROVE R2'
  BY <1>0, <1>1, <1>3 DEF RemoveInv
<1>4. ASSUME NEW b \in Client, client'[b] = client[b] PROVE ClientQuiet(b)'
  <2>1. ClientQuiet(b)
    BY DEF RemoveInv
  <2>2. CASE client[b].op \in {"remove", "force", "replace"}
    <3>1. PICK S \in SUBSET Used, n \in Int : S = client[b].alarms /\ n = client[b].at
      BY <1>0, <2>1, <2>2, CallFields DEF ClientQuiet, Idx
    <3>2. QuietBelow(S, n)' /\ S \subseteq Used'
      BY <1>1, <2>1, <2>2, <3>1 DEF ClientQuiet
    <3> QED
      BY <1>4, <2>2, <3>1, <3>2 DEF ClientQuiet, QuietBelow
  <2>3. CASE client[b].op = "removeAll"
    <3>1. PICK n \in Int : n = client[b].at
      BY <1>0, <2>3, CallFields DEF Idx
    <3> QED
      BY <1>1, <1>4, <2>1, <2>3, <3>1 DEF ClientQuiet, QuietBelow
  <2> QED
    BY <1>4, <2>2, <2>3 DEF ClientQuiet
<1>5. ASSUME NEW c \in Client, \A b \in Client \ {c} : client'[b] = client[b], ClientQuiet(c)', R1', R2'
      PROVE  RemoveInv'
  BY <1>4, <1>5 DEF RemoveInv
\* A removal of the alarms S goes on from index k or returns.
<1>6. ASSUME NEW c \in Client, NEW S \in SUBSET Used, NEW k \in Int, NEW op \in {"remove", "force", "replace"},
             QuietBelow(S, k), Waits(c, k, S, op), listenerGone' = listenerGone,
             removed' = removed \/ (client'[c] = IdleClient /\ removed' = removed \union S)
      PROVE  RemoveInv'
  <2>1. /\ \A b \in Client \ {c} : client'[b] = client[b]
        /\ \/ client'[c] = IdleClient /\ QuietBelow(S, NumThreads)
           \/ /\ client'[c].op = op /\ client'[c].alarms = S /\ client'[c].at \in Idx
              /\ QuietBelow(S, client'[c].at) /\ UNCHANGED <<removed, listenerGone>>
    BY <1>0, <1>6, QuietWait
  <2>2. CASE client'[c] = IdleClient /\ QuietBelow(S, NumThreads)
    <3>1. QuietBelow(S, NumThreads)' /\ S \subseteq Used'
      BY <1>0, <1>1, <2>2
    <3>2. ClientQuiet(c)'
      BY <1>0, <2>2 DEF ClientQuiet
    <3>3. R1'
      <4>1. QuietBelow(removed, NumThreads) /\ removed \subseteq Used
        BY DEF RemoveInv
      <4>2. PICK T \in SUBSET Used : T = removed
        BY <4>1
      <4>3. QuietBelow(T, NumThreads)' /\ T \subseteq Used'
        BY <1>0, <1>1, <4>1, <4>2
      <4>4. removed' = T \/ removed' = T \union S
        BY <1>6, <4>2
      <4> QED
        BY <3>1, <4>3, <4>4 DEF QuietBelow
    <3> QED
      BY <1>3, <1>5, <1>6, <2>1, <3>2, <3>3
  <2>3. CASE /\ client'[c].op = op /\ client'[c].alarms = S /\ client'[c].at \in Idx
             /\ QuietBelow(S, client'[c].at) /\ UNCHANGED <<removed, listenerGone>>
    <3>1. PICK n \in Int : n = client'[c].at
      BY <2>3 DEF Idx
    <3>2. QuietBelow(S, n)' /\ S \subseteq Used'
      BY <1>1, <2>3, <3>1
    <3>3. ClientQuiet(c)'
      BY <2>3, <3>1, <3>2 DEF ClientQuiet, QuietBelow
    <3> QED
      BY <1>2, <1>3, <1>5, <2>1, <2>3, <3>3
  <2> QED
    BY <2>1, <2>2, <2>3
\* An alarm is taken out of the set.
<1>7. ASSUME NEW c \in Client, NEW a \in alarms, alarms' = alarms \ {a}, a \in Added, client' = client,
             removed' = removed \union {a}, listenerGone' = listenerGone, currentAlarm' = currentAlarm
      PROVE  RemoveInv'
  <2>1. a \in Used /\ QuietBelow({a}, NumThreads)'
    BY <1>0, <1>7 DEF Added, QuietBelow, PlaceInv, Used, BaseInv, TypeOK
  <2>2. PICK T \in SUBSET Used : T = removed
    BY DEF RemoveInv
  <2>3. QuietBelow(T, NumThreads)' /\ T \subseteq Used'
    BY <1>0, <1>1, <2>2 DEF RemoveInv
  <2>4. removed' = T \union {a}
    BY <1>7, <2>2
  <2>5. R1'
    BY <1>1, <2>1, <2>3, <2>4 DEF QuietBelow
  <2> QED
    BY <1>3, <1>4, <1>5, <1>7, <2>5
<1>8. ASSUME NEW c \in Client, NEW a \in Alarm, NEW block \in BOOLEAN, RemoveAlarm(c, a, block) \/ ForceRemoveAlarm(c, a, block)
      PROVE  RemoveInv'
  <2>1. a \in Added /\ {a} \in SUBSET Used /\ currentAlarm' = currentAlarm /\ listenerGone' = listenerGone
    BY <1>8 DEF RemoveAlarm, ForceRemoveAlarm, Added, Used, Waits, WaitOrReturn, runVars
  <2>2. CASE a \in alarms
    BY <1>7, <1>8, <2>1, <2>2 DEF RemoveAlarm, ForceRemoveAlarm
  <2>3. CASE a \notin alarms
    <3>1. QuietBelow({a}, 0)
      BY <2>1, <2>3 DEF QuietBelow, Added, Idx
    <3>2. \E op \in {"remove", "force"} : Waits(c, 0, {a}, op)
      BY <1>8, <2>3 DEF RemoveAlarm, ForceRemoveAlarm, Waits, WaitOrReturn
    <3>3. removed' = removed \/ (client'[c] = IdleClient /\ removed' = removed \union {a})
      BY <1>0, <1>8, <2>3 DEF RemoveAlarm, ForceRemoveAlarm, Waits, WaitOrReturn
    <3> QED
      BY <1>6, <2>1, <3>1, <3>2, <3>3
  <2> QED
    BY <2>2, <2>3
<1>9. ASSUME NEW c \in Client, RemoveAlarmWake(c)
      PROVE  RemoveInv'
  <2>1. /\ client[c].op \in {"remove", "force", "replace"} /\ ClientQuiet(c)
        /\ currentAlarm[client[c].at] \notin client[c].alarms
        /\ Waits(c, client[c].at, client[c].alarms, client[c].op)
        /\ listenerGone' = listenerGone
    BY <1>9 DEF RemoveAlarmWake, Waits, WaitOrReturn, RemoveInv
  <2>2. PICK S \in SUBSET Used, k \in Int, op \in {"remove", "force", "replace"} :
           S = client[c].alarms /\ k = client[c].at /\ op = client[c].op
    BY <1>0, <2>1, CallFields DEF ClientQuiet, Idx
  <2>3. QuietBelow(S, k)
    BY <2>1, <2>2 DEF ClientQuiet
  <2>4. removed' = removed \/ (client'[c] = IdleClient /\ removed' = removed \union S)
    BY <1>0, <1>9, <2>2 DEF RemoveAlarmWake, Waits, WaitOrReturn
  <2>5. Waits(c, k, S, op) /\ listenerGone' = listenerGone
    BY <2>1, <2>2
  <2> HIDE DEF R1, R2
  <2> QED
    BY <1>6, <2>3, <2>4, <2>5
<1>10. ASSUME NEW c \in Client, NEW o \in Alarm, NEW a \in Alarm, NEW d \in 0 .. MaxDelay, NEW block \in BOOLEAN, ReplaceAlarm(c, o, a, d, block)
       PROVE  RemoveInv'
  <2>1. CASE UNCHANGED <<client, removed, listenerGone>>
    BY <1>2, <1>3, <1>4, <1>5, <2>1
  <2>2. CASE o \notin alarms /\ WaitOrReturn(c, 0, {o}, "replace", UNCHANGED <<removed, listenerGone>>)
    <3>1. {o} \in SUBSET Used /\ QuietBelow({o}, 0)
      BY <1>10, <2>2 DEF ReplaceAlarm, QuietBelow, Added, Used, Idx
    <3>2. Waits(c, 0, {o}, "replace") /\ removed' = removed /\ listenerGone' = listenerGone
      BY <2>2 DEF Waits, WaitOrReturn
    <3> QED
      BY <1>6, <3>1, <3>2
  <2> QED
    BY <1>10, <2>1, <2>2 DEF ReplaceAlarm
<1>11. ASSUME NEW c \in Client, RemoveAlarmsWithListener(c)
       PROVE  RemoveInv'
  <2> DEFINE r == [op |-> "removeAll", alarms |-> ListenerAlarms, at |-> -1]
  <2>1. client' = [client EXCEPT ![c] = r] /\ removed' = removed /\ listenerGone' = listenerGone
    BY <1>11 DEF RemoveAlarmsWithListener
  <2>2. r.op = "removeAll" /\ r.alarms = ListenerAlarms /\ r.at = -1
    OBVIOUS
  <2> HIDE DEF r
  <2>3. client'[c] = r /\ \A b \in Client \ {c} : client'[b] = client[b]
    BY <1>0, <2>1
  <2>4. NoAdder(ListenerAlarms)'
    BY <1>11, <2>2, <2>3 DEF RemoveAlarmsWithListener, NoAdder
  <2>5. ClientQuiet(c)'
    BY <2>2, <2>3, <2>4 DEF ClientQuiet
  <2> QED
    BY <1>2, <1>3, <1>5, <2>1, <2>3, <2>5
<1>12. ASSUME NEW c \in Client, RemoveListenerAlarm(c)
       PROVE  RemoveInv'
  <2>1. /\ client[c].op = "removeAll" /\ ClientQuiet(c) /\ NoAdder(ListenerAlarms)
        /\ removed' = removed
    BY <1>12 DEF RemoveListenerAlarm, RemoveInv, ClientQuiet, Waits, WaitOrReturn
  <2>2. CASE client' = client /\ listenerGone' = listenerGone
    BY <1>2, <1>3, <1>4, <1>5, <2>1, <2>2
  <2>3. ASSUME NEW k \in Int, QuietBelow(ListenerAlarms, k),
               Waits(c, k, ListenerAlarms, "removeAll")
        PROVE  RemoveInv'
    <3>1. /\ \A b \in Client \ {c} : client'[b] = client[b]
          /\ \/ client'[c] = IdleClient /\ QuietBelow(ListenerAlarms, NumThreads)
             \/ /\ client'[c].op = "removeAll" /\ client'[c].alarms = ListenerAlarms /\ client'[c].at \in Idx
                /\ QuietBelow(ListenerAlarms, client'[c].at) /\ UNCHANGED <<removed, listenerGone>>
      BY <1>0, <2>3, QuietWait
    <3>2. CASE client'[c] = IdleClient /\ QuietBelow(ListenerAlarms, NumThreads)
      <4>1. QuietBelow(ListenerAlarms, NumThreads)'
        BY <1>0, <1>1, <2>1, <3>2
      <4> QED
        BY <1>0, <1>2, <1>5, <2>1, <3>1, <3>2, <4>1 DEF ClientQuiet
    <3>3. CASE /\ client'[c].op = "removeAll" /\ client'[c].alarms = ListenerAlarms /\ client'[c].at \in Idx
               /\ QuietBelow(ListenerAlarms, client'[c].at) /\ UNCHANGED <<removed, listenerGone>>
      <4>1. PICK n \in Int : n = client'[c].at
        BY <3>3 DEF Idx
      <4>2. QuietBelow(ListenerAlarms, n)' /\ NoAdder(ListenerAlarms)'
        BY <1>1, <2>1, <3>3, <4>1
      <4>3. ClientQuiet(c)'
        BY <3>3, <4>1, <4>2 DEF ClientQuiet, QuietBelow
      <4> QED
        BY <1>2, <1>3, <1>5, <3>1, <3>3, <4>3
    <3> QED
      BY <3>1, <3>2, <3>3
  <2>4. CASE /\ client[c].at = -1 /\ alarms \intersect ListenerAlarms = {}
             /\ WaitOrReturn(c, 0, ListenerAlarms, "removeAll", listenerGone' = TRUE /\ UNCHANGED removed)
    <3>1. QuietBelow(ListenerAlarms, 0)
      BY <2>1, <2>4 DEF QuietBelow, NoAdder, Idx
    <3>2. Waits(c, 0, ListenerAlarms, "removeAll")
      BY <2>4 DEF Waits, WaitOrReturn
    <3> QED
      BY <2>3, <3>1, <3>2
  <2>5. CASE /\ client[c].at # -1
             /\ WaitOrReturn(c, client[c].at, ListenerAlarms, "removeAll", listenerGone' = TRUE /\ UNCHANGED removed)
    <3>1. PICK k \in Int : k = client[c].at
      BY <1>0, <2>1, CallFields DEF Idx
    <3>2. Waits(c, k, ListenerAlarms, "removeAll")
      BY <2>5, <3>1 DEF Waits, WaitOrReturn
    <3>3. QuietBelow(ListenerAlarms, k)
      BY <2>1, <2>5, <3>1 DEF ClientQuiet
    <3> QED
      BY <2>3, <3>2, <3>3
  <2> QED
    BY <1>12, <2>2, <2>4, <2>5 DEF RemoveListenerAlarm
<1>13. ASSUME NEW c \in Client, (\E a \in Alarm, d \in 0 .. MaxDelay : AddAlarm(c, a, d) \/ AddAlarmNonBlocking(c, a, d)) \/ AddAlarmWake(c) \/ AddAlarmForced(c)
                                \/ Start(c) \/ StartDone(c) \/ Stop(c)
       PROVE  RemoveInv'
  <2>1. /\ removed' = removed /\ listenerGone' = listenerGone
        /\ \A b \in Client \ {c} : client'[b] = client[b]
        /\ client'[c] = client[c] \/ client'[c].op \in {"none", "add", "start"}
    BY <1>0, <1>13 DEF AddAlarm, AddAlarmNonBlocking, AddAlarmWake, AddAlarmForced, Start, StartDone, Stop, clientVars
  <2>2. ClientQuiet(c)'
    BY <1>4, <2>1 DEF ClientQuiet
  <2> QED
    BY <1>2, <1>3, <1>5, <2>1, <2>2
<1>14. CASE UNCHANGED <<client, removed, listenerGone>>
  BY <1>2, <1>3, <1>4, <1>5, <1>14 DEF RemoveInv
<1>15. ASSUME NEW i \in Idx, ThreadStep(i) PROVE RemoveInv'
  BY <1>0, <1>14, <1>15, ThreadFrame
<1>16. CASE Tick
  BY <1>14, <1>16 DEF Tick, clientVars
<1> QED
  BY <1>8, <1>9, <1>10, <1>11, <1>12, <1>13, <1>15, <1>16 DEF Next, ClientStep

\* A removal that has returned leaves nothing behind: no alarm it was for is pending or
\* running.  On timers that expire their alarms on exit and have no periodic ones, such
\* as the dispatcher of a local endpoint.
THEOREM RemovalCorrect ==
  ASSUME Periodic = {}, ExpireOnExit
  PROVE  SafeSpec => []RemovedIsQuiet
<1>1. ASSUME Init PROVE RemoveInv
  BY <1>1 DEF Init, RemoveInv, QuietBelow, ClientQuiet, IdleClient
<1>2. ASSUME BaseInv, PlaceInv, RemoveInv, [Next]_vars PROVE RemoveInv'
  <2>1. CASE UNCHANGED vars
    BY <1>2, <2>1 DEF vars, RemoveInv, QuietBelow, ClientQuiet, NoAdder, Used, alarmVars, clientVars, runVars
  <2> QED
    BY <1>2, <2>1, RemoveStep
<1>3. ASSUME RemoveInv PROVE RemovedIsQuiet
  BY <1>3 DEF RemoveInv, QuietBelow, RemovedIsQuiet, Idx
<1> QED
  BY <1>1, <1>2, <1>3, BaseInvariant, PlaceInvariant, PTL DEF SafeSpec

-----------------------------------------------------------------------------
(***************************************************************************)
(* Layer 4: the controller.                                                *)

Starting == \E c \in Client : client[c].op = "start"
Up == isRunning \/ Starting

\* While the timer starts or runs somebody has the controller role or is about to take it.
RoleInv ==
  /\ Up => \A i \in Idx : ~isStopping[i]
  /\ Up => IF controllerIdx = -1
           THEN \E i \in Idx : pc[i] \in {"loop", "call", "done"}
           ELSE pc[controllerIdx] \in {"loop", "ctlWait", "reent", "serve"}
  /\ \A i \in Idx : /\ pc[i] = "ctlWait" => controllerIdx = i
                    /\ pc[i] \in {"sleep", "idle"} => controllerIdx # i

\* The controller sleeps until the first alarm or has been alerted.
SleepInv ==
  \A i \in Idx : pc[i] = "ctlWait" => stopEvent[i] \/ \A a \in alarms : until[i] <= alarmTime[a]

\* Somebody is there for the alarms that a stopped timer expires.
DrainInv == ExpireOnExit /\ alarms # {} => \E i \in Idx : pc[i] \notin {"off", "dead"}

(***************************************************************************)
(* Layer 5: the order of the callbacks.                                    *)

InsertedBefore(a, b) == \E k \in Occurs(a, inserted), l \in Occurs(b, inserted) : k < l

\* Every alarm that precedes a in the order and came before it has left the set.
Overtaken(a) == \A x \in Alarm : Before(x, a) /\ InsertedBefore(x, a) => x \notin alarms

OrderInv ==
  /\ \A a \in Alarm : Unborn(a) \/ (\E c \in Client : Waiting(c, a)) => Occurs(a, inserted) = {}
  /\ \A i \in Idx : top[i] # NoAlarm => Occurs(top[i], inserted) # {} /\ Overtaken(top[i])
  /\ \A a \in alarms : Occurs(a, inserted) # {}
  /\ \A n \in DOMAIN started : Occurs(started[n], inserted) # {} /\ Overtaken(started[n])
  /\ DispatchOrder
-----------------------------------------------------------------------------
(* Layer 4.                                                                *)

\* Only Start begins a start.
LEMMA StartingFrame ==
  ASSUME TypeOK, NEW c \in Client, ClientStep(c), ~Start(c)
  PROVE  Starting' => Starting
<1> USE DEF clientVars
<1> DEFINE Kept == /\ client'[c].op # "start" \/ client'[c] = client[c]
                   /\ \A b \in Client \ {c} : client'[b] = client[b]
<1>0. client \in [Client -> ClientCall] /\ IdleClient.op = "none"
  BY DEF TypeOK, IdleClient
<1>1. ASSUME NEW a \in Alarm, NEW d \in 0 .. MaxDelay, AddAlarm(c, a, d) \/ AddAlarmNonBlocking(c, a, d)
      PROVE  Kept
  BY <1>0, <1>1 DEF AddAlarm, AddAlarmNonBlocking
<1>2. ASSUME NEW a \in Alarm, NEW block \in BOOLEAN, RemoveAlarm(c, a, block) \/ ForceRemoveAlarm(c, a, block)
      PROVE  Kept
  BY <1>0, <1>2 DEF RemoveAlarm, ForceRemoveAlarm, WaitOrReturn
<1>3. ASSUME NEW o \in Alarm, NEW a \in Alarm, NEW d \in 0 .. MaxDelay, NEW block \in BOOLEAN, ReplaceAlarm(c, o, a, d, block)
      PROVE  Kept
  BY <1>0, <1>3 DEF ReplaceAlarm, WaitOrReturn
<1>4. ASSUME AddAlarmWake(c) \/ AddAlarmForced(c) \/ RemoveAlarmWake(c) \/ RemoveAlarmsWithListener(c) \/ RemoveListenerAlarm(c)
      PROVE  Kept
  BY <1>0, <1>4 DEF AddAlarmWake, AddAlarmForced, RemoveAlarmWake, RemoveAlarmsWithListener, RemoveListenerAlarm, WaitOrReturn
<1>5. ASSUME StartDone(c) \/ Stop(c)
      PROVE  Kept
  BY <1>0, <1>5 DEF StartDone, Stop
<1>6. Kept
  BY <1>1, <1>2, <1>3, <1>4, <1>5 DEF ClientStep
<1> QED
  BY <1>6 DEF Starting

\* The role is taken, kept or given up by the threads, and reset by Start.
LEMMA RoleStep ==
  ASSUME BaseInv, RoleInv, Next
  PROVE  RoleInv'
<1>0. /\ TypeOK /\ IdInv /\ ThreadInv /\ pc \in [Idx -> ThreadPc] /\ isStopping \in [Idx -> BOOLEAN]
      /\ controllerIdx \in Idx \union {-1} /\ -1 \notin Idx
      /\ client \in [Client -> ClientCall] /\ IdleClient.op = "none"
  <2>1. TypeOK /\ IdInv /\ ThreadInv
    BY DEF BaseInv
  <2>2. /\ pc \in [Idx -> ThreadPc] /\ isStopping \in [Idx -> BOOLEAN]
        /\ controllerIdx \in Idx \union {-1} /\ client \in [Client -> ClientCall]
    BY <2>1 DEF TypeOK
  <2>3. -1 \notin Idx /\ IdleClient.op = "none"
    BY DEF Idx, IdleClient
  <2> QED
    BY <2>1, <2>2, <2>3
<1>1. CASE UNCHANGED <<client, isRunning, isStopping, controllerIdx, pc>>
  BY <1>1 DEF RoleInv, Up, Starting
<1>2. ASSUME NEW c \in Client, ClientStep(c)
      PROVE  RoleInv'
  <2>1. CASE Start(c)
    <3>1. 0 \in Idx /\ \A i \in Idx : pc[i] = "off" /\ ~isStopping[i]
      <4>1. \A i \in Idx : ~live[i]
        BY <2>1 DEF Start
      <4>2. 0 \in Idx
        BY DEF Idx
      <4> QED
        BY <1>0, <4>1, <4>2 DEF ThreadInv
    <3> QED
      BY <1>0, <2>1, <3>1 DEF Start, threadVars, RoleInv
  <2>2. CASE StartDone(c)
    <3>1. Up
      BY <2>2 DEF StartDone, Up, Starting
    <3> QED
      BY <1>0, <2>2, <3>1 DEF StartDone, threadVars, RoleInv
  <2>3. CASE Stop(c)
    <3>1. ~Up'
      BY <2>3 DEF Stop, Up, Starting, clientVars
    <3> QED
      BY <1>0, <2>3, <3>1 DEF Stop, RoleInv
  <2>4. CASE ~Start(c) /\ UNCHANGED <<isRunning, isStopping, controllerIdx, pc>>
    <3>1. Up' => Up
      BY <1>0, <1>2, <2>4, StartingFrame DEF Up
    <3> QED
      BY <2>4, <3>1 DEF RoleInv
  <2> QED
    BY <1>2, <2>1, <2>2, <2>3, <2>4, ClientFrame
<1>3. ASSUME NEW i \in Idx, ThreadStep(i)
      PROVE  RoleInv'
  <2>1. (Up' <=> Up)
    BY <1>0, <1>3, ThreadFrame DEF Up, Starting
  <2>2. CASE Loop(i)
    <3>1. isStopping' = isStopping /\ pc[i] = "loop"
      BY <2>2 DEF Loop, threadVars
    <3>2. CASE isStopping[i] /\ controllerIdx' = controllerIdx /\ pc' = [pc EXCEPT ![i] = "exit"]
      BY <1>0, <2>1, <3>1, <3>2 DEF RoleInv
    <3>3. CASE /\ controllerIdx' = IF controllerIdx = -1 THEN i ELSE controllerIdx
               /\ pc' = [pc EXCEPT ![i] = "reent"]
      BY <1>0, <2>1, <3>1, <3>3 DEF RoleInv
    <3>4. CASE /\ controllerIdx' = i /\ controllerIdx \in {-1, i}
               /\ pc' = [pc EXCEPT ![i] = "ctlWait"]
      BY <1>0, <2>1, <3>1, <3>4 DEF RoleInv
    <3>5. CASE /\ controllerIdx' = controllerIdx /\ controllerIdx \notin {-1, i}
               /\ \E x \in {"sleep", "idle"} : pc' = [pc EXCEPT ![i] = x]
      BY <1>0, <2>1, <3>1, <3>5 DEF RoleInv
    <3> QED
      BY <2>2, <3>2, <3>3, <3>4, <3>5 DEF Loop, LeaveLoop, Goto
  <2>3. CASE Serve(i)
    <3>1. pc[i] = "serve" /\ isStopping' = isStopping
      BY <2>3 DEF Serve
    <3>2. \E where \in {"call", "loop"} : Handed(i, where)
      BY <1>0, <2>3, ServeHands
    <3> QED
      BY <1>0, <2>1, <3>1, <3>2 DEF Handed, RoleInv
  <2>4. CASE WaitEnds(i) \/ IdleEnds(i)
    <3>1. isStopping' = isStopping /\ controllerIdx' = controllerIdx
      BY <2>4 DEF WaitEnds, IdleEnds, threadVars
    <3>2. \/ pc' = [pc EXCEPT ![i] = "loop"]
          \/ pc[i] = "idle" /\ controllerIdx # -1 /\ pc' = [pc EXCEPT ![i] = "exit"]
      BY <2>4 DEF WaitEnds, IdleEnds, LeaveLoop, Goto
    <3> QED
      BY <1>0, <2>1, <3>1, <3>2 DEF RoleInv
  <2>5. CASE GetReentrancyLock(i) \/ CallbackReturns(i) \/ FinishAlarm(i)
    <3>1. isStopping' = isStopping /\ controllerIdx' = controllerIdx
      BY <2>5 DEF GetReentrancyLock, CallbackReturns, FinishAlarm, threadVars
    <3>2. \/ pc[i] = "reent" /\ pc' = [pc EXCEPT ![i] = "serve"]
          \/ pc[i] = "call" /\ pc' = [pc EXCEPT ![i] = "done"]
          \/ pc[i] = "done" /\ pc' = [pc EXCEPT ![i] = "loop"]
      BY <2>5 DEF GetReentrancyLock, TakeReentrancyLock, CallbackReturns, FinishAlarm, Goto
    <3> QED
      BY <1>0, <2>1, <3>1, <3>2 DEF RoleInv
  <2>6. CASE ThreadExit(i) \/ ExpireAlarm(i) \/ ExpireReturns(i) \/ Die(i)
    <3>1. controllerIdx' = controllerIdx /\ \A k \in Idx : isStopping'[k] => isStopping[k]
      BY <1>0, <2>6 DEF ThreadExit, ExpireAlarm, ExpireReturns, Die, threadVars
    <3>2. /\ pc[i] \in {"exit", "exitReent", "exitCall", "dead"}
          /\ \E x \in {"exit", "exitReent", "exitCall", "dead", "off"} : pc' = [pc EXCEPT ![i] = x]
      BY <2>6 DEF ThreadExit, ExpireAlarm, TakeReentrancyLock, ExpireReturns, Die, Goto
    <3> QED
      BY <1>0, <2>1, <3>1, <3>2 DEF RoleInv
  <2>7. CASE EnableReentrancy(i) \/ \E j \in Idx : ReapWorker(i, j)
    <3>1. UNCHANGED <<isStopping, controllerIdx, pc>>
      BY <2>7 DEF EnableReentrancy, ReapWorker, threadVars
    <3> QED
      BY <2>1, <3>1 DEF RoleInv
  <2> QED
    BY <1>3, <2>2, <2>3, <2>4, <2>5, <2>6, <2>7 DEF ThreadStep, RunStep
<1>4. CASE Tick
  BY <1>1, <1>4 DEF Tick, clientVars, threadVars
<1> QED
  BY <1>2, <1>3, <1>4 DEF Next

\* What happens to the set and to the controller's alert in a step.
AddsOne(a) ==
  \E S \in SUBSET alarms, T \in Nat : isRunning /\ a \notin alarms /\ Insert(a, S, T)

Removes ==
  /\ alarms' \subseteq alarms
  /\ \A b \in alarms' : alarmTime'[b] = alarmTime[b]

\* These are the only two ways the set changes.
LEMMA SetMoves ==
  ASSUME BaseInv, PlaceInv, Next
  PROVE  (\E a \in Alarm : AddsOne(a)) \/ Removes
<1> USE DEF alarmVars
<1>0. /\ TypeOK /\ IdInv /\ ThreadInv /\ IdsDistinct /\ OnlyUsed
      /\ now \in Nat /\ alarms \subseteq Alarm /\ alarmTime \in [Alarm -> Nat]
      /\ \A d \in 0 .. MaxDelay : now + d \in Nat
  BY DEF BaseInv, IdInv, TypeOK
<1>1. ASSUME NEW c \in Client, ClientStep(c)
      PROVE  (\E a \in Alarm : AddsOne(a)) \/ Removes
  <2>1. ASSUME NEW a \in Alarm, Construct(a) PROVE a \notin alarms
    BY <1>0, <2>1, ConstructIds DEF OnlyUsed
  <2>2. ASSUME NEW a \in Alarm, NEW d \in 0 .. MaxDelay, AddAlarm(c, a, d) \/ AddAlarmNonBlocking(c, a, d)
        PROVE  AddsOne(a) \/ Removes
    BY <1>0, <2>1, <2>2 DEF AddAlarm, AddAlarmNonBlocking, AddsOne, Removes
  <2>3. ASSUME AddAlarmWake(c) \/ AddAlarmForced(c)
        PROVE  (\E a \in Alarm : AddsOne(a)) \/ Removes
    <3>1. /\ client[c].alarm \in Alarm /\ client[c].alarm \notin alarms /\ client[c].time \in Nat
      BY <1>0, <2>3, CallFields DEF AddAlarmWake, AddAlarmForced, PlaceInv
    <3>2. CASE isRunning /\ Insert(client[c].alarm, alarms, client[c].time)
      BY <3>1, <3>2 DEF AddsOne
    <3>3. CASE UNCHANGED <<alarms, alarmTime>>
      BY <3>3 DEF Removes
    <3> QED
      BY <2>3, <3>2, <3>3 DEF AddAlarmWake, AddAlarmForced
  <2>4. ASSUME NEW o \in Alarm, NEW a \in Alarm, NEW d \in 0 .. MaxDelay, NEW block \in BOOLEAN, ReplaceAlarm(c, o, a, d, block)
        PROVE  AddsOne(a) \/ Removes
    <3>1. CASE isRunning /\ Insert(a, alarms \ {o}, now + d)
      BY <1>0, <2>1, <2>4, <3>1 DEF ReplaceAlarm, AddsOne
    <3>2. CASE UNCHANGED <<alarms, alarmTime>>
      BY <3>2 DEF Removes
    <3> QED
      BY <2>4, <3>1, <3>2 DEF ReplaceAlarm
  <2>6. ASSUME NEW a \in Alarm, NEW block \in BOOLEAN, RemoveAlarm(c, a, block) \/ ForceRemoveAlarm(c, a, block)
        PROVE  Removes
    BY <2>6 DEF RemoveAlarm, ForceRemoveAlarm, Removes
  <2>7. CASE RemoveAlarmWake(c) \/ RemoveAlarmsWithListener(c) \/ RemoveListenerAlarm(c)
    BY <2>7 DEF RemoveAlarmWake, RemoveAlarmsWithListener, RemoveListenerAlarm, Removes
  <2>8. CASE Start(c) \/ StartDone(c) \/ Stop(c)
    BY <2>8 DEF Start, StartDone, Stop, Removes
  <2> QED
    BY <1>1, <2>2, <2>3, <2>4, <2>6, <2>7, <2>8 DEF ClientStep
<1>2. ASSUME NEW i \in Idx, ThreadStep(i)
      PROVE  (\E a \in Alarm : AddsOne(a)) \/ Removes
  <2>1. CASE FinishAlarm(i)
    <3>1. /\ top[i] \in Alarm /\ top[i] \notin alarms
          /\ loopNow[i] \in Nat /\ NextTime(i) \in Nat
      BY <1>0, <2>1 DEF FinishAlarm, ThreadInv, Serving, InCallback, PlaceInv, TypeOK, NextTime
    <3>2. CASE isRunning /\ Insert(top[i], alarms, NextTime(i))
      BY <3>1, <3>2 DEF AddsOne
    <3>3. CASE alarms' = alarms /\ (alarmTime' = alarmTime \/ alarmTime' = [alarmTime EXCEPT ![top[i]] = NextTime(i)])
      BY <1>0, <3>1, <3>3 DEF Removes
    <3> QED
      BY <2>1, <3>2, <3>3 DEF FinishAlarm
  <2>2. CASE alarms' \subseteq alarms /\ alarmTime' = alarmTime
    BY <2>2 DEF Removes
  <2>3. CASE Loop(i) \/ WaitEnds(i) \/ IdleEnds(i) \/ Die(i) \/ \E j \in Idx : ReapWorker(i, j)
    BY <2>2, <2>3 DEF Loop, WaitEnds, IdleEnds, Die, ReapWorker
  <2>4. CASE GetReentrancyLock(i) \/ EnableReentrancy(i) \/ CallbackReturns(i) \/ ExpireAlarm(i) \/ ExpireReturns(i)
    BY <2>2, <2>4 DEF GetReentrancyLock, EnableReentrancy, CallbackReturns, ExpireAlarm, ExpireReturns
  <2>5. CASE Serve(i) \/ ThreadExit(i)
    BY <2>2, <2>5 DEF Serve, ThreadExit
  <2> QED
    BY <1>2, <2>1, <2>3, <2>4, <2>5 DEF ThreadStep, RunStep
<1>3. CASE Tick
  BY <1>3 DEF Tick, Removes
<1> QED
  BY <1>1, <1>2, <1>3 DEF Next

\* A sleeping controller sleeps on, and an alert it has got stays.
LEMMA SleepFrame ==
  ASSUME BaseInv, Next, NEW i \in Idx, pc'[i] = "ctlWait"
  PROVE  \/ /\ pc[i] = "ctlWait" /\ until'[i] = until[i]
            /\ stopEvent[i] => stopEvent'[i]
         \/ Loop(i)
<1>0. /\ TypeOK /\ IdInv /\ ThreadInv /\ pc \in [Idx -> ThreadPc] /\ until \in [Idx -> Nat]
      /\ stopEvent \in [Idx -> BOOLEAN]
  BY DEF BaseInv, TypeOK
<1> DEFINE Sleeps == /\ pc[i] = "ctlWait" /\ until'[i] = until[i]
                     /\ stopEvent[i] => stopEvent'[i]
<1>1. ASSUME NEW c \in Client, ClientStep(c)
      PROVE  Sleeps
  <2>1. CASE Start(c)
    BY <1>0, <2>1 DEF Start, ThreadInv, runVars
  <2>2. CASE StartDone(c)
    BY <2>2 DEF StartDone, runVars
  <2>3. CASE Stop(c)
    BY <1>0, <2>3 DEF Stop, runVars
  <2>4. CASE ~(Start(c) \/ StartDone(c) \/ Stop(c))
    <3>1. pc' = pc /\ until' = until
      BY <1>1, <2>4, ClientFrame
    <3>2. stopEvent[i] => stopEvent'[i]
      <4>1. ASSUME NEW a, NEW S, NEW T, Insert(a, S, T) PROVE stopEvent[i] => stopEvent'[i]
        BY <1>0, <4>1 DEF Insert
      <4>2. ASSUME ForceAlert(c) PROVE stopEvent[i] => stopEvent'[i]
        BY <1>0, <4>2 DEF ForceAlert
      <4>3. CASE \E a \in Alarm, d \in 0 .. MaxDelay : AddAlarm(c, a, d) \/ AddAlarmNonBlocking(c, a, d)
        BY <4>1, <4>3 DEF AddAlarm, AddAlarmNonBlocking
      <4>4. CASE AddAlarmWake(c) \/ AddAlarmForced(c) \/ \E o, a \in Alarm, d \in 0 .. MaxDelay, block \in BOOLEAN : ReplaceAlarm(c, o, a, d, block)
        BY <4>1, <4>4 DEF AddAlarmWake, AddAlarmForced, ReplaceAlarm
      <4>5. CASE \E a \in Alarm, block \in BOOLEAN : RemoveAlarm(c, a, block) \/ ForceRemoveAlarm(c, a, block)
        BY <4>2, <4>5 DEF RemoveAlarm, ForceRemoveAlarm
      <4>6. CASE RemoveAlarmWake(c) \/ RemoveAlarmsWithListener(c) \/ RemoveListenerAlarm(c)
        BY <4>2, <4>6 DEF RemoveAlarmWake, RemoveAlarmsWithListener, RemoveListenerAlarm
      <4> QED
        BY <1>1, <2>4, <4>3, <4>4, <4>5, <4>6 DEF ClientStep
    <3> QED
      BY <3>1, <3>2
  <2> QED
    BY <1>1, <2>1, <2>2, <2>3, <2>4
<1>2. ASSUME NEW k \in Idx, ThreadStep(k), k # i
      PROVE  Sleeps
  <2>1. CASE Loop(k)
    BY <1>0, <1>2, <2>1 DEF Loop, LeaveLoop, Goto
  <2>2. CASE WaitEnds(k) \/ IdleEnds(k)
    BY <1>0, <1>2, <2>2 DEF WaitEnds, IdleEnds, LeaveLoop, Goto, runVars
  <2>3. CASE GetReentrancyLock(k) \/ EnableReentrancy(k) \/ CallbackReturns(k)
    BY <1>0, <1>2, <2>3 DEF GetReentrancyLock, TakeReentrancyLock, EnableReentrancy, CallbackReturns, Goto
  <2>4. CASE Serve(k)
    <3>1. until' = until /\ \E where \in {"call", "loop"} : Handed(k, where)
      BY <1>0, <2>4, ServeHands DEF Serve
    <3> QED
      BY <1>0, <1>2, <3>1 DEF Handed
  <2>5. CASE FinishAlarm(k)
    <3>1. until' = until /\ pc'[i] = pc[i]
      BY <1>0, <1>2, <2>5 DEF FinishAlarm, Goto
    <3>2. stopEvent[i] => stopEvent'[i]
      BY <1>0, <2>5 DEF FinishAlarm, Insert
    <3> QED
      BY <3>1, <3>2
  <2>6. CASE ThreadExit(k) \/ ExpireAlarm(k) \/ ExpireReturns(k) \/ Die(k) \/ \E j \in Idx : ReapWorker(k, j)
    BY <1>0, <1>2, <2>6 DEF ThreadExit, ExpireAlarm, TakeReentrancyLock, ExpireReturns, Die, ReapWorker, Goto, runVars
  <2> QED
    BY <1>2, <2>1, <2>2, <2>3, <2>4, <2>5, <2>6 DEF ThreadStep, RunStep
<1>3. ASSUME ThreadStep(i), ~Loop(i)
      PROVE  Sleeps
  <2>1. CASE \E j \in Idx : ReapWorker(i, j)
    BY <2>1 DEF ReapWorker, runVars
  <2>2. pc'[i] # "ctlWait" \/ \E j \in Idx : ReapWorker(i, j)
    <3>1. CASE Serve(i)
      <4>1. \E where \in {"call", "loop"} : Handed(i, where)
        BY <1>0, <3>1, ServeHands
      <4> QED
        BY <1>0, <4>1 DEF Handed
    <3>2. CASE WaitEnds(i) \/ IdleEnds(i) \/ GetReentrancyLock(i) \/ EnableReentrancy(i) \/ CallbackReturns(i)
      BY <1>0, <3>2 DEF WaitEnds, IdleEnds, LeaveLoop, GetReentrancyLock, TakeReentrancyLock, EnableReentrancy, CallbackReturns, Goto
    <3>3. CASE FinishAlarm(i) \/ ThreadExit(i) \/ ExpireAlarm(i) \/ ExpireReturns(i) \/ Die(i)
      BY <1>0, <3>3 DEF FinishAlarm, ThreadExit, ExpireAlarm, TakeReentrancyLock, ExpireReturns, Die, Goto
    <3> QED
      BY <1>3, <3>1, <3>2, <3>3 DEF ThreadStep, RunStep
  <2> QED
    BY <2>1, <2>2
<1>4. CASE Tick
  BY <1>4 DEF Tick, runVars
<1> QED
  BY <1>1, <1>2, <1>3, <1>4 DEF Next

\* A sleeping controller is told of an earlier alarm.
LEMMA SleepStep ==
  ASSUME BaseInv, PlaceInv, RoleInv, SleepInv, Next
  PROVE  SleepInv'
<1>0. /\ TypeOK /\ IdInv /\ ThreadInv /\ pc \in [Idx -> ThreadPc] /\ until \in [Idx -> Nat]
      /\ stopEvent \in [Idx -> BOOLEAN] /\ alarms \subseteq Alarm /\ alarmTime \in [Alarm -> Nat]
      /\ alarmTime' \in [Alarm -> Nat]
  <2>1. TypeOK'
    BY TypeStep DEF BaseInv
  <2> QED
    BY <2>1 DEF BaseInv, TypeOK
<1> SUFFICES ASSUME NEW i \in Idx, pc'[i] = "ctlWait", ~stopEvent'[i], NEW x \in alarms'
             PROVE  until'[i] <= alarmTime'[x]
  BY DEF SleepInv
<1>1. CASE Loop(i)
  <2>1. alarms' = alarms /\ alarmTime' = alarmTime
    BY <1>1 DEF Loop, alarmVars
  <2>2. until' = [until EXCEPT ![i] = IF alarms = {} THEN Never ELSE alarmTime[First(alarms)]]
    BY <1>0, <1>1 DEF Loop, LeaveLoop, Goto
  <2>3. alarmTime[First(alarms)] <= alarmTime[x]
    BY <1>0, <2>1, FirstAlarm
  <2>4. until'[i] = alarmTime[First(alarms)]
    BY <1>0, <2>1, <2>2
  <2> QED
    BY <2>1, <2>3, <2>4
<1>2. CASE ~Loop(i)
  <2>1. /\ pc[i] = "ctlWait" /\ until'[i] = until[i] /\ ~stopEvent[i]
    BY <1>2, SleepFrame
  <2>2. \A b \in alarms : until[i] <= alarmTime[b]
    BY <2>1 DEF SleepInv
  <2>3. CASE Removes
    BY <2>1, <2>2, <2>3 DEF Removes
  <2>4. ASSUME NEW a \in Alarm, AddsOne(a)
        PROVE  until'[i] <= alarmTime'[x]
    <3>1. PICK S \in SUBSET alarms, T \in Nat : a \notin alarms /\ Insert(a, S, T)
      BY <2>4 DEF AddsOne
    <3>2. controllerIdx = i /\ state[i] = "IDLE" /\ i >= 0
      BY <1>0, <2>1 DEF RoleInv, ThreadInv, Idx
    <3>3. ~Earliest(a, S, T)
      BY <1>0, <3>1, <3>2 DEF Insert
    <3>4. PICK b \in S : ~(T < alarmTime[b])
      BY <3>3 DEF Earliest
    <3>5. until[i] <= T
      BY <1>0, <2>2, <3>4
    <3>6. alarmTime' = [alarmTime EXCEPT ![a] = T] /\ alarms' = S \union {a}
      BY <3>1 DEF Insert
    <3>7. CASE x = a
      BY <1>0, <2>1, <3>5, <3>6, <3>7
    <3>8. CASE x \in S
      BY <1>0, <2>1, <2>2, <3>1, <3>6, <3>8
    <3> QED
      BY <3>6, <3>7, <3>8
  <2> QED
    BY <2>3, <2>4, SetMoves
<1> QED
  BY <1>1, <1>2

\* The last thread leaves only when there is nothing to expire.
LEMMA DrainStep ==
  ASSUME BaseInv, PlaceInv, RoleInv, RoleInv', DrainInv, Next
  PROVE  DrainInv'
<1>0. /\ TypeOK /\ IdInv /\ ThreadInv /\ pc \in [Idx -> ThreadPc] /\ BaseInv'
      /\ ExpireOnExit \in BOOLEAN
  BY BaseStep, TimerAssumption DEF BaseInv, TypeOK
<1> SUFFICES ASSUME ExpireOnExit, alarms' # {}
             PROVE  \E i \in Idx : pc'[i] \notin {"off", "dead"}
  BY DEF DrainInv
<1>1. CASE isRunning'
  <2>1. Up'
    BY <1>1 DEF Up
  <2>2. controllerIdx' \in Idx \union {-1}
    BY <1>0 DEF BaseInv, TypeOK
  <2> QED
    BY <2>1, <2>2 DEF RoleInv
<1>2. CASE ~isRunning'
  <2>1. CASE alarms = {}
    <3>1. \E a \in Alarm : AddsOne(a)
      BY <2>1, SetMoves DEF Removes
    <3>2. isRunning
      BY <3>1 DEF AddsOne
    <3>3. ASSUME NEW c \in Client, ClientStep(c) PROVE FALSE
      BY <1>2, <2>1, <3>2, <3>3, ClientFrame DEF Start, StartDone, Stop, alarmVars
    <3>4. isRunning' = isRunning
      BY <1>0, <3>3, ThreadFrame DEF Next, Tick
    <3> QED
      BY <1>2, <3>2, <3>4
  <2>2. CASE alarms # {}
    <3>1. PICK k \in Idx : pc[k] \notin {"off", "dead"}
      BY <2>2 DEF DrainInv
    <3>2. ASSUME NEW c \in Client, ClientStep(c) PROVE \E i \in Idx : pc'[i] \notin {"off", "dead"}
      <4>1. CASE Start(c)
        BY <1>0, <4>1 DEF Start, Idx
      <4> QED
        BY <3>1, <3>2, <4>1, ClientFrame DEF StartDone, Stop
    <3>3. ASSUME NEW i \in Idx, ThreadStep(i) PROVE \E j \in Idx : pc'[j] \notin {"off", "dead"}
      <4>1. CASE ThreadExit(i)
        <5>1. ~isRunning
          BY <1>0, <1>2, <4>1 DEF ThreadExit
        <5> QED
          BY <1>0, <2>2, <4>1, <5>1 DEF ThreadExit, ToExpire, Goto
      <4>2. CASE Die(i)
        BY <1>0, <3>1, <4>2 DEF Die, Goto
      <4>3. CASE Serve(i)
        <5>1. \E where \in {"call", "loop"} : Handed(i, where)
          BY <1>0, <4>3, ServeHands
        <5> QED
          BY <1>0, <5>1 DEF Handed
      <4>4. CASE Loop(i) \/ WaitEnds(i) \/ IdleEnds(i)
        BY <1>0, <4>4 DEF Loop, WaitEnds, IdleEnds, LeaveLoop, Goto
      <4>5. CASE GetReentrancyLock(i) \/ CallbackReturns(i) \/ FinishAlarm(i) \/ ExpireAlarm(i) \/ ExpireReturns(i)
        BY <1>0, <4>5 DEF GetReentrancyLock, TakeReentrancyLock, CallbackReturns, FinishAlarm, ExpireAlarm, ExpireReturns, Goto
      <4>6. CASE EnableReentrancy(i) \/ \E j \in Idx : ReapWorker(i, j)
        BY <3>1, <4>6 DEF EnableReentrancy, ReapWorker
      <4> QED
        BY <3>3, <4>1, <4>2, <4>3, <4>4, <4>5, <4>6 DEF ThreadStep, RunStep
    <3>4. CASE Tick
      BY <3>1, <3>4 DEF Tick
    <3> QED
      BY <3>2, <3>3, <3>4 DEF Next
  <2> QED
    BY <2>1, <2>2
<1> QED
  BY <1>0, <1>1, <1>2

\* Layer 4 is an invariant: while the timer starts or runs the controller role is held or
\* about to be taken by a thread in Run, a sleeping controller sleeps no longer than until
\* the first alarm unless it has been alerted, and a stopped timer that expires its alarms
\* has a thread left to do it.
THEOREM RoleInvariant == SafeSpec => [](RoleInv /\ SleepInv /\ DrainInv)
<1>1. Init => RoleInv /\ SleepInv /\ DrainInv
  BY DEF Init, RoleInv, SleepInv, DrainInv, Up, Starting, IdleClient
<1>2. ASSUME BaseInv, PlaceInv, RoleInv, SleepInv, DrainInv, [Next]_vars
      PROVE  RoleInv' /\ SleepInv' /\ DrainInv'
  <2>1. CASE Next
    <3>1. RoleInv'
      BY <1>2, <2>1, RoleStep
    <3>2. SleepInv'
      BY <1>2, <2>1, SleepStep
    <3>3. DrainInv'
      BY <1>2, <2>1, <3>1, DrainStep
    <3> QED
      BY <3>1, <3>2, <3>3
  <2>2. CASE UNCHANGED vars
    BY <1>2, <2>2 DEF vars, RoleInv, SleepInv, DrainInv, Up, Starting, alarmVars, clientVars, threadVars, runVars
  <2> QED
    BY <1>2, <2>1, <2>2
<1> QED
  BY <1>1, <1>2, BaseInvariant, PlaceInvariant, PTL DEF SafeSpec

\* The controller role is never lost: while the timer runs and alarms are pending some
\* thread is on its way to them, or sleeps no longer than until the first of them.
THEOREM NoStranded == SafeSpec => []NoStrandedAlarm
<1>1. ASSUME BaseInv, RoleInv, SleepInv PROVE NoStrandedAlarm
  <2> SUFFICES ASSUME isRunning, alarms # {} PROVE \E i \in Idx : Awake(i)
    BY DEF NoStrandedAlarm
  <2>1. controllerIdx \in Idx \union {-1} /\ alarms \subseteq Alarm /\ IdInv
    BY <1>1 DEF BaseInv, TypeOK
  <2>2. First(alarms) \in alarms
    BY <1>1, <2>1, FirstAlarm DEF BaseInv, IdInv
  <2>3. CASE controllerIdx = -1
    BY <1>1, <2>3 DEF RoleInv, Up, Awake
  <2>4. CASE controllerIdx # -1
    <3>1. controllerIdx \in Idx /\ pc[controllerIdx] \in {"loop", "ctlWait", "reent", "serve"}
      BY <1>1, <2>1, <2>4 DEF RoleInv, Up
    <3>2. Awake(controllerIdx)
      BY <1>1, <2>2, <3>1 DEF SleepInv, Awake
    <3> QED
      BY <3>1, <3>2
  <2> QED
    BY <2>3, <2>4
<1> QED
  BY <1>1, BaseInvariant, RoleInvariant, PTL

\* A timer with expireOnExit that was stopped and whose threads have all ended has
\* called every alarm left in it (ThreadExit).
THEOREM DrainedCorrect == SafeSpec => []DrainedWhenJoined
<1>1. ASSUME BaseInv, DrainInv PROVE DrainedWhenJoined
  BY <1>1 DEF BaseInv, ThreadInv, DrainInv, DrainedWhenJoined
<1> QED
  BY <1>1, BaseInvariant, RoleInvariant, PTL

-----------------------------------------------------------------------------
(* Layer 5.                                                                *)

\* Time and id of an alarm that has been put in stay; only an alarm that never was is put in.
PutsIn ==
  /\ \A b \in Alarm : Occurs(b, inserted) # {} => alarmTime'[b] = alarmTime[b] /\ alarmId'[b] = alarmId[b]
  /\ \/ inserted' = inserted /\ alarms' \subseteq alarms
     \/ \E z \in Alarm : Occurs(z, inserted) = {} /\ inserted' = Append(inserted, z) /\ alarms' \subseteq alarms \union {z}

\* An alarm that is not constructed yet, or waits for room, has never been put in.
NotYet == \A a \in Alarm : Unborn(a) \/ (\E c \in Client : Waiting(c, a)) => Occurs(a, inserted) = {}

\* Alarms are used once each: without periodic alarms none is put in twice.
LEMMA PutsInStep ==
  ASSUME Periodic = {}, BaseInv, PlaceInv, NotYet, Next
  PROVE  PutsIn /\ NotYet'
<1>0. /\ TypeOK /\ IdInv /\ ThreadInv /\ IdsDistinct /\ OnlyUsed /\ inserted \in Seq(Alarm)
      /\ alarmId \in [Alarm -> Nat] /\ alarms \subseteq Alarm
  BY DEF BaseInv, IdInv, TypeOK
<1>1. ASSUME NEW c \in Client, NEW a \in Alarm, Enters(c, a)
      PROVE  PutsIn /\ NotYet'
  <2>1. a \notin Used /\ alarmId'[a] # 0 /\ \A b \in Alarm \ {a} : alarmId'[b] = alarmId[b]
    BY <1>0, <1>1, ConstructIds DEF Enters, Used
  <2>2. Occurs(a, inserted) = {}
    BY <2>1 DEF NotYet, Unborn, Used
  <2>3. \A b \in Alarm : Occurs(b, inserted) # {} => alarmTime'[b] = alarmTime[b] /\ alarmId'[b] = alarmId[b]
    BY <1>1, <2>1, <2>2 DEF Enters
  <2>4. CASE /\ alarms' \subseteq alarms \union {a} /\ inserted' = Append(inserted, a)
             /\ client'[c].op # "add"
    <3>1. PutsIn
      BY <2>2, <2>3, <2>4 DEF PutsIn
    <3>2. ASSUME NEW b \in Alarm, Unborn(b)' \/ \E d \in Client : Waiting(d, b)'
          PROVE  Occurs(b, inserted') = {}
      <4>1. b # a /\ Occurs(b, inserted) = {}
        BY <1>0, <1>1, <2>1, <2>4, <3>2 DEF Unborn, Waiting, NotYet, Enters, OnlyUsed, Used
      <4> QED
        BY <1>0, <2>4, <4>1, OccursAppend
    <3> QED
      BY <3>1, <3>2 DEF NotYet
  <2>5. CASE UNCHANGED <<alarms, inserted>> /\ (client'[c].op = "add" => client'[c].alarm = a)
    <3>1. PutsIn
      BY <2>3, <2>5 DEF PutsIn
    <3>2. ASSUME NEW b \in Alarm, Unborn(b)' \/ \E d \in Client : Waiting(d, b)'
          PROVE  Occurs(b, inserted) = {}
      BY <1>1, <2>1, <2>2, <2>5, <3>2 DEF Unborn, Waiting, NotYet, Enters
    <3> QED
      BY <2>5, <3>1, <3>2 DEF NotYet
  <2> QED
    BY <1>1, <2>4, <2>5 DEF Enters
<1>2. ASSUME NEW c \in Client, GoesOn(c)
      PROVE  PutsIn /\ NotYet'
  <2> DEFINE z == client[c].alarm
  <2>1. z \in Used /\ z \in Alarm /\ Occurs(z, inserted) = {}
    BY <1>0, <1>2 DEF GoesOn, OnlyUsed, Used, NotYet, Waiting
  <2>2. \A b \in Alarm : Occurs(b, inserted) # {} => alarmTime'[b] = alarmTime[b] /\ alarmId'[b] = alarmId[b]
    BY <1>2, <2>1 DEF GoesOn
  <2>3. CASE client'[c].op = "none" /\ alarms' = alarms \union {z} /\ inserted' = Append(inserted, z)
    <3>1. PutsIn
      BY <2>1, <2>2, <2>3 DEF PutsIn
    <3>2. ASSUME NEW b \in Alarm, Unborn(b)' \/ \E d \in Client : Waiting(d, b)'
          PROVE  Occurs(b, inserted') = {}
      <4>1. b # z /\ Occurs(b, inserted) = {}
        BY <1>2, <2>1, <2>3, <3>2 DEF Unborn, Waiting, NotYet, GoesOn, PlaceInv, Used
      <4> QED
        BY <1>0, <2>1, <2>3, <4>1, OccursAppend
    <3> QED
      BY <3>1, <3>2 DEF NotYet
  <2>4. CASE UNCHANGED <<alarms, inserted>> /\ (client' = client \/ client'[c].op = "none")
    <3>1. \A b \in Alarm : Unborn(b)' \/ (\E d \in Client : Waiting(d, b)') => Occurs(b, inserted) = {}
      BY <1>2, <2>4 DEF Unborn, Waiting, NotYet, GoesOn
    <3> QED
      BY <2>2, <2>4, <3>1 DEF NotYet, PutsIn
  <2> QED
    BY <1>2, <2>3, <2>4 DEF GoesOn
<1>3. ASSUME NEW c \in Client, TakesOut(c)
      PROVE  PutsIn /\ NotYet'
  BY <1>3 DEF TakesOut, PutsIn, NotYet, Unborn, Waiting
<1>4. ASSUME NEW i \in Idx, ThreadStep(i)
      PROVE  PutsIn /\ NotYet'
  <2>1. UNCHANGED <<alarmId, client>>
    BY <1>0, <1>4, ThreadFrame
  <2>2. inserted' = inserted /\ alarms' \subseteq alarms /\ \A b \in Alarm : alarmTime'[b] = alarmTime[b]
    BY <1>4, ThreadMoves DEF Serves, TakesLast, PutsBack, Expires, LeavesAlarms
  <2> QED
    BY <2>1, <2>2 DEF PutsIn, NotYet, Unborn, Waiting
<1>5. CASE Tick
  BY <1>5 DEF Tick, alarmVars, clientVars, PutsIn, NotYet, Unborn, Waiting
<1> QED
  BY <1>0, <1>1, <1>2, <1>3, <1>4, <1>5, ClientMoves DEF Next

\* What comes before an alarm that has been put in came before it all along.
LEMMA OldOrder ==
  ASSUME BaseInv, PutsIn, NEW a \in Alarm, Occurs(a, inserted) # {},
         NEW x \in Alarm, Before(x, a)', InsertedBefore(x, a)'
  PROVE  Before(x, a) /\ InsertedBefore(x, a)
<1>0. inserted \in Seq(Alarm)
  BY DEF BaseInv, TypeOK
<1>1. InsertedBefore(x, a)
  <2>1. CASE inserted' = inserted
    BY <2>1 DEF InsertedBefore, Occurs
  <2>2. ASSUME NEW z \in Alarm, Occurs(z, inserted) = {}, inserted' = Append(inserted, z)
        PROVE  InsertedBefore(x, a)
    <3>1. a # z /\ Occurs(a, inserted') = Occurs(a, inserted) /\ Occurs(a, inserted) \subseteq 1 .. Len(inserted)
      BY <1>0, <2>2, OccursAppend
    <3>2. PICK k \in Occurs(x, inserted'), l \in Occurs(a, inserted') : k < l
      BY DEF InsertedBefore
    <3>3. Occurs(x, inserted') = IF x = z THEN Occurs(x, inserted) \union {Len(inserted) + 1} ELSE Occurs(x, inserted)
      BY <1>0, <2>2, OccursAppend
    <3>4. k # Len(inserted) + 1
      BY <1>0, <3>1, <3>2
    <3> QED
      BY <3>1, <3>2, <3>3, <3>4 DEF InsertedBefore
  <2> QED
    BY <2>1, <2>2 DEF PutsIn
<1> QED
  BY <1>1 DEF PutsIn, Before, InsertedBefore

\* What has been put in stays so.
LEMMA StaysPutIn ==
  ASSUME BaseInv, PutsIn, NEW a \in Alarm, Occurs(a, inserted) # {}
  PROVE  Occurs(a, inserted') # {}
<1>1. inserted \in Seq(Alarm)
  BY DEF BaseInv, TypeOK
<1>2. ASSUME NEW z \in Alarm PROVE Occurs(a, inserted) \subseteq Occurs(a, Append(inserted, z))
  BY <1>1, OccursAppend
<1> QED
  BY <1>2 DEF PutsIn

\* What an alarm has overtaken never comes back.
LEMMA OvertakenStep ==
  ASSUME BaseInv, PutsIn, NEW a \in Alarm, Occurs(a, inserted) # {}, Overtaken(a)
  PROVE  Occurs(a, inserted') # {} /\ Overtaken(a)'
<1>1. ASSUME NEW x \in Alarm, Before(x, a)', InsertedBefore(x, a)' PROVE x \notin alarms'
  <2>1. Before(x, a) /\ InsertedBefore(x, a)
    BY <1>1, OldOrder
  <2>2. x \notin alarms /\ Occurs(x, inserted) # {}
    BY <2>1 DEF Overtaken, InsertedBefore
  <2> QED
    BY <2>2 DEF PutsIn
<1> QED
  BY <1>1, StaysPutIn DEF Overtaken

\* The alarm at the front of the set has overtaken what came before it.
LEMMA FrontOvertakes ==
  ASSUME BaseInv, alarms # {}
  PROVE  Overtaken(First(alarms))
<1>1. /\ First(alarms) \in alarms
      /\ \A b \in alarms \ {First(alarms)} : Before(First(alarms), b)
  BY FirstAlarm DEF BaseInv
<1>2. alarms \subseteq Alarm /\ alarmTime \in [Alarm -> Nat] /\ alarmId \in [Alarm -> Nat]
  BY DEF BaseInv, TypeOK
<1>3. ASSUME NEW x \in alarms PROVE ~Before(x, First(alarms))
  <2>1. /\ alarmTime[x] \in Nat /\ alarmId[x] \in Nat
        /\ alarmTime[First(alarms)] \in Nat /\ alarmId[First(alarms)] \in Nat
    BY <1>1, <1>2
  <2>2. CASE x = First(alarms)
    BY <2>1, <2>2 DEF Before
  <2>3. CASE x # First(alarms)
    BY <1>1, <2>1, <2>3 DEF Before
  <2> QED
    BY <2>2, <2>3
<1> QED
  BY <1>3 DEF Overtaken

\* A thread's topAlarm is kept, dropped, or becomes the front of the set.
LEMMA TopMoves ==
  ASSUME BaseInv, Next, NEW k \in Idx
  PROVE  top'[k] \in {top[k], NoAlarm} \/ (alarms # {} /\ top'[k] = First(alarms))
<1>0. top \in [Idx -> Alarm \union {NoAlarm}]
  BY DEF BaseInv, TypeOK
<1>1. ASSUME NEW c \in Client, ClientStep(c)
      PROVE  top' = top
  BY <1>1, ClientCalls
<1>2. ASSUME NEW i \in Idx, ThreadStep(i)
      PROVE  top'[k] \in {top[k], NoAlarm} \/ (alarms # {} /\ top'[k] = First(alarms))
  <2>1. CASE Loop(i)
    BY <1>0, <2>1 DEF Loop
  <2>2. CASE Serve(i) \/ FinishAlarm(i)
    BY <1>0, <2>2 DEF Serve, FinishAlarm, Forget
  <2>3. CASE WaitEnds(i) \/ IdleEnds(i) \/ GetReentrancyLock(i) \/ EnableReentrancy(i) \/ CallbackReturns(i)
    BY <2>3 DEF WaitEnds, IdleEnds, GetReentrancyLock, EnableReentrancy, CallbackReturns, runVars
  <2>4. CASE ThreadExit(i) \/ ExpireAlarm(i) \/ ExpireReturns(i) \/ Die(i) \/ \E j \in Idx : ReapWorker(i, j)
    BY <2>4 DEF ThreadExit, ExpireAlarm, ExpireReturns, Die, ReapWorker, runVars
  <2> QED
    BY <1>2, <2>1, <2>2, <2>3, <2>4 DEF ThreadStep, RunStep
<1>3. CASE Tick
  BY <1>3 DEF Tick, runVars
<1> QED
  BY <1>1, <1>2, <1>3 DEF Next

\* A callback that begins is appended to the history.
LEMMA StartMoves ==
  ASSUME Periodic = {}, BaseInv, Next
  PROVE  \/ started' = started
         \/ \E a \in alarms : started' = Append(started, a) /\ \E i \in Idx : top[i] = a
<1>1. ASSUME NEW c \in Client, ClientStep(c) PROVE started' = started
  BY <1>1, ClientCalls
<1>2. ASSUME NEW i \in Idx, ThreadStep(i)
      PROVE  \/ started' = started
             \/ \E a \in alarms : started' = Append(started, a) /\ \E k \in Idx : top[k] = a
  BY <1>2, ThreadMoves DEF Serves, TakesLast, PutsBack, Expires, LeavesAlarms
<1>3. CASE Tick
  BY <1>3 DEF Tick, runVars
<1> QED
  BY <1>1, <1>2, <1>3 DEF Next

\* Layer 5 is kept by every step.
LEMMA OrderStep ==
  ASSUME Periodic = {}, BaseInv, PlaceInv, OrderInv, Next
  PROVE  OrderInv'
<1>0. /\ started \in Seq(Alarm) /\ alarms \subseteq Alarm /\ inserted \in Seq(Alarm)
      /\ top \in [Idx -> Alarm \union {NoAlarm}] /\ NoAlarm \notin Alarm
  BY DEF BaseInv, TypeOK
<1>1. PutsIn /\ NotYet'
  BY PutsInStep DEF OrderInv, NotYet
<1>2. ASSUME NEW i \in Idx, NEW a \in Alarm, top'[i] = a
      PROVE  Occurs(a, inserted') # {} /\ Overtaken(a)'
  <2>1. Occurs(a, inserted) # {} /\ Overtaken(a)
    <3>1. CASE top'[i] = top[i]
      BY <1>0, <1>2, <3>1 DEF OrderInv
    <3>2. CASE alarms # {} /\ top'[i] = First(alarms)
      <4>1. First(alarms) \in alarms
        BY <3>2, FirstAlarm DEF BaseInv
      <4>2. Occurs(First(alarms), inserted) # {} /\ Overtaken(First(alarms))
        BY <3>2, <4>1, FrontOvertakes DEF OrderInv
      <4> QED
        BY <1>2, <3>2, <4>2
    <3> QED
      BY <1>0, <1>2, <3>1, <3>2, TopMoves
  <2> QED
    BY <1>1, <2>1, OvertakenStep
<1>3. ASSUME NEW a \in Alarm, a \in alarms'
      PROVE  Occurs(a, inserted') # {}
  <2>1. CASE inserted' = inserted /\ alarms' \subseteq alarms
    BY <1>3, <2>1 DEF OrderInv
  <2>2. ASSUME NEW z \in Alarm, inserted' = Append(inserted, z), alarms' \subseteq alarms \union {z}
        PROVE  Occurs(a, inserted') # {}
    <3>1. CASE a = z
      <4>1. Occurs(z, inserted') = Occurs(z, inserted) \union {Len(inserted) + 1}
        BY <1>0, <2>2, OccursAppend
      <4> QED
        BY <3>1, <4>1
    <3>2. CASE a # z
      BY <1>1, <1>3, <2>2, <3>2, StaysPutIn DEF OrderInv
    <3> QED
      BY <3>1, <3>2
  <2> QED
    BY <1>1, <2>1, <2>2 DEF PutsIn
<1>4. ASSUME NEW n \in DOMAIN started', NEW a \in Alarm, started'[n] = a
      PROVE  /\ Occurs(a, inserted') # {} /\ Overtaken(a)'
             /\ \A x \in Alarm : Before(x, a)' /\ InsertedBefore(x, a)' =>
                   \A m \in DOMAIN started' : m > n => started'[m] # x
  <2>1. CASE started' = started
    <3>1. Occurs(a, inserted) # {} /\ Overtaken(a)
      BY <1>4, <2>1 DEF OrderInv
    <3>2. ASSUME NEW x \in Alarm, Before(x, a)', InsertedBefore(x, a)', NEW m \in DOMAIN started, m > n
          PROVE  started[m] # x
      <4>1. Before(x, a) /\ InsertedBefore(x, a)
        BY <1>1, <3>1, <3>2, OldOrder
      <4> QED
        BY <1>4, <2>1, <3>2, <4>1 DEF OrderInv, DispatchOrder, InsertedBefore, Occurs
    <3> QED
      BY <1>1, <1>4, <2>1, <3>1, <3>2, OvertakenStep
  <2>2. ASSUME NEW b \in alarms, started' = Append(started, b), NEW i \in Idx, top[i] = b
        PROVE  /\ Occurs(a, inserted') # {} /\ Overtaken(a)'
               /\ \A x \in Alarm : Before(x, a)' /\ InsertedBefore(x, a)' =>
                     \A m \in DOMAIN started' : m > n => started'[m] # x
    <3>0. b \in Alarm /\ DOMAIN started' = 1 .. Len(started) + 1 /\ DOMAIN started = 1 .. Len(started)
          /\ Len(started) \in Nat
      BY <1>0, <2>2
    <3>1. Occurs(a, inserted) # {} /\ Overtaken(a)
      <4>1. CASE n \in DOMAIN started
        BY <1>0, <1>4, <2>2, <4>1 DEF OrderInv
      <4>2. CASE n \notin DOMAIN started
        <5>1. a = b
          BY <1>0, <1>4, <2>2, <3>0, <4>2
        <5> QED
          BY <2>2, <3>0, <5>1, TimerAssumption DEF OrderInv
      <4> QED
        BY <4>1, <4>2
    <3>2. ASSUME NEW x \in Alarm, Before(x, a)', InsertedBefore(x, a)', NEW m \in DOMAIN started', m > n
          PROVE  started'[m] # x
      <4>1. Before(x, a) /\ InsertedBefore(x, a)
        BY <1>1, <3>1, <3>2, OldOrder
      <4>2. n \in DOMAIN started /\ started[n] = a
        BY <1>0, <1>4, <2>2, <3>0, <3>2
      <4>3. CASE m \in DOMAIN started
        <5>1. started'[m] = started[m]
          BY <1>0, <2>2, <4>3
        <5> QED
          BY <3>2, <4>1, <4>2, <4>3, <5>1 DEF OrderInv, DispatchOrder, InsertedBefore, Occurs
      <4>4. CASE m \notin DOMAIN started
        <5>1. started'[m] = b
          BY <1>0, <2>2, <3>0, <3>2, <4>4
        <5> QED
          BY <2>2, <3>1, <4>1, <5>1 DEF Overtaken
      <4> QED
        BY <4>3, <4>4
    <3> QED
      BY <1>1, <3>1, <3>2, OvertakenStep
  <2> QED
    BY <2>1, <2>2, StartMoves
<1>5. started' \in Seq(Alarm) /\ top' \in [Idx -> Alarm \union {NoAlarm}] /\ alarms' \subseteq Alarm
  BY BaseStep DEF BaseInv, TypeOK
<1>6. DispatchOrder'
  <2> SUFFICES ASSUME NEW n \in DOMAIN started', NEW x \in Alarm,
                      Before(x, started[n])',
                      \E k, l \in DOMAIN inserted' : k < l /\ inserted'[k] = x /\ inserted'[l] = started'[n]
               PROVE  x \notin alarms' /\ \A m \in DOMAIN started' : m > n => started'[m] # x
    BY DEF DispatchOrder
  <2>1. PICK a \in Alarm : a = started'[n]
    BY <1>5
  <2>2. Before(x, a)' /\ InsertedBefore(x, a)'
    BY <2>1 DEF Before, InsertedBefore, Occurs
  <2> QED
    BY <1>4, <2>1, <2>2 DEF Overtaken
<1>7. (\A i \in Idx : top[i] # NoAlarm => Occurs(top[i], inserted) # {} /\ Overtaken(top[i]))'
  <2> SUFFICES ASSUME NEW i \in Idx, top'[i] # NoAlarm
               PROVE  (Occurs(top[i], inserted) # {} /\ Overtaken(top[i]))'
    OBVIOUS
  <2>1. PICK a \in Alarm : a = top'[i]
    BY <1>5
  <2>2. Occurs(a, inserted') # {} /\ Overtaken(a)'
    BY <1>2, <2>1
  <2> QED
    BY <2>1, <2>2 DEF Overtaken, Before, InsertedBefore
<1>8. (\A n \in DOMAIN started : Occurs(started[n], inserted) # {} /\ Overtaken(started[n]))'
  <2> SUFFICES ASSUME NEW n \in DOMAIN started'
               PROVE  (Occurs(started[n], inserted) # {} /\ Overtaken(started[n]))'
    OBVIOUS
  <2>1. PICK a \in Alarm : a = started'[n]
    BY <1>5
  <2>2. Occurs(a, inserted') # {} /\ Overtaken(a)'
    BY <1>4, <2>1
  <2> QED
    BY <2>1, <2>2 DEF Overtaken, Before, InsertedBefore
<1>9. (\A a \in alarms : Occurs(a, inserted) # {})'
  BY <1>3, <1>5
<1> QED
  BY <1>1, <1>6, <1>7, <1>8, <1>9 DEF OrderInv, NotYet

\* Messages dispatched through a timer without periodic alarms keep their order: a callback
\* (AlarmTriggered with ER_OK) begins only when nothing that was added before its alarm and
\* precedes it in time and id is left in the set, whichever threads run the two.
THEOREM DispatchCorrect ==
  ASSUME Periodic = {}
  PROVE  SafeSpec => []DispatchOrder
<1>1. Init => OrderInv
  BY DEF Init, OrderInv, DispatchOrder, Occurs, Unborn, Waiting, IdleClient
<1>2. ASSUME BaseInv, PlaceInv, OrderInv, [Next]_vars PROVE OrderInv'
  <2>1. CASE Next
    BY <1>2, <2>1, OrderStep
  <2>2. CASE UNCHANGED vars
    BY <1>2, <2>2 DEF vars, OrderInv, DispatchOrder, Overtaken, Before, InsertedBefore, Occurs, Unborn, Waiting,
                      alarmVars, clientVars, runVars
  <2> QED
    BY <1>2, <2>1, <2>2
<1>3. OrderInv => DispatchOrder
  BY DEF OrderInv
<1> QED
  BY <1>1, <1>2, <1>3, BaseInvariant, PlaceInvariant, PTL DEF SafeSpec
=============================================================================
