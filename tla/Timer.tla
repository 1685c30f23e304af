------------------------------- MODULE Timer --------------------------------
(***************************************************************************)
(* qcc::Timer (common/src/Timer.cc): a set of alarms served by a pool of   *)
(* timer threads.  One thread is the controller; before it runs an alarm   *)
(* it wakes or starts another thread and gives the role up, and the first  *)
(* thread back in the loop takes it.  Clients add, replace and remove      *)
(* alarms, stop, join and restart the timer while all this goes on.        *)
(*                                                                         *)
(* Everything between taking and releasing Timer::lock is one step.  Waits *)
(* (Event::Wait, Sleep, the reentrancy lock, the callback) separate steps. *)
(* A wait for WORKER_IDLE_TIMEOUT_MS may end at any moment.                *)
(***************************************************************************)
EXTENDS Integers, Sequences, FiniteSets, SequencesExt

CONSTANTS
  NumThreads,         \* timerThreads.size(), the concurrency of the timer
  Alarm,              \* alarm objects
  NoAlarm,            \* a null Alarm pointer
  Periodic,           \* the alarms with periodMs # 0 (the period is one tick)
  Client,             \* threads that use the timer
  NoThread,           \* nobody holds the reentrancy lock
  MaxAlarms,          \* maxAlarms, 0 for no limit
  PreventReentrancy,  \* preventReentrancy
  ExpireOnExit,       \* expireOnExit
  MaxDelay,           \* bound: relative alarm times
  MaxTime,            \* bound: the clock
  MaxStarts,          \* bound: calls of Start
  ListenerAlarms      \* the alarms of one AlarmListener, to be destroyed

Idx == 0 .. NumThreads - 1
Never == MaxTime + MaxDelay + 2   \* later than any alarm time

ASSUME TimerAssumption ==
  /\ NumThreads \in Nat \ {0}
  /\ Periodic \subseteq Alarm
  /\ ListenerAlarms \subseteq Alarm
  /\ NoAlarm \notin Alarm
  /\ NoThread \notin Idx
  /\ MaxAlarms \in Nat
  /\ MaxDelay \in Nat
  /\ MaxTime \in Nat
  /\ MaxStarts \in Nat
  /\ PreventReentrancy \in BOOLEAN
  /\ ExpireOnExit \in BOOLEAN
  \* No timer of the repository limits its alarms and has periodic ones:
  \* re-adding one to a full set would wait with Timer::lock held.
  /\ MaxAlarms = 0 \/ Periodic = {}

VARIABLES
  now,             \* the clock
  alarms,          \* Timer::alarms
  alarmTime,       \* _Alarm::alarmTime
  alarmId,         \* _Alarm::id, 0 before the alarm is constructed
  isRunning,       \* Timer::isRunning
  controllerIdx,   \* Timer::controllerIdx
  reentrancyLock,  \* holder of Timer::reentrancyLock
  addWaitQueue,    \* Timer::addWaitQueue, front first
  alerted,         \* clients whose Thread::Alert is pending
  client,          \* per client: the call it is in
  starts,          \* calls of Start so far
  allocated,       \* per thread: timerThreads[i] # NULL
  state,           \* TimerThread::state
  live,            \* Thread::IsRunning()
  isStopping,      \* Thread::isStopping
  stopEvent,       \* Thread::stopEvent is set
  pc,              \* per thread: where it is between two critical sections
  until,           \* end of the timed wait the thread is in
  top,             \* Run's topAlarm
  loopNow,         \* Run's now
  currentAlarm,    \* TimerThread::currentAlarm
  hasTimerLock,    \* TimerThread::hasTimerLock
  started,         \* history: the callbacks begun with ER_OK, in order
  expired,         \* history: the callbacks begun with ER_TIMER_EXITING, in order
  inserted,        \* history: the alarms put into the set, in order
  removed,         \* history: alarms for which a blocking RemoveAlarm returned
  listenerGone     \* history: RemoveAlarmsWithListener has returned

clockVars  == <<now, loopNow>>
alarmVars  == <<alarms, alarmTime, alarmId, inserted>>
clientVars == <<client, starts, removed, listenerGone>>
waitVars   == <<addWaitQueue, alerted>>
threadVars == <<allocated, live, isStopping>>
runVars    == <<until, top, currentAlarm, hasTimerLock, reentrancyLock, started, expired>>
vars == <<clockVars, alarmVars, clientVars, waitVars, threadVars, runVars, isRunning,
          controllerIdx, state, stopEvent, pc>>

IdleClient == [op |-> "none"]

Init ==
  /\ now = 0
  /\ alarms = {}
  /\ alarmTime = [a \in Alarm |-> 0]
  /\ alarmId = [a \in Alarm |-> 0]
  /\ isRunning = FALSE
  /\ controllerIdx = 0
  /\ reentrancyLock = NoThread
  /\ addWaitQueue = <<>>
  /\ alerted = {}
  /\ client = [c \in Client |-> IdleClient]
  /\ starts = 0
  /\ allocated = [i \in Idx |-> FALSE]
  /\ state = [i \in Idx |-> "STOPPED"]
  /\ live = [i \in Idx |-> FALSE]
  /\ isStopping = [i \in Idx |-> FALSE]
  /\ stopEvent = [i \in Idx |-> FALSE]
  /\ pc = [i \in Idx |-> "off"]
  /\ until = [i \in Idx |-> 0]
  /\ top = [i \in Idx |-> NoAlarm]
  /\ loopNow = [i \in Idx |-> 0]
  /\ currentAlarm = [i \in Idx |-> NoAlarm]
  /\ hasTimerLock = [i \in Idx |-> FALSE]
  /\ started = <<>>
  /\ expired = <<>>
  /\ inserted = <<>>
  /\ removed = {}
  /\ listenerGone = FALSE

\* _Alarm::operator<
Before(a, b) == \/ alarmTime[a] < alarmTime[b]
                \/ alarmTime[a] = alarmTime[b] /\ alarmId[a] < alarmId[b]

\* Mutant: of alarms of the same time the latest comes first.
IsFirstLatest(a, S) ==
  /\ a \in S
  /\ \A b \in S \ {a} :
       \/ alarmTime[a] < alarmTime[b]
       \/ alarmTime[a] = alarmTime[b] /\ alarmId[a] > alarmId[b]

\* *alarms.begin()
IsFirst(a, S) == a \in S /\ \A b \in S \ {a} : Before(a, b)
First(S) == CHOOSE a \in S : IsFirst(a, S)

Full == MaxAlarms # 0 /\ Cardinality(alarms) >= MaxAlarms

Tick == /\ now < MaxTime
        /\ now' = now + 1
        /\ UNCHANGED <<loopNow, alarmVars, clientVars, waitVars, threadVars, runVars,
                       isRunning, controllerIdx, state, stopEvent, pc>>

-----------------------------------------------------------------------------
(* Clients.                                                                *)

\* Mutant: an empty set does not count as later.
EarliestNonEmpty(a, S, T) ==
  S # {} /\ \A b \in S : T < alarmTime[b] \/ (T = alarmTime[b] /\ alarmId'[a] < alarmId[b])

\* alertThread: the set S is empty or alarm a, for time T, goes to its front.
Earliest(a, S, T) ==
  S = {} \/ \A b \in S : T < alarmTime[b] \/ (T = alarmTime[b] /\ alarmId'[a] < alarmId[b])

\* The insertion at the end of AddAlarm, with the alert of an idle controller.
\* S is the set the alarm is added to.
Insert(a, S, T) ==
  /\ alarms' = S \union {a}
  /\ alarmTime' = [alarmTime EXCEPT ![a] = T]
  /\ inserted' = Append(inserted, a)
  /\ stopEvent' = IF Earliest(a, S, T) /\ controllerIdx >= 0 /\ state[controllerIdx] = "IDLE"
                  THEN [stopEvent EXCEPT ![controllerIdx] = TRUE]
                  ELSE stopEvent

\* A new alarm gets the next id; the objects of Alarm are used once each.
Fresh(a) == /\ alarmId[a] = 0
            /\ a \in ListenerAlarms => ~listenerGone /\ \A c \in Client : client[c].op # "removeAll"
NextId == Cardinality({a \in Alarm : alarmId[a] # 0}) + 1
Construct(a) == Fresh(a) /\ alarmId' = [alarmId EXCEPT ![a] = NextId]

\* AddAlarm up to the wait for room.
AddAlarm(c, a, d) ==
  /\ client[c] = IdleClient
  /\ Construct(a)
  /\ \/ /\ isRunning /\ ~Full
        /\ Insert(a, alarms, now + d)
        /\ UNCHANGED <<client, addWaitQueue>>
     \/ /\ isRunning /\ Full
        /\ addWaitQueue' = <<c>> \o addWaitQueue
        /\ client' = [client EXCEPT ![c] = [op |-> "add", alarm |-> a, time |-> now + d]]
        /\ UNCHANGED <<alarms, alarmTime, inserted, stopEvent>>
     \/ /\ ~isRunning     \* ER_TIMER_EXITING
        /\ UNCHANGED <<alarms, alarmTime, inserted, stopEvent, client, addWaitQueue>>
  /\ UNCHANGED <<clockVars, starts, removed, listenerGone, alerted, threadVars, runVars, isRunning,
                 controllerIdx, state, pc>>

\* AddAlarm after it was alerted: leave the queue, look at the limit again.
AddAlarmWake(c) ==
  /\ client[c].op = "add"
  /\ c \in alerted
  /\ UNCHANGED alarmId
  /\ alerted' = alerted \ {c}
  /\ LET rest == RemoveFirst(addWaitQueue, c) IN
     \/ /\ isRunning /\ Full
        /\ addWaitQueue' = <<c>> \o rest
        /\ UNCHANGED <<client, alarms, alarmTime, inserted, stopEvent>>
     \/ /\ isRunning /\ ~Full
        /\ addWaitQueue' = rest
        /\ Insert(client[c].alarm, alarms, client[c].time)
        /\ client' = [client EXCEPT ![c] = IdleClient]
     \/ /\ ~isRunning
        /\ addWaitQueue' = rest
        /\ client' = [client EXCEPT ![c] = IdleClient]
        /\ UNCHANGED <<alarms, alarmTime, inserted, stopEvent>>
  /\ UNCHANGED <<clockVars, starts, removed, listenerGone, threadVars, runVars, isRunning,
                 controllerIdx, state, pc>>

\* The waiting thread is a timer thread of another timer, and a ForceRemoveAlarm of
\* that timer alerts it: AddAlarm gives up with ER_TIMER_EXITING.
AddAlarmForced(c) ==
  /\ client[c].op = "add"
  /\ alerted' = alerted \ {c}
  /\ addWaitQueue' = RemoveFirst(addWaitQueue, c)
  /\ client' = [client EXCEPT ![c] = IdleClient]
  /\ UNCHANGED <<clockVars, alarmVars, starts, removed, listenerGone, threadVars, runVars, isRunning,
                 controllerIdx, state, stopEvent, pc>>

\* AddAlarmNonBlocking: ER_TIMER_FULL and ER_TIMER_EXITING leave the timer alone.
AddAlarmNonBlocking(c, a, d) ==
  /\ client[c] = IdleClient
  /\ Construct(a)
  /\ IF isRunning /\ ~Full
     THEN Insert(a, alarms, now + d)
     ELSE UNCHANGED <<alarms, alarmTime, inserted, stopEvent>>
  /\ UNCHANGED <<clockVars, clientVars, waitVars, threadVars, runVars, isRunning,
                 controllerIdx, state, pc>>

\* The alarms whose AddAlarm has returned: only these are passed to RemoveAlarm.
Added == {a \in Alarm : alarmId[a] # 0 /\ \A c \in Client : client[c].op = "add" => client[c].alarm # a}

\* Mutant: off by one, the thread at index k is skipped.
RunningAfter(k, S) == {i \in Idx : i > k /\ allocated[i] /\ currentAlarm[i] \in S}

\* The first thread from index k on that runs a callback for an alarm of S.
RunningFrom(k, S) == {i \in Idx : i >= k /\ allocated[i] /\ currentAlarm[i] \in S}
MinIdx(I) == CHOOSE i \in I : \A j \in I : i <= j
MaxIdx(I) == CHOOSE i \in I : \A j \in I : j <= i

\* The wait loop of RemoveAlarm and ReplaceAlarm: go on to the next thread that
\* runs an alarm of S, or return.
WaitOrReturn(c, k, S, op, done) ==
  LET busy == RunningFrom(k, S) IN
  IF busy = {}
  THEN client' = [client EXCEPT ![c] = IdleClient] /\ done
  ELSE /\ client' = [client EXCEPT ![c] = [op |-> op, alarms |-> S, at |-> MinIdx(busy)]]
       /\ UNCHANGED <<removed, listenerGone>>

\* RemoveAlarm(alarm, blockIfTriggered).  It looks at nothing once the timer is
\* stopped, unless the timer expires its alarms on exit.
RemoveAlarm(c, a, block) ==
  /\ client[c] = IdleClient
  /\ a \in Added
  /\ \/ /\ isRunning \/ ExpireOnExit
        /\ a \in alarms
        /\ alarms' = alarms \ {a}
        /\ removed' = removed \union {a}
        /\ UNCHANGED <<client, listenerGone>>
     \/ /\ isRunning \/ ExpireOnExit
        /\ a \notin alarms
        /\ block
        /\ WaitOrReturn(c, 0, {a}, "remove", removed' = removed \union {a} /\ UNCHANGED listenerGone)
        /\ UNCHANGED alarms
     \/ /\ ~(isRunning \/ ExpireOnExit)
        /\ block
        /\ removed' = removed \union {a}
        /\ UNCHANGED <<alarms, client, listenerGone>>
  /\ UNCHANGED <<alarmTime, alarmId, inserted, starts, clockVars, waitVars, threadVars, runVars,
                 isRunning, controllerIdx, state, stopEvent, pc>>

\* The wait loop of ForceRemoveAlarm alerts the thread whose callback it waits for.
ForceAlert(c) ==
  stopEvent' = IF client'[c].op = "force" THEN [stopEvent EXCEPT ![client'[c].at] = TRUE] ELSE stopEvent

\* ForceRemoveAlarm(alarm, blockIfTriggered).
ForceRemoveAlarm(c, a, block) ==
  /\ client[c] = IdleClient
  /\ a \in Added
  /\ isRunning \/ ExpireOnExit
  /\ \/ /\ a \in alarms
        /\ alarms' = alarms \ {a}
        /\ removed' = removed \union {a}
        /\ UNCHANGED <<client, listenerGone, stopEvent>>
     \/ /\ a \notin alarms
        /\ block
        /\ WaitOrReturn(c, 0, {a}, "force", removed' = removed \union {a} /\ UNCHANGED listenerGone)
        /\ ForceAlert(c)
        /\ UNCHANGED alarms
  /\ UNCHANGED <<alarmTime, alarmId, inserted, starts, clockVars, waitVars, threadVars, runVars,
                 isRunning, controllerIdx, state, pc>>

\* RemoveAlarm back from Sleep: the callback it waited for is over.
RemoveAlarmWake(c) ==
  /\ client[c].op \in {"remove", "force", "replace"}
  /\ currentAlarm[client[c].at] \notin client[c].alarms
  /\ WaitOrReturn(c, client[c].at, client[c].alarms, client[c].op,
                  /\ removed' = IF client[c].op = "replace" THEN removed ELSE removed \union client[c].alarms
                  /\ UNCHANGED listenerGone)
  /\ ForceAlert(c)
  /\ UNCHANGED <<alarmVars, starts, clockVars, waitVars, threadVars, runVars,
                 isRunning, controllerIdx, state, pc>>

\* ReplaceAlarm(origAlarm, newAlarm, blockIfTriggered): the nested AddAlarm finds room,
\* an alarm has just been erased.
ReplaceAlarm(c, o, a, d, block) ==
  /\ client[c] = IdleClient
  /\ o \in Added
  /\ Construct(a)
  /\ \/ /\ isRunning /\ o \in alarms
        /\ Insert(a, alarms \ {o}, now + d)
        /\ UNCHANGED <<client, removed, listenerGone>>
     \/ /\ isRunning /\ o \notin alarms /\ block       \* ER_NO_SUCH_ALARM after the wait
        /\ WaitOrReturn(c, 0, {o}, "replace", UNCHANGED <<removed, listenerGone>>)
        /\ UNCHANGED <<alarms, alarmTime, inserted, stopEvent>>
     \/ /\ ~isRunning \/ (o \notin alarms /\ ~block)    \* ER_NO_SUCH_ALARM
        /\ UNCHANGED <<alarms, alarmTime, inserted, stopEvent, client, removed, listenerGone>>
  /\ UNCHANGED <<starts, clockVars, waitVars, threadVars, runVars, isRunning,
                 controllerIdx, state, pc>>

\* RemoveAlarmsWithListener calls RemoveAlarm(listener) until it returns false.
\* Each call erases the first alarm of the listener; the last one finds none and
\* waits for the callbacks of the listener that are under way.
RemoveAlarmsWithListener(c) ==
  /\ client[c] = IdleClient
  /\ ~listenerGone
  /\ \A k \in Client : client[k].op = "add" => client[k].alarm \notin ListenerAlarms
  /\ client' = [client EXCEPT ![c] = [op |-> "removeAll", alarms |-> ListenerAlarms, at |-> -1]]
  /\ UNCHANGED <<alarmVars, starts, removed, listenerGone, clockVars, waitVars, threadVars, runVars,
                 isRunning, controllerIdx, state, stopEvent, pc>>

RemoveListenerAlarm(c) ==
  /\ client[c].op = "removeAll"
  /\ LET mine == alarms \intersect ListenerAlarms
         gone == listenerGone' = TRUE /\ UNCHANGED removed
     IN
     \/ /\ client[c].at = -1 /\ (isRunning \/ ExpireOnExit) /\ mine # {}
        /\ alarms' = alarms \ {First(mine)}
        /\ UNCHANGED <<client, removed, listenerGone>>
     \/ /\ client[c].at = -1 /\ (isRunning \/ ExpireOnExit) /\ mine = {}
        /\ WaitOrReturn(c, 0, ListenerAlarms, "removeAll", gone)
        /\ UNCHANGED alarms
     \/ /\ client[c].at = -1 /\ ~(isRunning \/ ExpireOnExit)
        /\ client' = [client EXCEPT ![c] = IdleClient] /\ gone
        /\ UNCHANGED alarms
     \/ /\ client[c].at # -1 /\ currentAlarm[client[c].at] \notin ListenerAlarms
        /\ WaitOrReturn(c, client[c].at, ListenerAlarms, "removeAll", gone)
        /\ UNCHANGED alarms
  /\ UNCHANGED <<alarmTime, alarmId, inserted, starts, clockVars, waitVars, threadVars, runVars,
                 isRunning, controllerIdx, state, stopEvent, pc>>

\* Start, up to its wait for thread 0.  Callers Join before they Start again.
Start(c) ==
  /\ client[c] = IdleClient
  /\ ~isRunning
  /\ starts < MaxStarts
  /\ \A i \in Idx : ~live[i]
  /\ starts' = starts + 1
  /\ controllerIdx' = 0
  /\ allocated' = [allocated EXCEPT ![0] = TRUE]
  /\ state' = [state EXCEPT ![0] = "STARTING"]
  /\ live' = [live EXCEPT ![0] = TRUE]
  /\ stopEvent' = [stopEvent EXCEPT ![0] = FALSE]
  /\ pc' = [pc EXCEPT ![0] = "loop"]
  /\ client' = [client EXCEPT ![c] = [op |-> "start"]]
  /\ UNCHANGED <<alarmVars, removed, listenerGone, clockVars, waitVars, isStopping, runVars, isRunning>>

\* Thread 0 is idle: the timer runs.  Or five seconds have passed: ER_FAIL.
StartDone(c) ==
  /\ client[c].op = "start"
  /\ isRunning' = (state[0] = "IDLE")
  /\ client' = [client EXCEPT ![c] = IdleClient]
  /\ UNCHANGED <<alarmVars, starts, removed, listenerGone, clockVars, waitVars, threadVars, runVars,
                 controllerIdx, state, stopEvent, pc>>

\* Stop: every thread is told, and so is every client that waits for room.
Stop(c) ==
  /\ client[c] = IdleClient
  /\ \A k \in Client : client[k].op # "start"
  /\ \E i \in Idx : live[i] /\ ~isStopping[i]
  /\ isRunning' = FALSE
  /\ isStopping' = [i \in Idx |-> isStopping[i] \/ (allocated[i] /\ live[i])]
  /\ stopEvent' = [i \in Idx |-> stopEvent[i] \/ (allocated[i] /\ live[i])]
  /\ alerted' = alerted \union {addWaitQueue[n] : n \in DOMAIN addWaitQueue}
  /\ UNCHANGED <<alarmVars, clientVars, clockVars, addWaitQueue, allocated, live, runVars,
                 controllerIdx, state, pc>>

-----------------------------------------------------------------------------
(* Timer threads: TimerThread::Run.                                        *)

\* Leave the loop: the thread was stopped, or idled for too long.
LeaveLoop(i) == /\ state' = [state EXCEPT ![i] = "STOPPING"]
                /\ pc' = [pc EXCEPT ![i] = "exit"]
                /\ stopEvent' = [stopEvent EXCEPT ![i] = FALSE]

Goto(i, where) == pc' = [pc EXCEPT ![i] = where]

\* The head of the loop, up to the next wait.
Loop(i) ==
  /\ pc[i] = "loop"
  /\ \/ /\ isStopping[i]
        /\ LeaveLoop(i)
        /\ UNCHANGED <<controllerIdx, until, top, loopNow>>
     \/ /\ ~isStopping[i]
        /\ controllerIdx' = IF controllerIdx = -1 THEN i ELSE controllerIdx
        /\ LET isController == controllerIdx \in {-1, i}
               first == First(alarms)
               due == alarms # {} /\ alarmTime[first] <= now
           IN
           \/ /\ due                         \* the next alarm is due now
              /\ state' = [state EXCEPT ![i] = "RUNNING"]
              /\ stopEvent' = [stopEvent EXCEPT ![i] = FALSE]
              /\ top' = [top EXCEPT ![i] = first]
              /\ loopNow' = [loopNow EXCEPT ![i] = now]
              /\ Goto(i, "reent")
              /\ UNCHANGED until
           \/ /\ ~due /\ isController        \* the controller sleeps until the next alarm
              /\ state' = [state EXCEPT ![i] = "IDLE"]
              /\ until' = [until EXCEPT ![i] = IF alarms = {} THEN Never ELSE alarmTime[first]]
              /\ Goto(i, "ctlWait")
              /\ UNCHANGED <<stopEvent, top, loopNow>>
           \/ /\ ~due /\ ~isController /\ alarms # {}    \* less than the idle timeout away
              /\ state' = [state EXCEPT ![i] = "IDLE"]
              /\ until' = [until EXCEPT ![i] = alarmTime[first]]
              /\ Goto(i, "sleep")
              /\ UNCHANGED <<stopEvent, top, loopNow>>
           \/ /\ ~due /\ ~isController       \* a worker with nothing to do
              /\ state' = [state EXCEPT ![i] = "IDLE"]
              /\ Goto(i, "idle")
              /\ UNCHANGED <<stopEvent, until, top, loopNow>>
  /\ UNCHANGED <<now, alarmVars, clientVars, waitVars, threadVars, currentAlarm, hasTimerLock,
                 reentrancyLock, started, expired, isRunning>>

\* The controller deletes the object of a worker that has stopped.
ReapWorker(i, j) ==
  /\ pc[i] = "ctlWait"
  /\ isRunning
  /\ j # i /\ allocated[j] /\ state[j] = "STOPPED" /\ ~live[j]
  /\ allocated' = [allocated EXCEPT ![j] = FALSE]
  /\ UNCHANGED <<clockVars, alarmVars, clientVars, waitVars, live, isStopping, runVars, isRunning,
                 controllerIdx, state, stopEvent, pc>>

\* The end of a wait for an alert or for the time of the next alarm.
WaitEnds(i) ==
  /\ pc[i] \in {"ctlWait", "sleep"}
  /\ stopEvent[i] \/ now >= until[i]
  /\ stopEvent' = [stopEvent EXCEPT ![i] = FALSE]
  /\ Goto(i, "loop")
  /\ until' = [until EXCEPT ![i] = 0]
  /\ UNCHANGED <<clockVars, alarmVars, clientVars, waitVars, threadVars, top, currentAlarm,
                 hasTimerLock, reentrancyLock, started, expired, isRunning, controllerIdx, state>>

\* A worker's idle wait ends in an alert, or in a timeout after which it stops
\* unless the controller role is free.
IdleEnds(i) ==
  /\ pc[i] = "idle"
  /\ \/ /\ stopEvent[i] \/ controllerIdx = -1
        /\ stopEvent' = [stopEvent EXCEPT ![i] = FALSE]
        /\ Goto(i, "loop")
        /\ UNCHANGED state
     \/ /\ controllerIdx # -1
        /\ LeaveLoop(i)
  /\ UNCHANGED <<clockVars, alarmVars, clientVars, waitVars, threadVars, runVars, isRunning,
                 controllerIdx>>

\* An alarm is due: take the reentrancy lock if the timer prevents reentrancy.
TakeReentrancyLock(i, from, to) ==
  /\ pc[i] = from
  /\ PreventReentrancy => reentrancyLock = NoThread
  /\ reentrancyLock' = IF PreventReentrancy THEN i ELSE reentrancyLock
  /\ hasTimerLock' = [hasTimerLock EXCEPT ![i] = PreventReentrancy]
  /\ Goto(i, to)

GetReentrancyLock(i) ==
  /\ TakeReentrancyLock(i, "reent", "serve")
  /\ UNCHANGED <<clockVars, alarmVars, clientVars, waitVars, threadVars, until, top, currentAlarm,
                 started, expired, isRunning, controllerIdx, state, stopEvent>>

\* Mutant: unlocked by a callback that no longer holds it.
ReleaseAnyReentrancyLock(i) ==
  /\ hasTimerLock' = [hasTimerLock EXCEPT ![i] = FALSE]
  /\ reentrancyLock' = NoThread

\* Unlock the reentrancy lock if this thread still holds it.
ReleaseReentrancyLock(i) ==
  /\ hasTimerLock' = [hasTimerLock EXCEPT ![i] = FALSE]
  /\ reentrancyLock' = IF hasTimerLock[i] THEN NoThread ELSE reentrancyLock

\* topAlarm and now go out of scope at the end of a turn of the loop.
Forget(i) == /\ top' = [top EXCEPT ![i] = NoAlarm]
             /\ loopNow' = [loopNow EXCEPT ![i] = 0]

\* Which thread the controller can hand its role to.
Others(i)      == Idx \ {i}
IdleWorkers(i) == {j \in Others(i) : allocated[j] /\ state[j] = "IDLE"}
StoppedWorkers(i) == {j \in Others(i) : allocated[j] /\ state[j] = "STOPPED" /\ ~live[j]}
NullWorkers(i) == {j \in Others(i) : ~allocated[j]}
AllOthersBusy(i) == \A j \in Others(i) : allocated[j] /\ state[j] \in {"RUNNING", "STARTING"}

\* The search ends: otherwise the controller sleeps 2 ms and looks again.
SearchEnds(i) == \/ ~isRunning
                 \/ IdleWorkers(i) \union StoppedWorkers(i) \union NullWorkers(i) # {}
                 \/ AllOthersBusy(i)

StartWorker(j) == /\ allocated' = [allocated EXCEPT ![j] = TRUE]
                  /\ state' = [state EXCEPT ![j] = "STARTING"]
                  /\ live' = [live EXCEPT ![j] = TRUE]
                  /\ stopEvent' = [stopEvent EXCEPT ![j] = FALSE]

\* Mutant: the role is given up with an index past the end of timerThreads.
HandOverToNobody(i, where) ==
  /\ SearchEnds(i)
  /\ controllerIdx' = NumThreads
  /\ Goto(i, where)
  /\ UNCHANGED <<stopEvent, allocated, state, live>>

\* Wake or start a thread, then give the controller role up.
HandOver(i, where) ==
  /\ SearchEnds(i)
  /\ controllerIdx' = -1
  /\ \/ /\ isRunning /\ IdleWorkers(i) # {}
        /\ stopEvent' = [stopEvent EXCEPT ![MinIdx(IdleWorkers(i))] = TRUE]
        /\ Goto(i, where)
        /\ UNCHANGED <<allocated, state, live>>
     \/ /\ isRunning /\ IdleWorkers(i) = {}
        /\ StoppedWorkers(i) \union NullWorkers(i) # {}
        /\ LET j == IF StoppedWorkers(i) # {} THEN MaxIdx(StoppedWorkers(i)) ELSE MinIdx(NullWorkers(i))
           IN  StartWorker(j) /\ pc' = [pc EXCEPT ![i] = where, ![j] = "loop"]
     \/ /\ ~isRunning \/ (IdleWorkers(i) \union StoppedWorkers(i) \union NullWorkers(i) = {})
        /\ Goto(i, where)
        /\ UNCHANGED <<stopEvent, allocated, state, live>>

\* Mutant: topAlarm is run without looking for it again.
PendingWhenPicked(i) == TRUE

\* timer->alarms.find(topAlarm)
StillPending(i) == top[i] \in alarms

\* With both locks: hand the role over, then run topAlarm unless another thread
\* has served it or a client has removed it meanwhile.
Serve(i) ==
  /\ pc[i] = "serve"
  /\ LET there == StillPending(i)
         where == IF there THEN "call" ELSE "loop"
     IN  /\ IF controllerIdx = i
            THEN HandOver(i, where)
            ELSE Goto(i, where) /\ UNCHANGED <<controllerIdx, stopEvent, allocated, state, live>>
         /\ \/ /\ there
               /\ alarms' = alarms \ {top[i]}
               /\ currentAlarm' = [currentAlarm EXCEPT ![i] = top[i]]
               /\ started' = Append(started, top[i])
               /\ IF addWaitQueue = <<>>
                  THEN UNCHANGED waitVars
                  ELSE /\ alerted' = alerted \union {addWaitQueue[Len(addWaitQueue)]}
                       /\ addWaitQueue' = SubSeq(addWaitQueue, 1, Len(addWaitQueue) - 1)
               /\ UNCHANGED <<hasTimerLock, reentrancyLock, top, loopNow>>
            \/ /\ ~there
               /\ ReleaseReentrancyLock(i)
               /\ Forget(i)
               /\ UNCHANGED <<alarms, currentAlarm, started, waitVars>>
  /\ UNCHANGED <<now, alarmTime, alarmId, inserted, clientVars, isStopping, until, expired, isRunning>>

\* AlarmTriggered calls EnableReentrancy.
EnableReentrancy(i) ==
  /\ pc[i] = "call"
  /\ hasTimerLock[i]
  /\ ReleaseReentrancyLock(i)
  /\ UNCHANGED <<clockVars, alarmVars, clientVars, waitVars, threadVars, until, top, currentAlarm,
                 started, expired, isRunning, controllerIdx, state, stopEvent, pc>>

\* AlarmTriggered returns: the reentrancy lock goes first, Timer::lock is taken after.
CallbackReturns(i) ==
  /\ pc[i] = "call"
  /\ ReleaseReentrancyLock(i)
  /\ Goto(i, "done")
  /\ UNCHANGED <<clockVars, alarmVars, clientVars, waitVars, threadVars, until, top, currentAlarm,
                 started, expired, isRunning, controllerIdx, state, stopEvent>>

\* The next time of a periodic alarm: never before the time this turn began.
NextTime(i) == LET t == alarmTime[top[i]] + 1 IN IF t < loopNow[i] THEN loopNow[i] ELSE t

\* After the callback: no current alarm; a periodic alarm is added again.
FinishAlarm(i) ==
  /\ pc[i] = "done"
  /\ currentAlarm' = [currentAlarm EXCEPT ![i] = NoAlarm]
  /\ Goto(i, "loop")
  /\ Forget(i)
  /\ \/ /\ top[i] \in Periodic /\ isRunning
        /\ UNCHANGED alarmId
        /\ Insert(top[i], alarms, NextTime(i))
     \/ /\ top[i] \in Periodic /\ ~isRunning
        /\ alarmTime' = [alarmTime EXCEPT ![top[i]] = NextTime(i)]
        /\ UNCHANGED <<alarms, alarmId, inserted, stopEvent>>
     \/ /\ top[i] \notin Periodic
        /\ UNCHANGED <<alarmVars, stopEvent>>
  /\ UNCHANGED <<now, clientVars, waitVars, threadVars, until, hasTimerLock,
                 reentrancyLock, started, expired, isRunning, controllerIdx, state>>

-----------------------------------------------------------------------------
(* Timer threads: Timer::ThreadExit.                                       *)

\* What an exiting thread has still to call.
ToExpire == IF ~isRunning /\ ExpireOnExit THEN alarms ELSE {}

\* A stopped timer with expireOnExit calls its remaining alarms, one by one.
ThreadExit(i) ==
  /\ pc[i] = "exit"
  /\ IF ToExpire # {}
     THEN /\ alarms' = alarms \ {First(ToExpire)}
          /\ currentAlarm' = [currentAlarm EXCEPT ![i] = First(ToExpire)]
          /\ Goto(i, "exitReent")
          /\ UNCHANGED state
     ELSE /\ state' = [state EXCEPT ![i] = "STOPPED"]
          /\ Goto(i, "dead")
          /\ UNCHANGED <<alarms, currentAlarm>>
  /\ UNCHANGED <<clockVars, alarmTime, alarmId, inserted, clientVars, waitVars, threadVars, until, top,
                 hasTimerLock, reentrancyLock, started, expired, isRunning, controllerIdx, stopEvent>>

\* AlarmTriggered(alarm, ER_TIMER_EXITING) under the reentrancy lock.
ExpireAlarm(i) ==
  /\ TakeReentrancyLock(i, "exitReent", "exitCall")
  /\ expired' = Append(expired, currentAlarm[i])
  /\ UNCHANGED <<clockVars, alarmVars, clientVars, waitVars, threadVars, until, top, currentAlarm,
                 started, isRunning, controllerIdx, state, stopEvent>>

\* Mutant: one alarm is called, an if in place of the while.
ExpireReturnsOnce(i) ==
  /\ pc[i] = "exitCall"
  /\ ReleaseReentrancyLock(i)
  /\ currentAlarm' = [currentAlarm EXCEPT ![i] = NoAlarm]
  /\ state' = [state EXCEPT ![i] = "STOPPED"]
  /\ Goto(i, "dead")
  /\ UNCHANGED <<clockVars, alarmVars, clientVars, waitVars, threadVars, until, top,
                 started, expired, isRunning, controllerIdx, stopEvent>>

ExpireReturns(i) ==
  /\ pc[i] = "exitCall"
  /\ ReleaseReentrancyLock(i)
  /\ currentAlarm' = [currentAlarm EXCEPT ![i] = NoAlarm]
  /\ Goto(i, "exit")
  /\ UNCHANGED <<clockVars, alarmVars, clientVars, waitVars, threadVars, until, top,
                 started, expired, isRunning, controllerIdx, state, stopEvent>>

\* tt->Join() on itself: the thread is detached and dead.
Die(i) ==
  /\ pc[i] = "dead"
  /\ live' = [live EXCEPT ![i] = FALSE]
  /\ isStopping' = [isStopping EXCEPT ![i] = FALSE]
  /\ Goto(i, "off")
  /\ UNCHANGED <<clockVars, alarmVars, clientVars, waitVars, allocated, runVars,
                 isRunning, controllerIdx, state, stopEvent>>

-----------------------------------------------------------------------------
ClientStep(c) ==
  \/ \E a \in Alarm, d \in 0..MaxDelay : AddAlarm(c, a, d) \/ AddAlarmNonBlocking(c, a, d)
  \/ AddAlarmWake(c) \/ AddAlarmForced(c)
  \/ \E a \in Alarm, block \in BOOLEAN : RemoveAlarm(c, a, block) \/ ForceRemoveAlarm(c, a, block)
  \/ RemoveAlarmWake(c)
  \/ \E o, a \in Alarm, d \in 0..MaxDelay, block \in BOOLEAN : ReplaceAlarm(c, o, a, d, block)
  \/ RemoveAlarmsWithListener(c)
  \/ RemoveListenerAlarm(c)
  \/ Start(c) \/ StartDone(c) \/ Stop(c)

RunStep(i) == \/ Loop(i) \/ WaitEnds(i) \/ IdleEnds(i)
              \/ GetReentrancyLock(i) \/ Serve(i) \/ CallbackReturns(i) \/ FinishAlarm(i)
              \/ ThreadExit(i) \/ ExpireAlarm(i) \/ ExpireReturns(i) \/ Die(i)

ThreadStep(i) == \/ RunStep(i) \/ EnableReentrancy(i)
                 \/ \E j \in Idx : ReapWorker(i, j)

Next == Tick \/ (\E c \in Client : ClientStep(c)) \/ (\E i \in Idx : ThreadStep(i))

SafeSpec == Init /\ [][Next]_vars

\* Timer threads are scheduled, callbacks return, and a client inside a call goes on.
\* Nobody is obliged to add, remove, start or stop.
Fairness ==
  /\ WF_vars(Tick)
  /\ \A i \in Idx : WF_vars(RunStep(i))
  /\ \A c \in Client : /\ WF_vars(AddAlarmWake(c)) /\ WF_vars(RemoveAlarmWake(c))
                       /\ WF_vars(RemoveListenerAlarm(c)) /\ WF_vars(StartDone(c))

Spec == SafeSpec /\ Fairness

-----------------------------------------------------------------------------
ThreadPc == {"off", "loop", "ctlWait", "sleep", "idle", "reent", "serve", "call", "done",
             "exit", "exitReent", "exitCall", "dead"}
ClientCall == [op : {"none", "start"}]
              \union [op : {"add"}, alarm : Alarm, time : Nat]
              \union [op : {"remove", "force", "replace", "removeAll"}, alarms : SUBSET Alarm, at : Idx \union {-1}]

TypeOK ==
  /\ now \in Nat /\ loopNow \in [Idx -> Nat]
  /\ alarms \subseteq Alarm
  /\ alarmTime \in [Alarm -> Nat] /\ alarmId \in [Alarm -> Nat]
  /\ isRunning \in BOOLEAN
  /\ controllerIdx \in Idx \union {-1}
  /\ reentrancyLock \in Idx \union {NoThread}
  /\ addWaitQueue \in Seq(Client) /\ alerted \subseteq Client
  /\ client \in [Client -> ClientCall]
  /\ starts \in Nat
  /\ allocated \in [Idx -> BOOLEAN]
  /\ state \in [Idx -> {"STOPPED", "STARTING", "IDLE", "RUNNING", "STOPPING"}]
  /\ live \in [Idx -> BOOLEAN] /\ isStopping \in [Idx -> BOOLEAN] /\ stopEvent \in [Idx -> BOOLEAN]
  /\ pc \in [Idx -> ThreadPc]
  /\ until \in [Idx -> Nat]
  /\ top \in [Idx -> Alarm \union {NoAlarm}]
  /\ currentAlarm \in [Idx -> Alarm \union {NoAlarm}]
  /\ hasTimerLock \in [Idx -> BOOLEAN]
  /\ started \in Seq(Alarm) /\ expired \in Seq(Alarm) /\ inserted \in Seq(Alarm)
  /\ removed \subseteq Alarm /\ listenerGone \in BOOLEAN

Occurs(a, s) == {n \in DOMAIN s : s[n] = a}

\* Several threads may pick the same topAlarm before one of them gets the locks:
\* a one-shot alarm is still called at most once, by ER_OK and ER_TIMER_EXITING together.
RunsAtMostOnce ==
  \A a \in Alarm \ Periodic : Cardinality(Occurs(a, started)) + Cardinality(Occurs(a, expired)) <= 1

\* Messages dispatched through a timer keep their order: an alarm that was in the
\* set before a later one is called before it, whichever threads call them.
DispatchOrder ==
  \A n \in DOMAIN started : \A x \in Alarm :
    /\ Before(x, started[n])
    /\ \E k, l \in DOMAIN inserted : k < l /\ inserted[k] = x /\ inserted[l] = started[n]
    => /\ x \notin alarms
       /\ \A m \in DOMAIN started : m > n => started[m] # x

\* RemoveAlarm(alarm, true) has returned, or RemoveAlarmsWithListener has, after which the
\* listener may be freed: no alarm removed is pending, no other thread is in its callback,
\* and so none will ever be.
RemovedIsQuiet ==
  LET quiet == removed \union (IF listenerGone THEN ListenerAlarms ELSE {})
  IN  quiet \intersect alarms = {} /\ \A i \in Idx : currentAlarm[i] \notin quiet

\* With preventReentrancy two callbacks overlap only if the first one asked for it with
\* EnableReentrancy: the lock a callback relies on is never released by another's return.
LockHeldThroughCallback ==
  \A i \in Idx : hasTimerLock[i] => reentrancyLock = i

\* A timer with expireOnExit that has been stopped and joined has called every alarm
\* left in it: nothing that was accepted is silently dropped.
DrainedWhenJoined ==
  ExpireOnExit /\ starts > 0 /\ ~isRunning /\ (\A i \in Idx : ~live[i]) => alarms = {}

\* The controller role is never lost: while the timer runs and alarms are pending, some
\* thread is on its way to them, or sleeps no longer than until the first of them.
Awake(i) == \/ pc[i] \in {"loop", "reent", "serve", "call", "done", "idle"}
            \/ pc[i] \in {"ctlWait", "sleep"} /\ (stopEvent[i] \/ until[i] <= alarmTime[First(alarms)])
NoStrandedAlarm == isRunning /\ alarms # {} => \E i \in Idx : Awake(i)

\* A due alarm is eventually taken out of the set, called or removed, unless the timer stops.
DueAlarmServed ==
  \A a \in Alarm : (isRunning /\ a \in alarms /\ alarmTime[a] <= now) ~> (a \notin alarms \/ ~isRunning)
=============================================================================
